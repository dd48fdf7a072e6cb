---------------------- MODULE TransactionService_proof ----------------------
(***************************************************************************)
(* Properties of TransactionService, for every value of its constants.     *)
(*                                                                         *)
(* The lemmas of the first part say what the methods of the objects do to  *)
(* a well-formed heap, one field at a time; the invariants use only them.  *)
(* The second part says what each call may never do: the action properties *)
(* and the safety part of the refinement of TransactionLifecycle.          *)
(***************************************************************************)
EXTENDS TransactionService, TLAPS

HeapType ==
    [tr : [Transactions -> TransactionRecord],
     span : [Spans -> SpanRecord],
     recorder : SUBSET EntryTypes,
     microtasks : Seq(Transactions)]

(* What no method of a transaction changes but redefinition *)
SameIdentity(q, r) ==
    /\ q.type = r.type
    /\ q.managed = r.managed
    /\ q.start = r.start
    /\ q.onEnd = r.onEnd

-----------------------------------------------------------------------------
(* Records *)

(* Truncate ends a span and records it once more (transaction.js:141). *)
LEMMA TruncateIs ==
    ASSUME NEW r \in SpanRecord
    PROVE  /\ Truncate(r) \in SpanRecord
           /\ Truncate(r).status = "ended"
           /\ Truncate(r).recorded = r.recorded + 1
           /\ Truncate(r).transaction = r.transaction
<1>1. r.recorded + 1 \in Nat
  BY DEF SpanRecord
<1> QED BY <1>1 DEF SpanRecord, Truncate

(* Finished, a span's own end, does the same without the mark (span-        *)
(* base.js:83).                                                             *)
LEMMA FinishedIs ==
    ASSUME NEW r \in SpanRecord
    PROVE  /\ Finished(r) \in SpanRecord
           /\ Finished(r).status = "ended"
           /\ Finished(r).recorded = r.recorded + 1
           /\ Finished(r).transaction = r.transaction
<1>1. r.recorded + 1 \in Nat
  BY DEF SpanRecord
<1> QED BY <1>1 DEF SpanRecord, Finished

(* Close ends a transaction and leaves it no active span                    *)
(* (transaction.js:137).                                                    *)
LEMMA CloseIs ==
    ASSUME NEW r \in TransactionRecord
    PROVE  /\ Close(r) \in TransactionRecord
           /\ Close(r).status = "ended"
           /\ Close(r).activeSpans = {}
           /\ SameIdentity(Close(r), r)
BY DEF TransactionRecord, Close, SameIdentity

(* Drop takes one span out of the active ones (transaction.js:188). *)
LEMMA DropIs ==
    ASSUME NEW r \in TransactionRecord, NEW s
    PROVE  /\ Drop(r, s) \in TransactionRecord
           /\ Drop(r, s).status = r.status
           /\ Drop(r, s).activeSpans = r.activeSpans \ {s}
           /\ SameIdentity(Drop(r, s), r)
BY DEF TransactionRecord, Drop, SameIdentity

(* Unregister takes a task away and changes nothing else                    *)
(* (transaction.js:173).                                                    *)
LEMMA UnregisterIs ==
    ASSUME NEW r \in TransactionRecord, NEW k
    PROVE  /\ Unregister(r, k) \in TransactionRecord
           /\ Unregister(r, k).status = r.status
           /\ Unregister(r, k).activeSpans = r.activeSpans
           /\ SameIdentity(Unregister(r, k), r)
BY DEF TransactionRecord, Unregister, SameIdentity

(* Adopt adds an active span, with or without its task                      *)
(* (transaction.js:109).                                                    *)
LEMMA AdoptIs ==
    ASSUME NEW r \in TransactionRecord, NEW s \in Spans, NEW blocking \in BOOLEAN
    PROVE  /\ Adopt(r, s, blocking) \in TransactionRecord
           /\ Adopt(r, s, blocking).status = r.status
           /\ Adopt(r, s, blocking).activeSpans = r.activeSpans \cup {s}
           /\ SameIdentity(Adopt(r, s, blocking), r)
BY DEF TransactionRecord, Adopt, SameIdentity

-----------------------------------------------------------------------------
(* The heap *)

LEMMA PutTransactionIs ==
    ASSUME NEW h \in HeapType, NEW t \in Transactions, NEW r \in TransactionRecord
    PROVE  /\ PutTransaction(h, t, r) \in HeapType
           /\ PutTransaction(h, t, r).tr = [h.tr EXCEPT ![t] = r]
           /\ PutTransaction(h, t, r).span = h.span
           /\ PutTransaction(h, t, r).recorder = h.recorder
           /\ PutTransaction(h, t, r).microtasks = h.microtasks
BY DEF HeapType, PutTransaction

(* PutSpan replaces one span of a heap and keeps the rest. *)
LEMMA PutSpanIs ==
    ASSUME NEW h \in HeapType, NEW s \in Spans, NEW r \in SpanRecord
    PROVE  /\ PutSpan(h, s, r) \in HeapType
           /\ PutSpan(h, s, r).tr = h.tr
           /\ PutSpan(h, s, r).span = [h.span EXCEPT ![s] = r]
           /\ PutSpan(h, s, r).recorder = h.recorder
           /\ PutSpan(h, s, r).microtasks = h.microtasks
BY DEF HeapType, PutSpan

(* TruncateSpans truncates exactly the open spans of the heap               *)
(* (transaction.js:141).                                                    *)
LEMMA TruncateSpansIs ==
    ASSUME NEW h \in HeapType, NEW open \in SUBSET Spans
    PROVE  LET g == TruncateSpans(h, open) IN
           /\ g \in HeapType
           /\ g.tr = h.tr
           /\ g.span = [s \in Spans |-> IF s \in open THEN Truncate(h.span[s])
                                                      ELSE h.span[s]]
           /\ g.recorder = h.recorder
           /\ g.microtasks = h.microtasks
<1> DEFINE f == [s \in Spans |-> IF s \in open THEN Truncate(h.span[s]) ELSE h.span[s]]
<1>1. h.span \in [Spans -> SpanRecord]
  BY DEF HeapType
<1>2. f \in [Spans -> SpanRecord]
  BY <1>1, TruncateIs
<1>3. TruncateSpans(h, open) = [h EXCEPT !.span = f]
  BY DEF TruncateSpans
<1> HIDE DEF f
<1>4. LET g == [h EXCEPT !.span = f] IN
        /\ g \in HeapType
        /\ g.tr = h.tr
        /\ g.span = f
        /\ g.recorder = h.recorder
        /\ g.microtasks = h.microtasks
  BY <1>2 DEF HeapType
<1> QED BY <1>3, <1>4 DEF f

(* CallOnEnd stops the recorder and queues the transaction, if it has the   *)
(* hook (transaction-service.js:234).                                       *)
LEMMA CallOnEndIs ==
    ASSUME NEW h \in HeapType, NEW t \in Transactions
    PROVE  LET g == CallOnEnd(h, t) IN
           /\ g \in HeapType
           /\ g.tr = h.tr
           /\ g.span = h.span
           /\ g.recorder = IF h.tr[t].onEnd THEN {} ELSE h.recorder
           /\ g.microtasks = IF h.tr[t].onEnd THEN Append(h.microtasks, t)
                                              ELSE h.microtasks
<1>1. \A m \in Seq(Transactions) :
        LET g == [[h EXCEPT !.recorder = {}] EXCEPT !.microtasks = m] IN
        /\ [h EXCEPT !.recorder = {}, !.microtasks = m] = g
        /\ g \in HeapType
        /\ g.tr = h.tr
        /\ g.span = h.span
        /\ g.recorder = {}
        /\ g.microtasks = m
  BY DEF HeapType
<1>2. Append(h.microtasks, t) \in Seq(Transactions)
  BY DEF HeapType
<1> QED BY <1>1, <1>2 DEF CallOnEnd

(* The spans and the transactions of a heap agree *)
SpansOK(h) ==
    /\ \A s \in Spans, t \in Transactions :
          s \in h.tr[t].activeSpans <=>
            h.span[s].status = "running" /\ h.span[s].transaction = t
    /\ \A t \in Transactions : h.tr[t].status # "running" => h.tr[t].activeSpans = {}
    /\ \A s \in Spans : h.span[s].status = "running" =>
          h.span[s].recorded = 0 /\ h.span[s].transaction \in Transactions
    /\ \A s \in Spans : h.span[s].status = "ended" => h.span[s].recorded = 1

(* A call on transaction t leaves it as it is or ends it *)
EndsOrStays(h, g, t) ==
    /\ \A u \in Transactions \ {t} : g.tr[u] = h.tr[u]
    /\ SameIdentity(g.tr[t], h.tr[t])
    /\ \/ /\ g.tr[t].status = h.tr[t].status
          /\ g.recorder = h.recorder
          /\ g.microtasks = h.microtasks
       \/ /\ h.tr[t].status = "running"
          /\ g.tr[t].status = "ended"
          /\ g.recorder = IF h.tr[t].onEnd THEN {} ELSE h.recorder
          /\ g.microtasks = IF h.tr[t].onEnd THEN Append(h.microtasks, t)
                                             ELSE h.microtasks

(* A good heap, and a good call on t from h to g *)
HeapOK(h) == h \in HeapType /\ SpansOK(h)

CallOK(h, g, t) == HeapOK(g) /\ EndsOrStays(h, g, t)

(* Ending a transaction keeps the heap well-formed: its spans are recorded, *)
(* it is queued once (transaction.js:133).                                  *)
LEMMA EndOK ==
    ASSUME NEW h, HeapOK(h), NEW t \in Transactions, h.tr[t].status # "unused"
    PROVE  CallOK(h, End(h, t), t) /\ End(h, t).tr[t].status = "ended"
<1>1. CASE h.tr[t].status = "ended"
  BY <1>1 DEF End, CallOK, HeapOK, EndsOrStays, SameIdentity
<1>2. CASE h.tr[t].status # "ended"
  <2> DEFINE open == h.tr[t].activeSpans
             cut == TruncateSpans(h, open)
             closed == PutTransaction(cut, t, Close(h.tr[t]))
             g == CallOnEnd(closed, t)
  <2>1. /\ h \in HeapType
        /\ h.tr \in [Transactions -> TransactionRecord]
        /\ h.span \in [Spans -> SpanRecord]
    BY DEF HeapOK, HeapType
  <2>2. h.tr[t] \in TransactionRecord /\ open \in SUBSET Spans
    BY <2>1 DEF TransactionRecord
  <2>3. h.tr[t].status = "running"
    BY <2>2, <1>2 DEF TransactionRecord
  <2>4. /\ cut \in HeapType
        /\ cut.tr = h.tr
        /\ cut.span = [s \in Spans |-> IF s \in open THEN Truncate(h.span[s])
                                                     ELSE h.span[s]]
        /\ cut.recorder = h.recorder
        /\ cut.microtasks = h.microtasks
    BY <2>1, <2>2, TruncateSpansIs
  <2>5. /\ closed \in HeapType
        /\ closed.tr = [h.tr EXCEPT ![t] = Close(h.tr[t])]
        /\ closed.span = cut.span
        /\ closed.recorder = h.recorder
        /\ closed.microtasks = h.microtasks
    BY <2>2, <2>4, CloseIs, PutTransactionIs
  <2> HIDE DEF cut, closed
  <2>6. /\ g \in HeapType
        /\ g.tr = [h.tr EXCEPT ![t] = Close(h.tr[t])]
        /\ g.span = cut.span
        /\ g.recorder = IF closed.tr[t].onEnd THEN {} ELSE h.recorder
        /\ g.microtasks = IF closed.tr[t].onEnd THEN Append(h.microtasks, t)
                                                ELSE h.microtasks
    BY <2>5, CallOnEndIs
  <2>7. End(h, t) = g
    BY <1>2 DEF End, cut, closed
  <2> HIDE DEF g
  <2>8. SpansOK(g)
    BY <2>1, <2>2, <2>4, <2>6, CloseIs, TruncateIs DEF HeapOK, SpansOK
  <2>9. closed.tr[t].onEnd = h.tr[t].onEnd
    BY <2>1, <2>2, <2>5, CloseIs DEF SameIdentity
  <2>10. EndsOrStays(h, g, t)
    BY <2>1, <2>2, <2>3, <2>6, <2>9, CloseIs DEF EndsOrStays
  <2>11. g.tr[t].status = "ended"
    BY <2>1, <2>2, <2>6, CloseIs
  <2> QED BY <2>6, <2>7, <2>8, <2>10, <2>11 DEF CallOK, HeapOK
<1> QED BY <1>1, <1>2

(* A call on t that changes only its tasks and flags *)
Touches(h, g, t) ==
    /\ \A u \in Transactions \ {t} : g.tr[u] = h.tr[u]
    /\ SameIdentity(g.tr[t], h.tr[t])
    /\ g.tr[t].status = h.tr[t].status
    /\ g.recorder = h.recorder
    /\ g.microtasks = h.microtasks

(* A call after a change that touches no span, status, identity or hook of  *)
(* a transaction is, from before the change, such a call.                   *)
LEMMA TouchThenCall ==
    ASSUME NEW h, NEW g, NEW k, NEW t \in Transactions,
           Touches(h, g, t), CallOK(g, k, t)
    PROVE  CallOK(h, k, t)
BY DEF Touches, CallOK, EndsOrStays, SameIdentity

(* Replacing a transaction by one of the same status, spans and identity    *)
(* is such a change, and a call that keeps the heap well-formed.            *)
LEMMA TouchOK ==
    ASSUME NEW h, HeapOK(h), NEW t \in Transactions, NEW q \in TransactionRecord,
           q.status = h.tr[t].status, q.activeSpans = h.tr[t].activeSpans,
           SameIdentity(q, h.tr[t])
    PROVE  LET g == PutTransaction(h, t, q) IN
           /\ HeapOK(g)
           /\ g.tr[t] = q
           /\ Touches(h, g, t)
           /\ CallOK(h, g, t)
<1> DEFINE g == PutTransaction(h, t, q)
<1>1. h \in HeapType /\ h.tr \in [Transactions -> TransactionRecord]
  BY DEF HeapOK, HeapType
<1>2. /\ g \in HeapType
      /\ g.tr = [h.tr EXCEPT ![t] = q]
      /\ g.span = h.span
      /\ g.recorder = h.recorder
      /\ g.microtasks = h.microtasks
  BY <1>1, PutTransactionIs
<1> HIDE DEF g
<1>3. SpansOK(g)
  BY <1>1, <1>2 DEF HeapOK, SpansOK
<1>4. Touches(h, g, t) /\ EndsOrStays(h, g, t)
  BY <1>1, <1>2 DEF Touches, EndsOrStays
<1>5. g.tr[t] = q
  BY <1>1, <1>2
<1> QED BY <1>2, <1>3, <1>4, <1>5 DEF HeapOK, CallOK, g

(* detectFinish keeps the heap well-formed, whether it ends the transaction *)
(* or not (transaction.js:125).                                             *)
LEMMA DetectFinishOK ==
    ASSUME NEW h, HeapOK(h), NEW t \in Transactions, h.tr[t].status # "unused"
    PROVE  CallOK(h, DetectFinish(h, t), t)
<1>1. CASE IsFinished(h.tr[t])
  BY <1>1, EndOK DEF DetectFinish
<1>2. CASE ~IsFinished(h.tr[t])
  BY <1>2 DEF DetectFinish, CallOK, EndsOrStays, SameIdentity
<1> QED BY <1>1, <1>2

(* removeTask keeps the heap well-formed (transaction.js:172). *)
LEMMA RemoveTaskOK ==
    ASSUME NEW h, HeapOK(h), NEW t \in Transactions, h.tr[t].status # "unused", NEW k
    PROVE  CallOK(h, RemoveTaskOf(h, t, k), t)
<1> DEFINE q == Unregister(h.tr[t], k)
           g == PutTransaction(h, t, q)
<1>1. h.tr[t] \in TransactionRecord
  BY DEF HeapOK, HeapType
<1>2. /\ q \in TransactionRecord
      /\ q.status = h.tr[t].status
      /\ q.activeSpans = h.tr[t].activeSpans
      /\ SameIdentity(q, h.tr[t])
  BY <1>1, UnregisterIs
<1> HIDE DEF q
<1>3. HeapOK(g) /\ g.tr[t] = q /\ Touches(h, g, t)
  BY <1>2, TouchOK
<1> HIDE DEF g
<1>4. CallOK(g, DetectFinish(g, t), t)
  BY <1>2, <1>3, DetectFinishOK
<1>5. CallOK(h, DetectFinish(g, t), t)
  BY <1>3, <1>4, TouchThenCall
<1>6. CASE k \in h.tr[t].activeTasks
  BY <1>5, <1>6 DEF RemoveTaskOf, g, q
<1>7. CASE k \notin h.tr[t].activeTasks
  BY <1>7 DEF RemoveTaskOf, CallOK, EndsOrStays, SameIdentity
<1> QED BY <1>6, <1>7

(* Ending a span keeps the heap well-formed: it is recorded once and its    *)
(* task removed (span-base.js:83, transaction.js:182).                      *)
LEMMA SpanEndOK ==
    ASSUME NEW h, HeapOK(h), NEW s \in Spans, h.span[s].status = "running"
    PROVE  /\ h.span[s].transaction \in Transactions
           /\ h.tr[h.span[s].transaction].status = "running"
           /\ CallOK(h, SpanEnd(h, s), h.span[s].transaction)
<1> DEFINE t == h.span[s].transaction
           f == PutSpan(h, s, Finished(h.span[s]))
           g == PutTransaction(f, t, Drop(h.tr[t], s))
<1>1. /\ h \in HeapType
      /\ h.tr \in [Transactions -> TransactionRecord]
      /\ h.span \in [Spans -> SpanRecord]
  BY DEF HeapOK, HeapType
<1>2. t \in Transactions /\ h.tr[t] \in TransactionRecord /\ h.span[s] \in SpanRecord
  BY <1>1 DEF HeapOK, SpansOK
<1>3. s \in h.tr[t].activeSpans
  BY <1>2 DEF HeapOK, SpansOK
<1>4. h.tr[t].status = "running"
  BY <1>2, <1>3 DEF HeapOK, SpansOK
<1> HIDE DEF t
<1>5. /\ f \in HeapType
      /\ f.tr = h.tr
      /\ f.span = [h.span EXCEPT ![s] = Finished(h.span[s])]
      /\ f.recorder = h.recorder
      /\ f.microtasks = h.microtasks
  BY <1>1, <1>2, FinishedIs, PutSpanIs
<1> HIDE DEF f
<1>6. /\ g \in HeapType
      /\ g.tr = [h.tr EXCEPT ![t] = Drop(h.tr[t], s)]
      /\ g.span = f.span
      /\ g.recorder = h.recorder
      /\ g.microtasks = h.microtasks
  BY <1>2, <1>5, DropIs, PutTransactionIs
<1>7. SpanEnd(h, s) = RemoveTaskOf(g, t, s)
  BY DEF SpanEnd, OnSpanEnd, g, f, t
<1> HIDE DEF g
<1>8. SpansOK(g)
  BY <1>1, <1>2, <1>4, <1>5, <1>6, DropIs, FinishedIs DEF HeapOK, SpansOK, t
<1>9. HeapOK(g) /\ g.tr[t].status # "unused"
  BY <1>1, <1>2, <1>4, <1>6, <1>8, DropIs DEF HeapOK
<1>10. Touches(h, g, t)
  BY <1>1, <1>2, <1>6, DropIs DEF Touches
<1>11. CallOK(g, RemoveTaskOf(g, t, s), t)
  BY <1>2, <1>9, RemoveTaskOK
<1>12. CallOK(h, RemoveTaskOf(g, t, s), t)
  BY <1>2, <1>10, <1>11, TouchThenCall
<1> QED BY <1>2, <1>4, <1>7, <1>12 DEF t

(* Starting a span on a running transaction keeps the heap well-formed      *)
(* (transaction.js:91).                                                     *)
LEMMA OpenSpanOK ==
    ASSUME NEW h, HeapOK(h), NEW s \in Spans, h.span[s].status = "unused",
           NEW t \in Transactions, h.tr[t].status = "running",
           NEW blocking \in BOOLEAN
    PROVE  CallOK(h, OpenSpan(h, t, s, blocking), t)
<1> DEFINE f == PutSpan(h, s, NewSpan(t))
           g == PutTransaction(f, t, Adopt(h.tr[t], s, blocking))
<1>1. /\ h \in HeapType
      /\ h.tr \in [Transactions -> TransactionRecord]
      /\ h.span \in [Spans -> SpanRecord]
  BY DEF HeapOK, HeapType
<1>2. /\ NewSpan(t) \in SpanRecord
      /\ NewSpan(t).status = "running"
      /\ NewSpan(t).transaction = t
      /\ NewSpan(t).recorded = 0
  BY DEF NewSpan, SpanRecord
<1>3. /\ f \in HeapType
      /\ f.tr = h.tr
      /\ f.span = [h.span EXCEPT ![s] = NewSpan(t)]
      /\ f.recorder = h.recorder
      /\ f.microtasks = h.microtasks
  BY <1>1, <1>2, PutSpanIs
<1> HIDE DEF f
<1>4. /\ g \in HeapType
      /\ g.tr = [h.tr EXCEPT ![t] = Adopt(h.tr[t], s, blocking)]
      /\ g.span = f.span
      /\ g.recorder = h.recorder
      /\ g.microtasks = h.microtasks
  BY <1>1, <1>3, AdoptIs, PutTransactionIs
<1>5. OpenSpan(h, t, s, blocking) = g
  BY DEF OpenSpan, f
<1> HIDE DEF g
<1>6. SpansOK(g)
  BY <1>1, <1>2, <1>3, <1>4, AdoptIs DEF HeapOK, SpansOK
<1>7. EndsOrStays(h, g, t)
  BY <1>1, <1>4, AdoptIs DEF EndsOrStays
<1> QED BY <1>4, <1>5, <1>6, <1>7 DEF CallOK, HeapOK

-----------------------------------------------------------------------------
(* The microtask queue *)

Occurs(t, m) == \E i \in DOMAIN m : m[i] = t

Distinct(m) == \A i, j \in DOMAIN m : m[i] = m[j] => i = j

(* Appending a transaction that is not queued keeps the queue without       *)
(* repetition.                                                              *)
LEMMA AppendOnce ==
    ASSUME NEW m \in Seq(Transactions), Distinct(m),
           NEW t \in Transactions, ~Occurs(t, m)
    PROVE  /\ Distinct(Append(m, t))
           /\ \A u \in Transactions : Occurs(u, Append(m, t)) <=> u = t \/ Occurs(u, m)
<1> DEFINE n == Len(m) + 1
<1>1. /\ Len(m) \in Nat
      /\ DOMAIN m = 1..Len(m)
      /\ DOMAIN Append(m, t) = 1..n
      /\ Append(m, t)[n] = t
      /\ \A i \in 1..Len(m) : Append(m, t)[i] = m[i]
  OBVIOUS
<1>2. \A i \in 1..n : i = n \/ i \in 1..Len(m)
  BY <1>1
<1>3. \A i \in 1..Len(m) : i \in 1..n /\ i # n
  BY <1>1
<1>4. n \in 1..n
  BY <1>1
<1> HIDE DEF n
<1>5. \A i \in DOMAIN m : m[i] # t
  BY DEF Occurs
<1>6. Distinct(Append(m, t))
  BY <1>1, <1>2, <1>5 DEF Distinct
<1>7. ASSUME NEW u \in Transactions
      PROVE  Occurs(u, Append(m, t)) <=> u = t \/ Occurs(u, m)
  BY <1>1, <1>2, <1>3, <1>4 DEF Occurs
<1> QED BY <1>6, <1>7

(* The tail of a queue without repetition has none and lacks its head. *)
LEMMA TailOnce ==
    ASSUME NEW m \in Seq(Transactions), m # <<>>, Distinct(m)
    PROVE  /\ Head(m) \in Transactions
           /\ Tail(m) \in Seq(Transactions)
           /\ Occurs(Head(m), m)
           /\ Distinct(Tail(m))
           /\ \A u \in Transactions :
                 Occurs(u, Tail(m)) <=> u # Head(m) /\ Occurs(u, m)
<1>1. Head(m) = m[1] /\ 1 \in DOMAIN m /\ Len(m) > 0 /\ Len(m) \in Nat /\ DOMAIN m = 1..Len(m)
  OBVIOUS
<1>2. /\ DOMAIN Tail(m) = 1..(Len(m) - 1)
      /\ \A i \in 1..(Len(m) - 1) : Tail(m)[i] = m[i + 1]
  BY <1>1
<1>3. Distinct(Tail(m))
  BY <1>1, <1>2 DEF Distinct
<1>4. ASSUME NEW u \in Transactions
      PROVE  Occurs(u, Tail(m)) <=> u # Head(m) /\ Occurs(u, m)
  <2>1. ASSUME Occurs(u, Tail(m)) PROVE u # Head(m) /\ Occurs(u, m)
    <3>1. PICK i \in 1..(Len(m) - 1) : Tail(m)[i] = u
      BY <1>2, <2>1 DEF Occurs
    <3>2. i + 1 \in DOMAIN m /\ m[i + 1] = u /\ i + 1 # 1
      BY <1>1, <1>2, <3>1
    <3> QED BY <1>1, <3>2 DEF Occurs, Distinct
  <2>2. ASSUME u # Head(m), Occurs(u, m) PROVE Occurs(u, Tail(m))
    <3>1. PICK i \in DOMAIN m : m[i] = u
      BY <2>2 DEF Occurs
    <3>2. i - 1 \in 1..(Len(m) - 1) /\ Tail(m)[i - 1] = u
      BY <1>1, <1>2, <2>2, <3>1
    <3> QED BY <1>2, <3>2 DEF Occurs
  <2> QED BY <2>1, <2>2
<1>5. Tail(m) \in Seq(Transactions) /\ Head(m) \in Transactions
  OBVIOUS
<1> QED BY <1>1, <1>3, <1>4, <1>5 DEF Occurs

-----------------------------------------------------------------------------
(* The inductive invariant *)

(* What holds of a heap h in the middle of a call, where cur is the current  *)
(* transaction and ex the history exposed                                    *)
HeapInv(h, cur, ex) ==
    /\ HeapOK(h)
    /\ cur \in Transactions \cup {NoTransaction}
    /\ cur # NoTransaction => h.tr[cur].status # "unused"
    /\ \A t \in Transactions :
          h.tr[t].status = "running" /\ h.tr[t].managed => t = cur
    /\ h.recorder # {} => /\ cur # NoTransaction
                          /\ h.tr[cur].status # "ended"
                          /\ h.tr[cur].onEnd
    /\ "vitals" \in h.recorder => h.tr[cur].type \in {"page-load", "user-defined"}
    /\ Distinct(h.microtasks)
    /\ \A t \in Transactions :
          LET isEnded == h.tr[t].status = "ended" /\ h.tr[t].onEnd
          IN /\ Occurs(t, h.microtasks) => isEnded
             /\ SettledCount(t) = IF isEnded /\ ~Occurs(t, h.microtasks) THEN 1 ELSE 0
    /\ \A t \in Transactions : h.tr[t].status # "unused" => h.tr[t].start <= clock
    /\ \A t \in Transactions :
          h.tr[t].status = "running" \/ Occurs(t, h.microtasks) =>
            (ex[t] <=> lastHiddenStart >= h.tr[t].start)

(* A call on a transaction that was started keeps the invariant of the heap. *)
LEMMA CallKeepsHeapInv ==
    ASSUME TypeOK, NEW h, NEW cur, NEW ex, HeapInv(h, cur, ex),
           NEW t \in Transactions, h.tr[t].status # "unused",
           NEW g, CallOK(h, g, t)
    PROVE  HeapInv(g, cur, ex)
<1>1. /\ h \in HeapType /\ g \in HeapType
      /\ h.microtasks \in Seq(Transactions)
      /\ HeapOK(g)
      /\ EndsOrStays(h, g, t)
  BY DEF HeapInv, HeapOK, HeapType, CallOK
<1>2. /\ \A u \in Transactions \ {t} : g.tr[u] = h.tr[u]
      /\ SameIdentity(g.tr[t], h.tr[t])
  BY <1>1 DEF EndsOrStays
<1>3. CASE /\ g.tr[t].status = h.tr[t].status
           /\ g.recorder = h.recorder
           /\ g.microtasks = h.microtasks
  BY <1>1, <1>2, <1>3 DEF HeapInv, SameIdentity
<1>4. CASE /\ h.tr[t].status = "running"
           /\ g.tr[t].status = "ended"
           /\ g.recorder = IF h.tr[t].onEnd THEN {} ELSE h.recorder
           /\ g.microtasks = IF h.tr[t].onEnd THEN Append(h.microtasks, t)
                                              ELSE h.microtasks
  <2>1. ~Occurs(t, h.microtasks) /\ Distinct(h.microtasks)
    BY <1>4 DEF HeapInv
  <2>2. CASE h.tr[t].onEnd
    <3>1. /\ Distinct(g.microtasks)
          /\ \A u \in Transactions :
                Occurs(u, g.microtasks) <=> u = t \/ Occurs(u, h.microtasks)
      BY <1>1, <1>4, <2>1, <2>2, AppendOnce
    <3> QED BY <1>1, <1>2, <1>4, <2>1, <2>2, <3>1 DEF HeapInv, SameIdentity
  <2>3. CASE ~h.tr[t].onEnd
    BY <1>1, <1>2, <1>4, <2>1, <2>3 DEF HeapInv, SameIdentity
  <2> QED BY <2>2, <2>3
<1> QED BY <1>1, <1>3, <1>4 DEF EndsOrStays

(* Precedence of types: nothing listed replaces page-load *)
LEMMA PageLoadStays ==
    ASSUME NEW old \in {"page-load", "user-defined"}, NEW new \in Types
    PROVE  RedefinedType(old, new) \in {"page-load", "user-defined"}
<1>1. DOMAIN TypeOrder = 1..6
  BY DEF TypeOrder
<1>2. /\ TypeOrder[1] = "page-load" /\ TypeOrder[2] = "route-change"
      /\ TypeOrder[3] = "user-interaction" /\ TypeOrder[4] = "http-request"
      /\ TypeOrder[5] = "custom" /\ TypeOrder[6] = "temporary"
  BY DEF TypeOrder
<1> HIDE DEF TypeOrder
<1>3. \A i \in 1..6 : i = 1 \/ i = 2 \/ i = 3 \/ i = 4 \/ i = 5 \/ i = 6
  OBVIOUS
<1>4. IndexOf("page-load") = 1
  <2>1. \A i \in DOMAIN TypeOrder : TypeOrder[i] = "page-load" => i = 1
    BY <1>1, <1>2, <1>3
  <2>2. 1 \in DOMAIN TypeOrder
    BY <1>1
  <2> QED BY <1>2, <2>1, <2>2 DEF IndexOf
<1>5. IndexOf("user-defined") = -1
  <2>1. \A i \in DOMAIN TypeOrder : TypeOrder[i] # "user-defined"
    BY <1>1, <1>2, <1>3
  <2> QED BY <2>1 DEF IndexOf
<1>6. CASE \E i \in DOMAIN TypeOrder : TypeOrder[i] = new
  <2>1. IndexOf(new) \in 1..6
    BY <1>1, <1>6 DEF IndexOf
  <2> QED BY <1>4, <1>5, <2>1 DEF RedefinedType
<1>7. CASE ~\E i \in DOMAIN TypeOrder : TypeOrder[i] = new
  <2>1. new = "user-defined"
    BY <1>7 DEF Types
  <2> QED BY <2>1 DEF RedefinedType
<1> QED BY <1>6, <1>7

(* A redefined type is one of the types (transaction-service.js:128). *)
LEMMA RedefinedTypeType ==
    ASSUME NEW old \in Types, NEW new \in Types
    PROVE  RedefinedType(old, new) \in Types
BY DEF RedefinedType

(* A new transaction is running, with no span, task or hook                 *)
(* (transaction.js:40).                                                     *)
LEMMA NewTransactionIs ==
    ASSUME clock \in Nat, NEW c \in CallOptions, NEW sampled \in BOOLEAN
    PROVE  LET r == NewTransaction(c, sampled) IN
           /\ r \in TransactionRecord
           /\ r.status = "running"
           /\ r.activeSpans = {}
           /\ r.start = clock
           /\ r.type = c.type
           /\ r.managed = c.managed
           /\ r.onEnd = FALSE
BY DEF NewTransaction, TransactionRecord, CallOptions

(* Manage sets the hook and keeps the identity of a transaction             *)
(* (transaction-service.js:193).                                            *)
LEMMA ManageIs ==
    ASSUME NEW r \in TransactionRecord
    PROVE  /\ Manage(r) \in TransactionRecord
           /\ Manage(r).status = r.status
           /\ Manage(r).activeSpans = r.activeSpans
           /\ Manage(r).start = r.start
           /\ Manage(r).type = r.type
           /\ Manage(r).managed = r.managed
           /\ Manage(r).onEnd = TRUE
<1>1. r.sampled \/ (r.type = "page-load" /\ PageLoadSampled) \in BOOLEAN
  BY ConstantsAssumption DEF TransactionRecord
<1> QED BY <1>1, ConstantsAssumption DEF TransactionRecord, Manage

(* Redefining keeps the status, spans and start of a transaction            *)
(* (transaction.js:78).                                                     *)
LEMMA RedefineIs ==
    ASSUME NEW r \in TransactionRecord, NEW type \in Types, NEW c \in CallOptions
    PROVE  LET q == Redefine(r, type, c) IN
           /\ q \in TransactionRecord
           /\ q.status = r.status
           /\ q.activeSpans = r.activeSpans
           /\ q.start = r.start
           /\ q.type = type
           /\ q.managed = c.managed
           /\ q.onEnd = r.onEnd
BY DEF TransactionRecord, Redefine, CallOptions

(* The observers a transaction starts are entry types (transaction-         *)
(* service.js:162).                                                         *)
LEMMA StartedObserversType ==
    ASSUME NEW r
    PROVE  /\ StartedObservers(r) \in SUBSET EntryTypes
           /\ "vitals" \in StartedObservers(r) => r.type = "page-load"
BY DEF StartedObservers, EntryTypes

(* A new transaction on a heap whose current transaction, if any, has ended  *)
(* or stays current.                                                         *)
LEMMA CreateKeepsHeapInv ==
    ASSUME TypeOK, lastHiddenStart <= clock,
           NEW h, NEW cur, NEW ex, HeapInv(h, cur, ex),
           NEW t \in Transactions, h.tr[t].status = "unused",
           NEW r \in TransactionRecord,
           r.status = "running", r.activeSpans = {}, r.start = clock,
           ex \in [Transactions -> BOOLEAN],
           NEW next,
           \/ /\ next = t
              /\ cur = NoTransaction \/ h.tr[cur].status = "ended"
           \/ next = cur /\ ~r.managed
    PROVE  HeapInv(PutTransaction(h, t, r), next,
                   [ex EXCEPT ![t] = lastHiddenStart = clock])
<1> DEFINE g == PutTransaction(h, t, r)
           ey == [ex EXCEPT ![t] = lastHiddenStart = clock]
<1>1. /\ h \in HeapType
      /\ h.tr \in [Transactions -> TransactionRecord]
      /\ SpansOK(h)
  BY DEF HeapInv, HeapOK, HeapType
<1>2. /\ g \in HeapType
      /\ g.tr = [h.tr EXCEPT ![t] = r]
      /\ g.span = h.span
      /\ g.recorder = h.recorder
      /\ g.microtasks = h.microtasks
  BY <1>1, PutTransactionIs
<1> HIDE DEF g
<1>3. \A u \in Transactions \ {t} : g.tr[u] = h.tr[u] /\ ey[u] = ex[u]
  BY <1>1, <1>2
<1>4. g.tr[t] = r /\ ey[t] = (lastHiddenStart = clock)
  BY <1>1, <1>2
<1>5. HeapOK(g)
  BY <1>1, <1>2 DEF HeapOK, SpansOK
<1>6. ~Occurs(t, h.microtasks)
  BY DEF HeapInv
<1>7. next \in Transactions \cup {NoTransaction} /\ t # NoTransaction
  BY ConstantsAssumption DEF HeapInv
<1>8. next # NoTransaction => g.tr[next].status # "unused"
  BY <1>3, <1>4, <1>7 DEF HeapInv
<1>9. \A u \in Transactions : g.tr[u].status = "running" /\ g.tr[u].managed => u = next
  <2>1. NoTransaction \notin Transactions
    BY ConstantsAssumption
  <2>2. CASE next = t
    BY <1>3, <2>1, <2>2 DEF HeapInv
  <2>3. CASE next = cur /\ ~r.managed
    BY <1>3, <1>4, <2>3 DEF HeapInv
  <2> QED BY <2>2, <2>3
<1>10. /\ g.recorder # {} => /\ next # NoTransaction
                             /\ g.tr[next].status # "ended"
                             /\ g.tr[next].onEnd
       /\ "vitals" \in g.recorder => g.tr[next].type \in {"page-load", "user-defined"}
  <2>1. CASE next = t
    BY <1>2, <2>1 DEF HeapInv
  <2>2. CASE next = cur /\ cur # t
    BY <1>2, <1>3, <1>7, <2>2 DEF HeapInv
  <2> QED BY <2>1, <2>2
<1>11. \A u \in Transactions : g.tr[u].status # "unused" => g.tr[u].start <= clock
  <2>1. clock <= clock
    BY DEF TypeOK
  <2> QED BY <1>3, <1>4, <2>1 DEF HeapInv
<1>12. \A u \in Transactions :
          g.tr[u].status = "running" \/ Occurs(u, g.microtasks) =>
            (ey[u] <=> lastHiddenStart >= g.tr[u].start)
  <2> SUFFICES ASSUME NEW u \in Transactions,
                      g.tr[u].status = "running" \/ Occurs(u, g.microtasks)
               PROVE  ey[u] <=> lastHiddenStart >= g.tr[u].start
    OBVIOUS
  <2>1. CASE u = t
    <3>1. ey[u] <=> lastHiddenStart = clock
      BY <1>4, <2>1
    <3>2. g.tr[u].start = clock
      BY <1>4, <2>1
    <3>3. lastHiddenStart = clock <=> lastHiddenStart >= clock
      BY DEF TypeOK
    <3> QED BY <3>1, <3>2, <3>3
  <2>2. CASE u # t
    BY <1>2, <1>3, <2>2 DEF HeapInv
  <2> QED BY <2>1, <2>2
<1>13. /\ Distinct(g.microtasks)
       /\ \A u \in Transactions :
            LET isEnded == g.tr[u].status = "ended" /\ g.tr[u].onEnd
            IN /\ Occurs(u, g.microtasks) => isEnded
               /\ SettledCount(u) =
                    IF isEnded /\ ~Occurs(u, g.microtasks) THEN 1 ELSE 0
  BY <1>2, <1>3, <1>4, <1>6 DEF HeapInv
<1> HIDE DEF ey
<1>14. HeapInv(g, next, ey)
  BY <1>5, <1>7, <1>8, <1>9, <1>10, <1>11, <1>12, <1>13 DEF HeapInv
<1> QED BY <1>14 DEF g, ey

(* The observers of a managed transaction that was just created *)
LEMMA ObserveKeepsHeapInv ==
    ASSUME NEW h, NEW cur, NEW ex, HeapInv(h, cur, ex),
           cur # NoTransaction, h.tr[cur].status # "ended", h.tr[cur].onEnd,
           NEW types \in SUBSET EntryTypes,
           "vitals" \in types => h.tr[cur].type = "page-load"
    PROVE  HeapInv([h EXCEPT !.recorder = @ \cup types], cur, ex)
<1> DEFINE obs == h.recorder \cup types
           g == [h EXCEPT !.recorder = obs]
<1>1. h \in HeapType /\ obs \in SUBSET EntryTypes
  BY DEF HeapInv, HeapOK, HeapType
<1>2. /\ g \in HeapType
      /\ g.tr = h.tr /\ g.span = h.span
      /\ g.recorder = obs /\ g.microtasks = h.microtasks
  <2> HIDE DEF obs
  <2> QED BY <1>1 DEF HeapType
<1> HIDE DEF g
<1>3. HeapOK(g)
  BY <1>2 DEF HeapInv, HeapOK, SpansOK
<1>4. HeapInv(g, cur, ex)
  BY <1>2, <1>3 DEF HeapInv
<1> QED BY <1>4 DEF g

(* A managed transaction that becomes the current one keeps the invariant   *)
(* (transaction-service.js:117).                                            *)
LEMMA ManagedKeepsHeapInv ==
    ASSUME TypeOK, lastHiddenStart <= clock,
           NEW h, NEW cur, NEW ex, HeapInv(h, cur, ex),
           cur = NoTransaction \/ h.tr[cur].status = "ended",
           ex \in [Transactions -> BOOLEAN],
           NEW t \in Transactions, h.tr[t].status = "unused",
           NEW c \in CallOptions, NEW sampled \in BOOLEAN
    PROVE  HeapInv(Managed(h, t, NewTransaction(c, sampled)), t,
                   [ex EXCEPT ![t] = lastHiddenStart = clock])
<1> DEFINE n == NewTransaction(c, sampled)
           r == Manage(n)
           g == PutTransaction(h, t, r)
           ey == [ex EXCEPT ![t] = lastHiddenStart = clock]
<1>1. /\ n \in TransactionRecord
      /\ n.status = "running" /\ n.activeSpans = {} /\ n.start = clock
  BY NewTransactionIs DEF TypeOK
<1> HIDE DEF n
<1>2. /\ r \in TransactionRecord
      /\ r.status = "running" /\ r.activeSpans = {} /\ r.start = clock
      /\ r.onEnd /\ r.type = n.type
  BY <1>1, ManageIs
<1> HIDE DEF r
<1>3. HeapInv(g, t, ey)
  BY <1>2, CreateKeepsHeapInv
<1>4. g.tr[t] = r
  <2>1. h \in HeapType /\ h.tr \in [Transactions -> TransactionRecord]
    BY DEF HeapInv, HeapOK, HeapType
  <2>2. g.tr = [h.tr EXCEPT ![t] = r]
    BY <1>2, <2>1, PutTransactionIs
  <2> QED BY <2>1, <2>2
<1> HIDE DEF g, ey
<1>5. HeapInv([g EXCEPT !.recorder = @ \cup StartedObservers(n)], t, ey)
  BY <1>2, <1>3, <1>4, ObserveKeepsHeapInv, StartedObserversType, ConstantsAssumption
<1> QED BY <1>5 DEF Managed, g, r, n, ey

(* The current transaction is redefined *)
LEMMA ReuseKeepsHeapInv ==
    ASSUME NEW h, NEW cur \in Transactions, NEW ex, HeapInv(h, cur, ex),
           h.tr[cur].status = "running",
           NEW c \in CallOptions
    PROVE  LET r == h.tr[cur] IN
           HeapInv(PutTransaction(h, cur, Manage(Redefine(r, RedefinedType(r.type, c.type), c))),
                   cur, ex)
<1> DEFINE r == h.tr[cur]
           type == RedefinedType(r.type, c.type)
           q == Redefine(r, type, c)
           m == Manage(q)
           g == PutTransaction(h, cur, m)
<1>1. /\ h \in HeapType
      /\ h.tr \in [Transactions -> TransactionRecord]
      /\ SpansOK(h)
  BY DEF HeapInv, HeapOK, HeapType
<1>2. r \in TransactionRecord /\ r.type \in Types /\ c.type \in Types
  BY <1>1 DEF TransactionRecord, CallOptions
<1>3. type \in Types
  BY <1>2, RedefinedTypeType
<1>4. r.type \in {"page-load", "user-defined"} =>
        type \in {"page-load", "user-defined"}
  BY <1>2, PageLoadStays
<1> HIDE DEF type
<1>5. /\ q \in TransactionRecord /\ q.status = "running"
      /\ q.activeSpans = r.activeSpans /\ q.start = r.start /\ q.type = type
  BY <1>2, <1>3, RedefineIs
<1> HIDE DEF q
<1>6. /\ m \in TransactionRecord /\ m.status = "running"
      /\ m.activeSpans = r.activeSpans /\ m.start = r.start
      /\ m.type = type /\ m.onEnd
  BY <1>5, ManageIs
<1> HIDE DEF m
<1>7. /\ g \in HeapType
      /\ g.tr = [h.tr EXCEPT ![cur] = m]
      /\ g.span = h.span /\ g.recorder = h.recorder
      /\ g.microtasks = h.microtasks
  BY <1>1, <1>6, PutTransactionIs
<1> HIDE DEF g
<1>8. /\ g.tr[cur] = m
      /\ \A u \in Transactions \ {cur} : g.tr[u] = h.tr[u]
  BY <1>1, <1>7
<1>9. HeapOK(g)
  BY <1>1, <1>6, <1>7, <1>8 DEF HeapOK, SpansOK
<1>10. HeapInv(g, cur, ex)
  BY <1>4, <1>6, <1>7, <1>8, <1>9 DEF HeapInv
<1> QED BY <1>10 DEF g, m, q, type

-----------------------------------------------------------------------------
(* The inductive invariant and its steps *)

IInv ==
    /\ TypeOK
    /\ lastHiddenStart <= clock
    /\ HeapInv(Heap, current, exposed)
    /\ HiddenVerdict

(* A step that leaves the page and the verdicts alone and makes g the heap *)
LEMMA HeapStep ==
    ASSUME IInv, NEW g, NEW cur, NEW ex,
           HeapInv(g, cur, ex), Become(g), current' = cur, exposed' = ex,
           ex \in [Transactions -> BOOLEAN],
           \A t \in Transactions : ex[t] = exposed[t] \/ tr[t].status = "unused",
           announced' \in [Transactions -> BOOLEAN],
           UNCHANGED <<pageVars, verdicts>>
    PROVE  IInv'
<1>1. g \in HeapType /\ cur \in Transactions \cup {NoTransaction}
  BY DEF HeapInv, HeapOK
<1>2. Heap' = g
  BY <1>1 DEF Heap, Become, HeapType
<1>3. /\ UNCHANGED <<clock, lastHiddenStart, visible, sent, discarded>>
  BY DEF pageVars, verdicts
<1>4. TypeOK'
  BY <1>1, <1>3 DEF IInv, TypeOK, Become, HeapType
<1>5. (lastHiddenStart <= clock)'
  BY <1>3 DEF IInv
<1>6. HeapInv(Heap, current, exposed)'
  BY <1>2, <1>3 DEF HeapInv, SettledCount
<1>7. HiddenVerdict'
  <2> SUFFICES ASSUME NEW t \in Transactions
               PROVE  /\ sent[t] > 0 => ~ex[t]
                      /\ discarded[t] = "hidden" => ex[t]
    BY <1>3 DEF HiddenVerdict
  <2>1. CASE ex[t] = exposed[t]
    BY <2>1 DEF IInv, HiddenVerdict
  <2>2. CASE tr[t].status = "unused"
    <3>1. SettledCount(t) = 0
      BY <2>2 DEF IInv, HeapInv, Heap
    <3>2. sent[t] \in Nat
      BY DEF IInv, TypeOK
    <3>3. sent[t] = 0 /\ discarded[t] = "no"
      BY <3>1, <3>2 DEF SettledCount
    <3> QED BY <3>3
  <2> QED BY <2>1, <2>2
<1> QED BY <1>4, <1>5, <1>6, <1>7 DEF IInv

(* A call on one transaction that already exists *)
LEMMA CallStep ==
    ASSUME IInv, NEW t \in Transactions, tr[t].status # "unused",
           NEW g, CallOK(Heap, g, t), Become(g),
           UNCHANGED <<current, pageVars, verdicts, history>>
    PROVE  IInv'
<1>1. HeapInv(g, current, exposed)
  <2>1. Heap.tr[t].status # "unused"
    BY DEF Heap
  <2> QED BY <2>1, CallKeepsHeapInv DEF IInv
<1>2. /\ exposed \in [Transactions -> BOOLEAN]
      /\ announced' \in [Transactions -> BOOLEAN]
      /\ current' = current /\ exposed' = exposed
  BY DEF IInv, TypeOK, history
<1> QED BY <1>1, <1>2, HeapStep

(* The invariant holds when the agent is loaded, in a visible or a hidden   *)
(* page (bootstrap.js:48).                                                  *)
LEMMA InitInv == Init => IInv
<1> SUFFICES ASSUME Init PROVE IInv
  OBVIOUS
<1>1. TypeOK
  <2>0. "custom" \in Types
    <3>1. 5 \in DOMAIN TypeOrder /\ TypeOrder[5] = "custom"
      BY DEF TypeOrder
    <3> QED BY <3>1 DEF Types
  <2>1. tr \in [Transactions -> TransactionRecord]
    BY <2>0 DEF Init, TransactionRecord
  <2>2. span \in [Spans -> SpanRecord]
    BY DEF Init, SpanRecord
  <2>3. microtasks \in Seq(Transactions)
    BY DEF Init
  <2>4. NoTransaction \in Transactions \cup {NoTransaction} /\ clock \in Nat
        /\ lastHiddenStart \in Int
    BY DEF Init
  <2> QED BY <2>1, <2>2, <2>3, <2>4 DEF Init, TypeOK
<1>2. lastHiddenStart <= clock
  BY DEF Init
<1>3. /\ Heap.tr = tr /\ Heap.span = span
      /\ Heap.recorder = recorder /\ Heap.microtasks = microtasks
  BY DEF Heap
<1>4. Heap \in HeapType
  BY <1>1 DEF TypeOK, Heap, HeapType
<1>5. HeapOK(Heap)
  BY <1>3, <1>4 DEF Init, HeapOK, SpansOK
<1>6. /\ \A t \in Transactions : ~Occurs(t, microtasks) /\ SettledCount(t) = 0
      /\ Distinct(microtasks)
  BY DEF Init, Occurs, Distinct, SettledCount
<1>7. HeapInv(Heap, current, exposed)
  BY <1>3, <1>5, <1>6 DEF Init, HeapInv
<1>8. HiddenVerdict
  BY DEF Init, HiddenVerdict
<1> QED BY <1>1, <1>2, <1>7, <1>8 DEF IInv

(* The current transaction is reused *)
LEMMA ReuseStep ==
    ASSUME IInv, NEW c \in CallOptions, StartManagedReuse(c)
    PROVE  IInv'
<1>b. /\ TypeOK /\ HeapInv(Heap, current, exposed)
      /\ exposed \in [Transactions -> BOOLEAN]
      /\ announced \in [Transactions -> BOOLEAN]
      /\ Heap.tr = tr
  BY DEF IInv, TypeOK, Heap
<1>1. /\ current \in Transactions
      /\ Heap.tr[current].status = "running"
  <2>1. current \in Transactions
    BY <1>b DEF StartManagedReuse, HasCurrent, TypeOK
  <2>2. tr[current].status # "ended" /\ tr[current].status # "unused"
    BY <1>b, <2>1 DEF StartManagedReuse, HasCurrent, HeapInv
  <2>3. tr[current] \in TransactionRecord
    BY <1>b, <2>1 DEF TypeOK
  <2> QED BY <1>b, <2>1, <2>2, <2>3 DEF TransactionRecord
<1> DEFINE r == tr[current]
           g == PutTransaction(Heap, current,
                  Manage(Redefine(r, RedefinedType(r.type, c.type), c)))
<1>2. HeapInv(g, current, exposed)
  BY <1>b, <1>1, ReuseKeepsHeapInv
<1>3. /\ Become(g)
      /\ current' = current /\ exposed' = exposed
      /\ announced' \in [Transactions -> BOOLEAN]
      /\ UNCHANGED <<pageVars, verdicts>>
  BY <1>b DEF StartManagedReuse, history
<1> HIDE DEF g
<1> QED BY <1>b, <1>2, <1>3, HeapStep

(* Each way startTransaction creates a transaction *)
LEMMA StartStep ==
    ASSUME IInv, NEW c \in CallOptions, NEW t \in Transactions,
           NEW sampled \in SampledOutcomes,
           \/ StartManagedNew(c, t, sampled)
           \/ StartManagedReplace(c, t, sampled)
           \/ StartUnmanaged(c, t, sampled)
    PROVE  IInv'
<1> DEFINE n == NewTransaction(c, sampled)
           ey == [exposed EXCEPT ![t] = lastHiddenStart = clock]
<1>1. /\ sampled \in BOOLEAN
      /\ NoTransaction \notin Transactions
  BY ConstantsAssumption
<1>2. /\ TypeOK /\ lastHiddenStart <= clock
      /\ HeapInv(Heap, current, exposed)
      /\ exposed \in [Transactions -> BOOLEAN]
      /\ announced \in [Transactions -> BOOLEAN]
      /\ visible \in BOOLEAN /\ clock \in Nat
      /\ Heap.tr = tr
  BY DEF IInv, TypeOK, Heap
<1>3. /\ ey \in [Transactions -> BOOLEAN]
      /\ tr[t].status = "unused" =>
           \A u \in Transactions : ey[u] = exposed[u] \/ tr[u].status = "unused"
  BY <1>2
<1>4. ASSUME NEW hook \in BOOLEAN, Born(t, hook)
      PROVE  /\ announced' \in [Transactions -> BOOLEAN]
             /\ exposed' = ey
  BY <1>2, <1>4 DEF Born
<1>6. CASE StartManagedNew(c, t, sampled)
  <2> DEFINE g == Managed(Heap, t, n)
  <2>1. current = NoTransaction \/ tr[current].status = "ended"
    BY <1>6 DEF StartManagedNew, HasCurrent
  <2>2. tr[t].status = "unused"
    BY <1>6 DEF StartManagedNew
  <2>3. HeapInv(g, t, ey)
    BY <1>1, <1>2, <2>1, <2>2, ManagedKeepsHeapInv
  <2>4. Become(g) /\ current' = t /\ UNCHANGED <<pageVars, verdicts>> /\ Born(t, TRUE)
    BY <1>6 DEF StartManagedNew
  <2> HIDE DEF g, ey
  <2> QED BY <1>3, <1>4, <2>2, <2>3, <2>4, HeapStep
<1>7. CASE StartManagedReplace(c, t, sampled)
  <2> DEFINE h == End(Heap, current)
             g == Managed(h, t, n)
  <2>1. /\ current \in Transactions
        /\ tr[current].status # "ended" /\ tr[current].status # "unused"
        /\ tr[t].status = "unused"
    BY <1>2, <1>7 DEF StartManagedReplace, HasCurrent, TypeOK, HeapInv
  <2>2. CallOK(Heap, h, current)
    BY <1>2, <2>1, EndOK DEF HeapInv
  <2>3. HeapInv(h, current, exposed)
    BY <1>2, <2>1, <2>2, CallKeepsHeapInv
  <2>4. h.tr[t].status = "unused"
    BY <1>2, <2>1, <2>2 DEF CallOK, EndsOrStays
  <2>5. h.tr[current].status = "ended"
    BY <1>2, <2>1, EndOK DEF HeapInv
  <2> HIDE DEF h
  <2>6. HeapInv(g, t, ey)
    BY <1>1, <1>2, <2>3, <2>4, <2>5, ManagedKeepsHeapInv
  <2>7. Become(g) /\ current' = t /\ UNCHANGED <<pageVars, verdicts>> /\ Born(t, TRUE)
    BY <1>7 DEF StartManagedReplace, h
  <2> HIDE DEF g, ey
  <2> QED BY <1>3, <1>4, <2>1, <2>6, <2>7, HeapStep
<1>8. CASE StartUnmanaged(c, t, sampled)
  <2> DEFINE r == [n EXCEPT !.onEnd = TRUE]
             g == PutTransaction(Heap, t, r)
  <2>1. /\ n \in TransactionRecord /\ n.status = "running" /\ n.activeSpans = {}
        /\ n.start = clock /\ n.managed = c.managed
    BY <1>1, <1>2, NewTransactionIs
  <2> HIDE DEF n
  <2>2. /\ r \in TransactionRecord /\ r.status = "running" /\ r.activeSpans = {}
        /\ r.start = clock /\ r.managed = c.managed
    BY <2>1 DEF TransactionRecord
  <2>3. /\ ~c.managed /\ tr[t].status = "unused"
        /\ Become(g) /\ current' = current
        /\ UNCHANGED <<pageVars, verdicts>> /\ Born(t, TRUE)
    BY <1>8 DEF StartUnmanaged, n
  <2> HIDE DEF r
  <2>4. HeapInv(g, current, ey)
    BY <1>2, <2>2, <2>3, CreateKeepsHeapInv
  <2> HIDE DEF g, ey
  <2> QED BY <1>3, <1>4, <2>3, <2>4, HeapStep
<1> QED BY <1>6, <1>7, <1>8

(* The temporary transaction of startSpan keeps the invariant (transaction- *)
(* service.js:450).                                                         *)
LEMMA TemporaryStep ==
    ASSUME IInv, NEW s \in Spans, NEW blocking \in BOOLEAN,
           NEW t \in Transactions, NEW sampled \in SampledOutcomes,
           StartTemporary(s, blocking, t, sampled)
    PROVE  IInv'
<1> DEFINE n == NewTransaction(Temporary, sampled)
           h == PutTransaction(Heap, t, n)
           g == OpenSpan(h, t, s, blocking)
           ey == [exposed EXCEPT ![t] = lastHiddenStart = clock]
<1>1. /\ Temporary \in CallOptions /\ sampled \in BOOLEAN
  <2>1. 6 \in DOMAIN TypeOrder /\ TypeOrder[6] = "temporary"
    BY DEF TypeOrder
  <2>2. "temporary" \in Types
    BY <2>1 DEF Types
  <2> QED BY <2>2, ConstantsAssumption DEF Temporary, CallOptions
<1>2. /\ TypeOK /\ lastHiddenStart <= clock
      /\ HeapInv(Heap, current, exposed)
      /\ exposed \in [Transactions -> BOOLEAN]
      /\ announced \in [Transactions -> BOOLEAN]
      /\ visible \in BOOLEAN /\ clock \in Nat
      /\ Heap.tr = tr /\ Heap.span = span
  BY DEF IInv, TypeOK, Heap
<1>3. /\ current = NoTransaction \/ tr[current].status = "ended"
      /\ tr[t].status = "unused" /\ span[s].status = "unused"
      /\ Become(g) /\ current' = t /\ Born(t, FALSE)
      /\ UNCHANGED <<pageVars, verdicts>>
  BY DEF StartTemporary, HasCurrent
<1>4. /\ n \in TransactionRecord
      /\ n.status = "running" /\ n.activeSpans = {} /\ n.start = clock
  BY <1>1, <1>2, NewTransactionIs
<1> HIDE DEF n
<1>5. HeapInv(h, t, ey)
  BY <1>2, <1>3, <1>4, CreateKeepsHeapInv
<1>6. h.tr[t].status = "running" /\ h.span[s].status = "unused"
  <2>1. Heap \in HeapType
    BY <1>2 DEF HeapInv, HeapOK
  <2>2. h.tr = [tr EXCEPT ![t] = n] /\ h.span = span
    BY <1>2, <1>4, <2>1, PutTransactionIs
  <2> QED BY <1>2, <1>3, <1>4, <2>2 DEF TypeOK
<1> HIDE DEF h
<1>7. CallOK(h, g, t)
  BY <1>5, <1>6, OpenSpanOK DEF HeapInv
<1> HIDE DEF g
<1>8. HeapInv(g, t, ey)
  BY <1>2, <1>5, <1>6, <1>7, CallKeepsHeapInv
<1>9. /\ ey \in [Transactions -> BOOLEAN]
      /\ \A u \in Transactions : ey[u] = exposed[u] \/ tr[u].status = "unused"
      /\ exposed' = ey
      /\ announced' \in [Transactions -> BOOLEAN]
  BY <1>2, <1>3 DEF Born
<1> HIDE DEF ey
<1> QED BY <1>3, <1>8, <1>9, HeapStep

(* transaction.startSpan, span.end *)
LEMMA SpanStep ==
    ASSUME IInv, NEW s \in Spans,
           \/ \E t \in Transactions, blocking \in BOOLEAN : StartSpan(t, s, blocking)
           \/ EndSpan(s)
    PROVE  IInv'
<1>1. HeapOK(Heap) /\ Heap.tr = tr /\ Heap.span = span
  BY DEF IInv, HeapInv, Heap
<1>2. ASSUME NEW t \in Transactions, NEW blocking \in BOOLEAN, StartSpan(t, s, blocking)
      PROVE  IInv'
  <2> DEFINE g == OpenSpan(Heap, t, s, blocking)
  <2>1. /\ tr[t].status = "running" /\ span[s].status = "unused" /\ Become(g)
        /\ UNCHANGED <<current, pageVars, verdicts, history>>
    BY <1>2 DEF StartSpan, Running
  <2>2. CallOK(Heap, g, t)
    BY <1>1, <2>1, OpenSpanOK
  <2> HIDE DEF g
  <2> QED BY <2>1, <2>2, CallStep
<1>3. CASE EndSpan(s)
  <2> DEFINE t == span[s].transaction
             g == SpanEnd(Heap, s)
  <2>1. /\ span[s].status # "unused" /\ Become(g)
        /\ UNCHANGED <<current, pageVars, verdicts, history>>
    BY <1>3 DEF EndSpan
  <2>2. span[s].status \in {"unused", "running", "ended"}
    BY DEF IInv, TypeOK, SpanRecord
  <2>3. CASE span[s].status = "running"
    <3>1. t \in Transactions /\ tr[t].status # "unused" /\ CallOK(Heap, g, t)
      BY <1>1, <2>3, SpanEndOK
    <3> HIDE DEF g, t
    <3> QED BY <2>1, <3>1, CallStep
  <2>4. CASE span[s].status = "ended"
    <3>1. g = Heap
      BY <1>1, <2>4 DEF SpanEnd
    <3> HIDE DEF g
    <3>2. /\ HeapInv(g, current, exposed)
          /\ exposed \in [Transactions -> BOOLEAN]
          /\ announced' \in [Transactions -> BOOLEAN]
          /\ current' = current /\ exposed' = exposed
      BY <2>1, <3>1 DEF IInv, TypeOK, history
    <3> QED BY <2>1, <3>2, HeapStep
  <2> QED BY <2>1, <2>2, <2>3, <2>4
<1> QED BY <1>2, <1>3

(* The calls on a transaction and the callback of the recorder *)
LEMMA TransactionStep ==
    ASSUME IInv, NEW t \in Transactions,
           \/ EndTransaction(t)
           \/ \E k \in Tasks : AddTask(t, k) \/ RemoveTask(t, k)
           \/ \E flag \in BOOLEAN : Block(t, flag)
           \/ CallDetectFinish(t)
    PROVE  IInv'
<1>1. /\ HeapOK(Heap) /\ Heap.tr = tr
      /\ tr[t] \in TransactionRecord
  BY DEF IInv, TypeOK, HeapInv, Heap
<1>2. CASE EndTransaction(t)
  <2> DEFINE g == End(Heap, t)
  <2>1. /\ tr[t].status # "unused" /\ Become(g)
        /\ UNCHANGED <<current, pageVars, verdicts, history>>
    BY <1>2 DEF EndTransaction
  <2>2. CallOK(Heap, g, t)
    BY <1>1, <2>1, EndOK
  <2> HIDE DEF g
  <2> QED BY <2>1, <2>2, CallStep
<1>3. ASSUME NEW k \in Tasks, AddTask(t, k)
      PROVE  IInv'
  <2> DEFINE q == [tr[t] EXCEPT !.activeTasks = @ \cup {k}]
             g == PutTransaction(Heap, t, q)
  <2>1. /\ tr[t].status # "unused" /\ Become(g)
        /\ UNCHANGED <<current, pageVars, verdicts, history>>
    BY <1>3 DEF AddTask
  <2>2. /\ q \in TransactionRecord
        /\ q.status = tr[t].status
        /\ q.activeSpans = tr[t].activeSpans
        /\ SameIdentity(q, tr[t])
    BY <1>1 DEF TransactionRecord, SameIdentity
  <2> HIDE DEF q
  <2>3. CallOK(Heap, g, t)
    BY <1>1, <2>2, TouchOK
  <2> HIDE DEF g
  <2> QED BY <2>1, <2>3, CallStep
<1>4. ASSUME NEW k \in Tasks, RemoveTask(t, k)
      PROVE  IInv'
  <2> DEFINE g == RemoveTaskOf(Heap, t, k)
  <2>1. /\ tr[t].status # "unused" /\ Become(g)
        /\ UNCHANGED <<current, pageVars, verdicts, history>>
    BY <1>4 DEF RemoveTask
  <2>2. CallOK(Heap, g, t)
    BY <1>1, <2>1, RemoveTaskOK
  <2> HIDE DEF g
  <2> QED BY <2>1, <2>2, CallStep
<1>5. ASSUME NEW flag \in BOOLEAN, Block(t, flag)
      PROVE  IInv'
  <2> DEFINE q == [tr[t] EXCEPT !.blocked = flag]
             h == PutTransaction(Heap, t, q)
             g == IF flag THEN h ELSE DetectFinish(h, t)
  <2>1. /\ tr[t].status # "unused" /\ Become(g)
        /\ UNCHANGED <<current, pageVars, verdicts, history>>
    BY <1>5 DEF Block
  <2>2. /\ q \in TransactionRecord
        /\ q.status = tr[t].status
        /\ q.activeSpans = tr[t].activeSpans
        /\ SameIdentity(q, tr[t])
    BY <1>1 DEF TransactionRecord, SameIdentity
  <2> HIDE DEF q
  <2>3. HeapOK(h) /\ h.tr[t] = q /\ Touches(Heap, h, t) /\ CallOK(Heap, h, t)
    BY <1>1, <2>2, TouchOK
  <2> HIDE DEF h
  <2>4. CallOK(h, DetectFinish(h, t), t)
    BY <2>1, <2>2, <2>3, DetectFinishOK
  <2>5. CallOK(Heap, DetectFinish(h, t), t)
    BY <2>3, <2>4, TouchThenCall
  <2>6. CallOK(Heap, g, t)
    BY <2>3, <2>5
  <2> HIDE DEF g
  <2> QED BY <2>1, <2>6, CallStep
<1>6. CASE CallDetectFinish(t)
  <2> DEFINE g == DetectFinish(Heap, t)
  <2>1. /\ tr[t].status # "unused" /\ Become(g)
        /\ UNCHANGED <<current, pageVars, verdicts, history>>
    BY <1>6 DEF CallDetectFinish
  <2>2. CallOK(Heap, g, t)
    BY <1>1, <2>1, DetectFinishOK
  <2> HIDE DEF g
  <2> QED BY <2>1, <2>2, CallStep
<1> QED BY <1>2, <1>3, <1>4, <1>5, <1>6

(* Entries of the observers keep the invariant (transaction-service.js:67). *)
LEMMA ObserveStep ==
    ASSUME IInv, NEW e \in EntryTypes, ObserveEntries(e)
    PROVE  IInv'
<1> DEFINE q == [tr[current] EXCEPT !.timings = @ \cup {e}]
           g == PutTransaction(Heap, current, q)
<1>1. /\ HeapOK(Heap) /\ Heap.tr = tr
      /\ current \in Transactions /\ tr[current].status # "unused"
      /\ tr[current] \in TransactionRecord
  BY DEF IInv, TypeOK, HeapInv, Heap, ObserveEntries, HasCurrent
<1>2. Become(g) /\ UNCHANGED <<current, pageVars, verdicts, history>>
  BY DEF ObserveEntries
<1>3. /\ q \in TransactionRecord
      /\ q.status = tr[current].status
      /\ q.activeSpans = tr[current].activeSpans
      /\ SameIdentity(q, tr[current])
  BY <1>1 DEF TransactionRecord, SameIdentity
<1> HIDE DEF q
<1>4. CallOK(Heap, g, current)
  BY <1>1, <1>3, TouchOK
<1> HIDE DEF g
<1> QED BY <1>1, <1>2, <1>4, CallStep

(* The page and the clock *)
LEMMA PageStep ==
    ASSUME IInv, Hide \/ Show \/ Tick
    PROVE  IInv'
<1>1. /\ TypeOK /\ lastHiddenStart <= clock
      /\ HeapInv(Heap, current, exposed) /\ HiddenVerdict
      /\ Heap.tr = tr /\ Heap.microtasks = microtasks
  BY DEF IInv, Heap
<1>2. UNCHANGED <<tr, span, recorder, microtasks, current, sent, discarded, announced>>
  BY DEF Hide, Show, Tick, heapVars, verdicts, history
<1>3. Heap' = Heap
  BY <1>2 DEF Heap
<1>4. ASSUME (lastHiddenStart <= clock)', TypeOK', HiddenVerdict',
             clock <= clock',
             \A t \in Transactions :
                tr[t].status = "running" \/ Occurs(t, microtasks) =>
                  (exposed'[t] <=> lastHiddenStart' >= tr[t].start)
      PROVE  IInv'
  <2>1. \A t \in Transactions : tr[t].status # "unused" => tr[t].start <= clock'
    <3>1. \A t \in Transactions : tr[t].start \in Nat
      BY <1>1 DEF TypeOK, TransactionRecord
    <3> QED BY <1>1, <1>4, <3>1 DEF HeapInv, TypeOK
  <2>2. \A t \in Transactions : SettledCount(t)' = SettledCount(t)
    BY <1>2 DEF SettledCount
  <2>3. HeapInv(Heap, current, exposed)'
    <3> DEFINE h == Heap
    <3>1. /\ h' = h /\ current' = current
          /\ h.tr = tr /\ h.microtasks = microtasks
          /\ HeapInv(h, current, exposed)
      BY <1>1, <1>2, <1>3
    <3> HIDE DEF h
    <3>2. HeapInv(h, current, exposed)'
      BY <1>4, <2>1, <2>2, <3>1 DEF HeapInv
    <3> QED BY <3>2 DEF h
  <2> QED BY <1>4, <2>3 DEF IInv
<1>5. CASE Hide
  <2>0. clock' = clock /\ visible' = FALSE /\ lastHiddenStart' = clock
    BY <1>5 DEF Hide
  <2>1. /\ microtasks = <<>> /\ clock' = clock
        /\ visible' = FALSE
        /\ lastHiddenStart' = clock
        /\ exposed' = [t \in Transactions |-> exposed[t] \/ tr[t].status = "running"]
    BY <1>5 DEF Hide, MacrotaskMayStart, Running, history
  <2>2. TypeOK'
    <3>1. /\ exposed' \in [Transactions -> BOOLEAN]
      <4>1. \A t \in Transactions :
               /\ (exposed[t] \/ tr[t].status = "running") \in BOOLEAN
        OBVIOUS
      <4> QED BY <2>1, <4>1
    <3>2. clock' \in Nat /\ lastHiddenStart' \in Int /\ visible' \in BOOLEAN
      <4>1. clock \in Nat
        BY <1>1 DEF TypeOK
      <4>2. clock' \in Nat /\ lastHiddenStart' \in Int
        BY <2>0, <4>1
      <4>3. visible' \in BOOLEAN
        BY <2>0
      <4> QED BY <4>2, <4>3
    <3> QED BY <1>1, <1>2, <3>1, <3>2 DEF TypeOK
  <2>3. \A t \in Transactions : ~Occurs(t, microtasks)
    BY <2>1 DEF Occurs
  <2>4. \A t \in Transactions : tr[t].status = "running" => tr[t].start <= clock
    BY <1>1 DEF HeapInv
  <2>5. \A t \in Transactions :
           tr[t].status = "running" \/ Occurs(t, microtasks) =>
             (exposed'[t] <=> lastHiddenStart' >= tr[t].start)
    <3>1. \A t \in Transactions : tr[t].start \in Nat
      BY <1>1 DEF TypeOK, TransactionRecord
    <3>2. \A t \in Transactions : tr[t].status = "running" => clock >= tr[t].start
      BY <1>1, <2>4, <3>1 DEF TypeOK
    <3> QED BY <2>1, <2>3, <3>2
  <2>6. HiddenVerdict'
    <3> SUFFICES ASSUME NEW t \in Transactions
                 PROVE  /\ sent[t] > 0 => ~exposed'[t]
                        /\ discarded[t] = "hidden" => exposed'[t]
      BY <1>2 DEF HiddenVerdict
    <3>1. CASE tr[t].status = "running"
      <4>1. SettledCount(t) = 0 /\ sent[t] \in Nat
        BY <1>1, <3>1 DEF HeapInv, TypeOK
      <4> QED BY <4>1 DEF SettledCount
    <3>2. CASE tr[t].status # "running"
      <4>1. exposed'[t] = exposed[t]
        BY <1>1, <2>1, <3>2 DEF TypeOK
      <4> QED BY <1>1, <4>1 DEF HiddenVerdict
    <3> QED BY <3>1, <3>2
  <2>7. (lastHiddenStart <= clock)' /\ clock <= clock'
    BY <1>1, <2>1 DEF TypeOK
  <2> QED BY <1>4, <2>2, <2>5, <2>6, <2>7
<1>6. CASE Show \/ Tick
  <2>1. /\ UNCHANGED <<lastHiddenStart, exposed>>
        /\ visible' \in BOOLEAN
        /\ clock' = clock \/ clock' = clock + 1
    BY <1>1, <1>6 DEF Show, Tick, TypeOK, history
  <2>2. TypeOK'
    <3>1. clock' \in Nat /\ lastHiddenStart' \in Int /\ visible' \in BOOLEAN
      BY <1>1, <2>1 DEF TypeOK
    <3>2. /\ exposed' \in [Transactions -> BOOLEAN]
      BY <1>1, <2>1 DEF TypeOK
    <3> QED BY <1>1, <1>2, <3>1, <3>2 DEF TypeOK
  <2>3. (lastHiddenStart <= clock)' /\ clock <= clock'
    BY <1>1, <2>1 DEF TypeOK
  <2>4. HiddenVerdict'
    BY <1>1, <1>2, <2>1 DEF HiddenVerdict
  <2>5. \A t \in Transactions :
           tr[t].status = "running" \/ Occurs(t, microtasks) =>
             (exposed'[t] <=> lastHiddenStart' >= tr[t].start)
    BY <1>1, <2>1 DEF HeapInv
  <2> QED BY <1>4, <2>2, <2>3, <2>4, <2>5
<1> QED BY <1>5, <1>6

(* The microtask takes the head of the queue and counts it once *)
LEMMA SettleStep ==
    ASSUME IInv, NEW ignore, Settle(ignore)
    PROVE  IInv'
<1>a. Head(microtasks) \in Transactions
  <2>1. microtasks \in Seq(Transactions) /\ microtasks # <<>>
    BY DEF IInv, TypeOK, Settle
  <2> QED BY <2>1
<1>b. PICK t \in Transactions : t = Head(microtasks)
  BY <1>a
<1> DEFINE verdict == IF HiddenDuring(t) THEN "hidden"
                      ELSE IF ignore \/ tr[t].type = "temporary" THEN "ignored"
                      ELSE "no"
<1>1. /\ TypeOK /\ lastHiddenStart <= clock
      /\ HeapInv(Heap, current, exposed) /\ HiddenVerdict
      /\ Heap.tr = tr /\ Heap.span = span
      /\ Heap.recorder = recorder /\ Heap.microtasks = microtasks
  BY DEF IInv, Heap
<1>2. /\ microtasks # <<>>
      /\ microtasks' = Tail(microtasks)
      /\ discarded' = [discarded EXCEPT ![t] = verdict]
      /\ sent' = [sent EXCEPT ![t] = IF verdict = "no" THEN @ + 1 ELSE @]
      /\ UNCHANGED <<tr, span, recorder, current, clock, lastHiddenStart, visible,
                     announced, exposed>>
  BY <1>b DEF Settle, pageVars, history
<1>3. /\ microtasks \in Seq(Transactions) /\ Distinct(microtasks)
      /\ sent \in [Transactions -> Nat]
      /\ discarded \in [Transactions -> {"no", "hidden", "ignored"}]
  BY <1>1 DEF TypeOK, HeapInv
<1>4. /\ t \in Transactions
      /\ Tail(microtasks) \in Seq(Transactions)
      /\ Occurs(t, microtasks)
      /\ Distinct(Tail(microtasks))
      /\ \A u \in Transactions :
            Occurs(u, Tail(microtasks)) <=> u # t /\ Occurs(u, microtasks)
  BY <1>b, <1>2, <1>3, TailOnce
<1>5. /\ verdict \in {"no", "hidden", "ignored"}
      /\ verdict = "hidden" <=> HiddenDuring(t)
  OBVIOUS
<1>6. HiddenDuring(t) <=> exposed[t]
  <2>1. exposed[t] <=> lastHiddenStart >= tr[t].start
    BY <1>1, <1>4 DEF HeapInv
  <2> QED BY <2>1 DEF HiddenDuring
<1>7. SettledCount(t) = 0
  BY <1>1, <1>4 DEF HeapInv
<1>8. sent[t] = 0 /\ discarded[t] = "no"
  BY <1>3, <1>4, <1>7 DEF SettledCount
<1> HIDE DEF verdict
<1>9. /\ discarded'[t] = verdict
      /\ sent'[t] = IF verdict = "no" THEN 1 ELSE 0
      /\ \A u \in Transactions \ {t} : sent'[u] = sent[u] /\ discarded'[u] = discarded[u]
      /\ sent' \in [Transactions -> Nat]
      /\ discarded' \in [Transactions -> {"no", "hidden", "ignored"}]
  BY <1>2, <1>3, <1>4, <1>5, <1>8
<1>10. /\ SettledCount(t)' = 1
       /\ \A u \in Transactions \ {t} : SettledCount(u)' = SettledCount(u)
  <2>1. \A u \in Transactions \ {t} : SettledCount(u)' = SettledCount(u)
    BY <1>9 DEF SettledCount
  <2>2. SettledCount(t)' = sent'[t] + (IF discarded'[t] = "no" THEN 0 ELSE 1)
    BY DEF SettledCount
  <2>3. SettledCount(t)' = 1
    BY <1>9, <2>2
  <2> QED BY <2>1, <2>3
<1>11. TypeOK'
  BY <1>1, <1>2, <1>4, <1>9 DEF TypeOK
<1>12. HiddenVerdict'
  BY <1>1, <1>2, <1>5, <1>6, <1>9 DEF HiddenVerdict
<1>13. /\ Heap'.tr = tr /\ Heap'.span = span
       /\ Heap'.recorder = recorder /\ Heap'.microtasks = Tail(microtasks)
       /\ Heap' \in HeapType
  BY <1>2, <1>11 DEF Heap, HeapType, TypeOK
<1>14. HeapInv(Heap, current, exposed)'
  <2> DEFINE h == Heap
  <2>1. /\ h.tr = tr /\ h.span = span /\ h.recorder = recorder
        /\ h.microtasks = microtasks /\ HeapInv(h, current, exposed)
        /\ h'.tr = tr /\ h'.span = span /\ h'.recorder = recorder
        /\ h'.microtasks = Tail(microtasks) /\ h' \in HeapType
        /\ current' = current /\ exposed' = exposed
        /\ clock' = clock /\ lastHiddenStart' = lastHiddenStart
    BY <1>1, <1>2, <1>13
  <2> HIDE DEF h
  <2>2. HeapOK(h)'
    BY <2>1 DEF HeapInv, HeapOK, SpansOK
  <2>3. ASSUME NEW u \in Transactions
        PROVE  LET isEnded == h'.tr[u].status = "ended" /\ h'.tr[u].onEnd
               IN /\ Occurs(u, h'.microtasks) => isEnded
                  /\ SettledCount(u)' =
                       IF isEnded /\ ~Occurs(u, h'.microtasks) THEN 1 ELSE 0
    <3>1. \A w \in Transactions :
            LET isEnded == tr[w].status = "ended" /\ tr[w].onEnd
            IN /\ Occurs(w, microtasks) => isEnded
               /\ SettledCount(w) = IF isEnded /\ ~Occurs(w, microtasks) THEN 1 ELSE 0
      BY <2>1 DEF HeapInv
    <3>2. CASE u = t
      BY <1>4, <1>10, <2>1, <3>1, <3>2
    <3>3. CASE u # t
      BY <1>4, <1>10, <2>1, <3>1, <3>3
    <3> QED BY <3>2, <3>3
  <2>4. HeapInv(h, current, exposed)'
    BY <1>4, <2>1, <2>2, <2>3 DEF HeapInv
  <2> QED BY <2>4 DEF h
<1>15. (lastHiddenStart <= clock)'
  BY <1>1, <1>2
<1> QED BY <1>11, <1>12, <1>14, <1>15 DEF IInv

(* Stuttering keeps the invariant. *)
LEMMA StutterStep ==
    ASSUME IInv, UNCHANGED vars
    PROVE  IInv'
<1>1. /\ Become(Heap) /\ current' = current /\ exposed' = exposed
      /\ announced' = announced
      /\ UNCHANGED <<pageVars, verdicts>>
  BY DEF vars, heapVars, history, Become, Heap
<1>2. /\ HeapInv(Heap, current, exposed)
      /\ exposed \in [Transactions -> BOOLEAN]
      /\ announced \in [Transactions -> BOOLEAN]
  BY DEF IInv, TypeOK
<1> QED BY <1>1, <1>2, HeapStep

(* So does every step. *)
LEMMA NextKeepsInv ==
    ASSUME IInv, [Next]_vars
    PROVE  IInv'
<1>1. CASE StartTransaction
  <2>1. PICK c \in StartCalls :
           \/ StartManagedReuse(c)
           \/ \E t \in Transactions, sampled \in SampledOutcomes :
                 \/ StartManagedNew(c, t, sampled)
                 \/ StartManagedReplace(c, t, sampled)
                 \/ StartUnmanaged(c, t, sampled)
    BY <1>1 DEF StartTransaction
  <2>0. c \in CallOptions
    BY ConstantsAssumption
  <2>2. CASE StartManagedReuse(c)
    BY <2>0, <2>2, ReuseStep
  <2>3. CASE \E t \in Transactions, sampled \in SampledOutcomes :
                 \/ StartManagedNew(c, t, sampled)
                 \/ StartManagedReplace(c, t, sampled)
                 \/ StartUnmanaged(c, t, sampled)
    BY <2>0, <2>3, StartStep
  <2> QED BY <2>1, <2>2, <2>3
<1>2. CASE \E s \in Spans, blocking \in BOOLEAN :
              \/ \E t \in Transactions : StartSpan(t, s, blocking)
              \/ \E t \in Transactions, sampled \in SampledOutcomes :
                    StartTemporary(s, blocking, t, sampled)
  BY <1>2, SpanStep, TemporaryStep
<1>3. CASE \E s \in Spans : EndSpan(s)
  BY <1>3, SpanStep
<1>4. CASE \E t \in Transactions :
              \/ EndTransaction(t)
              \/ \E k \in Tasks : AddTask(t, k) \/ RemoveTask(t, k)
              \/ \E flag \in BOOLEAN : Block(t, flag)
              \/ CallDetectFinish(t)
  BY <1>4, TransactionStep
<1>5. CASE RunMicrotask
  BY <1>5, SettleStep DEF RunMicrotask
<1>6. CASE \E e \in EntryTypes : ObserveEntries(e)
  BY <1>6, ObserveStep
<1>7. CASE Hide \/ Show \/ Tick
  BY <1>7, PageStep
<1>8. CASE UNCHANGED vars
  BY <1>8, StutterStep
<1> QED BY <1>1, <1>2, <1>3, <1>4, <1>5, <1>6, <1>7, <1>8 DEF Next, Call

(* The inductive invariant holds in every reachable state. *)
THEOREM Invariance == Spec => []IInv
<1>1. Init => IInv
  BY InitInv
<1>2. IInv /\ [Next]_vars => IInv'
  BY NextKeepsInv
<1> QED BY <1>1, <1>2, PTL DEF Spec

-----------------------------------------------------------------------------
(* What the invariant says, property by property *)

(* Every variable keeps its type. *)
THEOREM TypeCorrect == Spec => []TypeOK
<1>1. IInv => TypeOK
  BY DEF IInv
<1> QED BY <1>1, Invariance, PTL

(* There is at most one running managed transaction, the current one. *)
THEOREM OneManagedHolds == Spec => []OneManaged
<1>1. IInv => OneManaged
  BY DEF IInv, HeapInv, Heap, OneManaged, Running
<1> QED BY <1>1, Invariance, PTL

(* Spans run inside running transactions and are recorded exactly once. *)
THEOREM SpansAccountedHolds == Spec => []SpansAccounted
<1>1. IInv => SpansAccounted
  <2> SUFFICES ASSUME IInv PROVE SpansAccounted
    OBVIOUS
  <2>1. /\ SpansOK(Heap) /\ Heap.tr = tr /\ Heap.span = span
    BY DEF IInv, HeapInv, HeapOK, Heap
  <2> QED BY <2>1 DEF SpansOK, SpansAccounted, Running
<1> QED BY <1>1, Invariance, PTL

(* The recorder observes only for the running managed transaction. *)
THEOREM ObserversFollowCurrentHolds == Spec => []ObserversFollowCurrent
<1>1. IInv => ObserversFollowCurrent
  BY DEF IInv, HeapInv, Heap, ObserversFollowCurrent, HasCurrent
<1> QED BY <1>1, Invariance, PTL

(* An ended transaction is settled exactly once. *)
THEOREM SettledOnceHolds == Spec => []SettledOnce
<1>1. IInv => SettledOnce
  BY DEF IInv, HeapInv, Heap, SettledOnce, Pending, Occurs, Distinct
<1> QED BY <1>1, Invariance, PTL

(* The visibility verdict is the truth about the transaction. *)
THEOREM HiddenVerdictHolds == Spec => []HiddenVerdict
<1>1. IInv => HiddenVerdict
  BY DEF IInv
<1> QED BY <1>1, Invariance, PTL

-----------------------------------------------------------------------------
(* What the calls do, exactly: every call on an existing transaction t      *)
(* gives t a record q and the spans the values S, and then ends t or not    *)
(* (Updated).  The action properties, and the steps of                      *)
(* TransactionLifecycle, follow from what q, S and the end have to do with  *)
(* the state before (Lawful), and from a second invariant, Held.            *)

(* From h to g, t becomes q, the spans S; then t ends if "ends" *)
Updated(h, g, t, q, S, ends) ==
    /\ g \in HeapType
    /\ g.tr = [h.tr EXCEPT ![t] = IF ends THEN Close(q) ELSE q]
    /\ g.span = [s \in Spans |-> IF ends /\ s \in q.activeSpans THEN Truncate(S[s])
                                                                ELSE S[s]]
    /\ g.recorder = IF ends /\ q.onEnd THEN {} ELSE h.recorder
    /\ g.microtasks = IF ends /\ q.onEnd THEN Append(h.microtasks, t)
                                         ELSE h.microtasks

(* End ends a transaction that has not ended (transaction.js:133). *)
LEMMA EndIs ==
    ASSUME NEW h \in HeapType, NEW t \in Transactions, h.tr[t].status # "ended"
    PROVE  Updated(h, End(h, t), t, h.tr[t], h.span, TRUE)
<1> DEFINE q == h.tr[t]
           cut == TruncateSpans(h, q.activeSpans)
           closed == PutTransaction(cut, t, Close(q))
           g == CallOnEnd(closed, t)
<1>1. /\ h.tr \in [Transactions -> TransactionRecord]
      /\ q \in TransactionRecord /\ q.activeSpans \in SUBSET Spans
  BY DEF HeapType, TransactionRecord
<1>2. /\ cut \in HeapType /\ cut.tr = h.tr
      /\ cut.span = [s \in Spans |-> IF s \in q.activeSpans THEN Truncate(h.span[s])
                                                           ELSE h.span[s]]
      /\ cut.recorder = h.recorder /\ cut.microtasks = h.microtasks
  BY <1>1, TruncateSpansIs
<1> HIDE DEF cut
<1>3. /\ closed \in HeapType /\ closed.tr = [h.tr EXCEPT ![t] = Close(q)]
      /\ closed.span = cut.span
      /\ closed.recorder = h.recorder /\ closed.microtasks = h.microtasks
  BY <1>1, <1>2, CloseIs, PutTransactionIs
<1> HIDE DEF closed
<1>4. closed.tr[t].onEnd <=> q.onEnd
  BY <1>1, <1>3, CloseIs DEF SameIdentity
<1>5. /\ g \in HeapType /\ g.tr = closed.tr /\ g.span = closed.span
      /\ g.recorder = IF q.onEnd THEN {} ELSE h.recorder
      /\ g.microtasks = IF q.onEnd THEN Append(h.microtasks, t) ELSE h.microtasks
  <2>1. /\ g \in HeapType /\ g.tr = closed.tr /\ g.span = closed.span
        /\ g.recorder = IF closed.tr[t].onEnd THEN {} ELSE closed.recorder
        /\ g.microtasks = IF closed.tr[t].onEnd THEN Append(closed.microtasks, t)
                                                ELSE closed.microtasks
    BY <1>3, CallOnEndIs
  <2> HIDE DEF g, q
  <2> QED BY <1>3, <1>4, <2>1
<1>6. End(h, t) = g
  BY DEF End, g, closed, cut
<1> HIDE DEF g
<1> QED BY <1>2, <1>3, <1>5, <1>6 DEF Updated

(* Replacing a transaction and no more *)
LEMMA PutIs ==
    ASSUME NEW h \in HeapType, NEW t \in Transactions, NEW q \in TransactionRecord
    PROVE  /\ Updated(h, PutTransaction(h, t, q), t, q, h.span, FALSE)
           /\ PutTransaction(h, t, q).tr[t] = q
<1> DEFINE g == PutTransaction(h, t, q)
<1>1. /\ h.tr \in [Transactions -> TransactionRecord]
      /\ h.span \in [Spans -> SpanRecord]
  BY DEF HeapType
<1>2. /\ g \in HeapType /\ g.tr = [h.tr EXCEPT ![t] = q] /\ g.span = h.span
      /\ g.recorder = h.recorder /\ g.microtasks = h.microtasks
  BY PutTransactionIs
<1> HIDE DEF g
<1> QED BY <1>1, <1>2 DEF Updated, g

(* detectFinish after a replacement ends the transaction if what it became  *)
(* is finished and has not ended (transaction.js:125).                      *)
LEMMA PutThenDetectIs ==
    ASSUME NEW h \in HeapType, NEW t \in Transactions, NEW q \in TransactionRecord
    PROVE  Updated(h, DetectFinish(PutTransaction(h, t, q), t), t, q, h.span,
                   IsFinished(q) /\ q.status # "ended")
<1> DEFINE f == PutTransaction(h, t, q)
<1>1. /\ h.tr \in [Transactions -> TransactionRecord]
      /\ h.span \in [Spans -> SpanRecord]
  BY DEF HeapType
<1>2. /\ f \in HeapType /\ f.tr = [h.tr EXCEPT ![t] = q] /\ f.tr[t] = q
      /\ f.span = h.span /\ f.recorder = h.recorder /\ f.microtasks = h.microtasks
  BY <1>1, PutTransactionIs
<1> HIDE DEF f
<1>3. CASE IsFinished(q) /\ q.status # "ended"
  <2>1. Updated(f, End(f, t), t, q, f.span, TRUE)
    BY <1>2, <1>3, EndIs
  <2>2. [f.tr EXCEPT ![t] = Close(q)] = [h.tr EXCEPT ![t] = Close(q)]
    BY <1>1, <1>2
  <2>3. Updated(h, End(f, t), t, q, h.span, TRUE)
    BY <1>2, <2>1, <2>2 DEF Updated
  <2> QED BY <1>2, <1>3, <2>3 DEF DetectFinish, f
<1>4. CASE ~(IsFinished(q) /\ q.status # "ended")
  <2>1. DetectFinish(f, t) = f
    BY <1>2, <1>4 DEF DetectFinish, End
  <2>2. Updated(h, f, t, q, h.span, FALSE)
    BY <1>1, <1>2 DEF Updated
  <2> QED BY <1>4, <2>1, <2>2 DEF f
<1> QED BY <1>3, <1>4

(* removeTask *)
LEMMA RemoveTaskIs ==
    ASSUME NEW h \in HeapType, NEW t \in Transactions, NEW k,
           k \in h.tr[t].activeTasks
    PROVE  LET q == Unregister(h.tr[t], k)
           IN  Updated(h, RemoveTaskOf(h, t, k), t, q, h.span,
                       IsFinished(q) /\ q.status # "ended")
<1>1. Unregister(h.tr[t], k) \in TransactionRecord
  BY UnregisterIs DEF HeapType
<1> QED BY <1>1, PutThenDetectIs DEF RemoveTaskOf

(* startSpan: a span more, perhaps with its task (transaction.js:91). *)
LEMMA OpenSpanIs ==
    ASSUME NEW h \in HeapType, NEW t \in Transactions, NEW s \in Spans,
           NEW blocking \in BOOLEAN
    PROVE  Updated(h, OpenSpan(h, t, s, blocking), t, Adopt(h.tr[t], s, blocking),
                   [h.span EXCEPT ![s] = NewSpan(t)], FALSE)
<1> DEFINE f == PutSpan(h, s, NewSpan(t))
           q == Adopt(h.tr[t], s, blocking)
           g == PutTransaction(f, t, q)
<1>1. h.tr[t] \in TransactionRecord /\ h.span \in [Spans -> SpanRecord]
  BY DEF HeapType
<1>2. NewSpan(t) \in SpanRecord
  BY DEF NewSpan, SpanRecord
<1>3. /\ f \in HeapType /\ f.tr = h.tr /\ f.span = [h.span EXCEPT ![s] = NewSpan(t)]
      /\ f.recorder = h.recorder /\ f.microtasks = h.microtasks
  BY <1>2, PutSpanIs
<1> HIDE DEF f
<1>4. q \in TransactionRecord
  BY <1>1, AdoptIs
<1> HIDE DEF q
<1>5. Updated(f, g, t, q, f.span, FALSE)
  BY <1>3, <1>4, PutIs
<1>6. OpenSpan(h, t, s, blocking) = g
  BY DEF OpenSpan, g, f, q
<1> HIDE DEF g
<1> QED BY <1>3, <1>5, <1>6 DEF Updated, q

(* The end of a running span: it leaves the active spans and tasks of its   *)
(* transaction, which ends with the last of its tasks (transaction.js:182). *)
LEMMA SpanEndIs ==
    ASSUME NEW h \in HeapType, NEW s \in Spans, h.span[s].status = "running",
           h.span[s].transaction \in Transactions
    PROVE  LET t == h.span[s].transaction
               q == Unregister(Drop(h.tr[t], s), s)
           IN  Updated(h, SpanEnd(h, s), t, q, [h.span EXCEPT ![s] = Finished(@)],
                       s \in h.tr[t].activeTasks /\ IsFinished(q) /\ q.status # "ended")
<1> DEFINE t == h.span[s].transaction
           S == [h.span EXCEPT ![s] = Finished(@)]
           d == Drop(h.tr[t], s)
           q == Unregister(d, s)
           f == PutSpan(h, s, Finished(h.span[s]))
           e == PutTransaction(f, t, d)
           g == RemoveTaskOf(e, t, s)
           ends == s \in h.tr[t].activeTasks /\ IsFinished(q) /\ q.status # "ended"
<1>1. /\ h.tr \in [Transactions -> TransactionRecord]
      /\ h.span \in [Spans -> SpanRecord]
  BY DEF HeapType
<1>2. /\ t \in Transactions /\ h.tr[t] \in TransactionRecord
      /\ Finished(h.span[s]) \in SpanRecord
  BY <1>1, FinishedIs
<1>3. g = SpanEnd(h, s)
  BY DEF SpanEnd, OnSpanEnd
<1>4. d \in TransactionRecord /\ d.activeTasks = h.tr[t].activeTasks
  BY <1>2, DropIs DEF Drop, TransactionRecord
<1>5. q \in TransactionRecord
  BY <1>4, UnregisterIs
<1>6. /\ f \in HeapType /\ f.tr = h.tr /\ f.span = S
      /\ f.recorder = h.recorder /\ f.microtasks = h.microtasks
  BY <1>2, PutSpanIs
<1>7. s \notin h.tr[t].activeTasks => d = q
  <2> HIDE DEF d
  <2>1. s \notin h.tr[t].activeTasks => d.activeTasks \ {s} = d.activeTasks
    BY <1>4
  <2>2. [d EXCEPT !.activeTasks = d.activeTasks] = d
    BY <1>4 DEF TransactionRecord
  <2> QED BY <2>1, <2>2 DEF Unregister
<1> HIDE DEF t, f
<1>8. /\ e \in HeapType /\ e.tr = [f.tr EXCEPT ![t] = d] /\ e.span = f.span
      /\ e.recorder = f.recorder /\ e.microtasks = f.microtasks
  BY <1>2, <1>4, <1>6, PutTransactionIs
<1>9. e.tr[t] = d
  BY <1>1, <1>2, <1>6, <1>8
<1> HIDE DEF S, d, e
<1>10. CASE s \in h.tr[t].activeTasks
  <2>1. Updated(e, g, t, q, e.span, IsFinished(q) /\ q.status # "ended")
    BY <1>2, <1>4, <1>8, <1>9, <1>10, RemoveTaskIs
  <2>2. \A x : [e.tr EXCEPT ![t] = x] = [h.tr EXCEPT ![t] = x]
    BY <1>1, <1>6, <1>8
  <2> HIDE DEF q, g
  <2>3. Updated(h, g, t, q, S, ends)
    BY <1>6, <1>8, <1>10, <2>1, <2>2 DEF Updated
  <2> QED BY <1>3, <2>3 DEF ends, S, q, d, t
<1>11. CASE s \notin h.tr[t].activeTasks
  <2>1. g = e
    BY <1>4, <1>9, <1>11 DEF RemoveTaskOf
  <2>2. e = PutTransaction(f, t, q)
    BY <1>7, <1>11 DEF e
  <2>3. Updated(f, e, t, q, f.span, FALSE)
    BY <1>2, <1>5, <1>6, <2>2, PutIs
  <2> HIDE DEF q, g
  <2>4. Updated(h, g, t, q, S, ends)
    BY <1>6, <1>11, <2>1, <2>3 DEF Updated
  <2> QED BY <1>3, <2>4 DEF ends, S, q, d, t
<1> QED BY <1>10, <1>11

-----------------------------------------------------------------------------
(* What a call may do *)

(* Spans hold only their own transaction, are cut off only when they end,   *)
(* and have none before they are started                                    *)
Held(h) ==
    /\ \A t \in Transactions : h.tr[t].activeTasks \cap Spans \subseteq h.tr[t].activeSpans
    /\ \A s \in Spans : h.span[s].status = "running" => ~h.span[s].truncated
    /\ \A s \in Spans : h.span[s].status = "unused" => h.span[s].transaction = NoTransaction

(* t ends only while it runs, and at once when the change finishes it; an   *)
(* ended one keeps all but tasks and flag; one span of t ends or starts     *)
Lawful(h, t, q, S, ends) ==
    LET r == h.tr[t]
    IN  /\ q \in TransactionRecord /\ S \in [Spans -> SpanRecord] /\ ends \in BOOLEAN
        /\ q.status = r.status /\ SameIdentity(q, r)
        /\ ends => r.status = "running" /\ q.activeSpans \subseteq r.activeSpans
        /\ ~ends /\ r.status = "running" /\ IsFinished(q) => IsFinished(r)
        /\ r.status = "ended" =>
              /\ S = h.span
              /\ q = [r EXCEPT !.activeTasks = q.activeTasks, !.blocked = q.blocked]
        /\ q.activeTasks \cap Spans \subseteq q.activeSpans
        /\ \A s \in Spans :
              \/ S[s] = h.span[s]
              \/ /\ h.span[s].status = "running" /\ h.span[s].transaction = t
                 /\ S[s] = Finished(h.span[s])
              \/ h.span[s].status = "unused" /\ S[s] = NewSpan(t)

(* No span is cut off that holds the transaction *)
Gentle(h, t, q, ends) == ends => q.activeSpans \cap h.tr[t].activeTasks = {}

(* A call on a transaction that was started *)
ALawfulCall(t) ==
    /\ tr[t].status # "unused"
    /\ \E q, S, ends :
          /\ Lawful(Heap, t, q, S, ends)
          /\ Updated(Heap, Heap', t, q, S, ends)
          /\ Gentle(Heap, t, q, ends) \/ EndTransaction(t)
    /\ UNCHANGED <<current, pageVars, verdicts, history>>

(* The heap after a call *)
LEMMA BecomeIs ==
    ASSUME NEW g \in HeapType, Become(g)
    PROVE  Heap' = g
BY DEF Become, Heap, HeapType

(* q is r with other tasks and another flag, perhaps *)
SameButTasks(q, r) == q = [r EXCEPT !.activeTasks = q.activeTasks, !.blocked = q.blocked]

(* A change of tasks and flags, and detectFinish after it *)
LEMMA TouchIsLawful ==
    ASSUME NEW h, HeapOK(h), Held(h), NEW t \in Transactions,
           NEW q \in TransactionRecord, NEW ends \in BOOLEAN,
           h.tr[t].status # "unused",
           SameButTasks(q, h.tr[t]),
           q.activeTasks \cap Spans \subseteq h.tr[t].activeSpans,
           ~ends => ~IsFinished(q) \/ q.status = "ended" \/ IsFinished(h.tr[t]),
           ends => q.status # "ended"
    PROVE  Lawful(h, t, q, h.span, ends)
<1>1. /\ h.tr[t] \in TransactionRecord /\ h.span \in [Spans -> SpanRecord]
  BY DEF HeapOK, HeapType
<1>2. /\ q.status = h.tr[t].status /\ SameIdentity(q, h.tr[t])
      /\ q.activeSpans = h.tr[t].activeSpans
  BY <1>1 DEF TransactionRecord, SameIdentity, SameButTasks
<1>3. ends => h.tr[t].status = "running"
  BY <1>1, <1>2 DEF TransactionRecord
<1> QED BY <1>1, <1>2, <1>3 DEF Lawful, SameButTasks

(* The current transaction is a managed one; one that was not started is    *)
(* not exposed                                                              *)
CInv ==
    /\ IInv
    /\ Held(Heap)
    /\ current # NoTransaction => tr[current].managed
    /\ \A t \in Transactions : tr[t].status = "unused" => ~exposed[t]

(* What the invariant says of the heap *)
LEMMA HeapIs ==
    CInv =>
      /\ HeapOK(Heap) /\ Held(Heap) /\ Heap \in HeapType
      /\ Heap.tr = tr /\ Heap.span = span
      /\ Heap.recorder = recorder /\ Heap.microtasks = microtasks
      /\ tr \in [Transactions -> TransactionRecord]
      /\ span \in [Spans -> SpanRecord]
<1> SUFFICES ASSUME CInv
             PROVE  /\ HeapOK(Heap) /\ Held(Heap) /\ Heap \in HeapType
                    /\ Heap.tr = tr /\ Heap.span = span
                    /\ Heap.recorder = recorder /\ Heap.microtasks = microtasks
                    /\ tr \in [Transactions -> TransactionRecord]
                    /\ span \in [Spans -> SpanRecord]
  OBVIOUS
<1>1. HeapOK(Heap) /\ Held(Heap)
  BY DEF CInv, IInv, HeapInv
<1>2. Heap \in HeapType
  BY <1>1 DEF HeapOK
<1>3. /\ Heap.tr = tr /\ Heap.span = span
      /\ Heap.recorder = recorder /\ Heap.microtasks = microtasks
  BY DEF Heap
<1>4. tr \in [Transactions -> TransactionRecord] /\ span \in [Spans -> SpanRecord]
  BY DEF CInv, IInv, TypeOK
<1> QED BY <1>1, <1>2, <1>3, <1>4

(* Each call on a transaction is lawful. *)
LEMMA TransactionCallIsLawful ==
    ASSUME CInv, NEW t \in Transactions,
           \/ EndTransaction(t)
           \/ \E k \in Tasks : AddTask(t, k) \/ RemoveTask(t, k)
           \/ \E flag \in BOOLEAN : Block(t, flag)
           \/ CallDetectFinish(t)
    PROVE  ALawfulCall(t)
<1> DEFINE r == tr[t]
<1>1. /\ HeapOK(Heap) /\ Held(Heap) /\ Heap \in HeapType
      /\ Heap.tr = tr /\ Heap.span = span
      /\ r \in TransactionRecord /\ Heap.tr[t] = r
      /\ r.activeTasks \cap Spans \subseteq r.activeSpans
  BY HeapIs DEF Held
<1>2. r.status # "unused" /\ UNCHANGED <<current, pageVars, verdicts, history>>
  BY DEF EndTransaction, AddTask, RemoveTask, Block, CallDetectFinish
<1>3. ASSUME NEW q \in TransactionRecord, NEW ends \in BOOLEAN,
             NEW g, Become(g), Updated(Heap, g, t, q, span, ends),
             SameButTasks(q, r),
             q.activeTasks \cap Spans \subseteq r.activeSpans,
             ~ends => ~IsFinished(q) \/ q.status = "ended" \/ IsFinished(r),
             ends => q.status # "ended",
             Gentle(Heap, t, q, ends) \/ EndTransaction(t)
      PROVE  ALawfulCall(t)
  <2>1. Lawful(Heap, t, q, span, ends)
    <3> DEFINE x == Heap.tr[t]
    <3>1. /\ x = r /\ x.status # "unused" /\ Heap.span = span
          /\ SameButTasks(q, x)
          /\ q.activeTasks \cap Spans \subseteq x.activeSpans
          /\ ~ends => ~IsFinished(q) \/ q.status = "ended" \/ IsFinished(x)
      BY <1>1, <1>2, <1>3
    <3>2. Lawful(Heap, t, q, Heap.span, ends)
      BY <1>1, <1>3, <3>1, TouchIsLawful
    <3> QED BY <3>1, <3>2
  <2>2. Heap' = g
    BY <1>3, BecomeIs DEF Updated
  <2> QED BY <1>2, <1>3, <2>1, <2>2 DEF ALawfulCall
<1>4. ASSUME NEW tasks \in SUBSET (Spans \cup Tasks), NEW flag \in BOOLEAN
      PROVE  LET q == [r EXCEPT !.activeTasks = tasks, !.blocked = flag]
             IN  /\ q \in TransactionRecord /\ SameButTasks(q, r)
                 /\ q.activeTasks = tasks /\ (q.blocked <=> flag)
                 /\ q.status = r.status /\ q.activeSpans = r.activeSpans
  <2> DEFINE q == [r EXCEPT !.activeTasks = tasks, !.blocked = flag]
  <2>1. /\ q \in TransactionRecord
        /\ q.activeTasks = tasks /\ q.blocked = flag
        /\ q.status = r.status /\ q.activeSpans = r.activeSpans
    BY <1>1 DEF TransactionRecord
  <2>2. SameButTasks(q, r)
    <3>1. q = [r EXCEPT !.activeTasks = q.activeTasks, !.blocked = q.blocked]
      BY <2>1
    <3> HIDE DEF q
    <3> QED BY <3>1 DEF SameButTasks
  <2> HIDE DEF q
  <2>3. q \in TransactionRecord /\ SameButTasks(q, r)
        /\ q.activeTasks = tasks /\ (q.blocked <=> flag)
        /\ q.status = r.status /\ q.activeSpans = r.activeSpans
    BY <2>1, <2>2
  <2> QED BY <2>3 DEF q
<1>5. /\ r.activeTasks \in SUBSET (Spans \cup Tasks) /\ r.blocked \in BOOLEAN
      /\ SameButTasks(r, r)
      /\ \A tasks : [r EXCEPT !.activeTasks = tasks]
                     = [r EXCEPT !.activeTasks = tasks, !.blocked = r.blocked]
      /\ \A flag : [r EXCEPT !.blocked = flag]
                     = [r EXCEPT !.activeTasks = r.activeTasks, !.blocked = flag]
  BY <1>1 DEF TransactionRecord, SameButTasks
<1>6. CASE EndTransaction(t)
  <2>1. Become(End(Heap, t))
    BY <1>6 DEF EndTransaction
  <2>2. CASE r.status # "ended"
    <3>1. Updated(Heap, End(Heap, t), t, r, span, TRUE)
      BY <1>1, <2>2, EndIs
    <3> QED BY <1>1, <1>3, <1>5, <1>6, <2>1, <2>2, <3>1
  <2>3. CASE r.status = "ended"
    <3>1. Become(Heap)
      BY <1>1, <2>1, <2>3 DEF End
    <3>2. Updated(Heap, Heap, t, r, span, FALSE)
      BY <1>1, HeapIs DEF Updated
    <3> QED BY <1>1, <1>3, <1>5, <1>6, <2>3, <3>1, <3>2
  <2> QED BY <2>2, <2>3
<1>7. ASSUME NEW k \in Tasks, AddTask(t, k)
      PROVE  ALawfulCall(t)
  <2> DEFINE tasks == r.activeTasks \cup {k}
             q == [r EXCEPT !.activeTasks = tasks]
             g == PutTransaction(Heap, t, q)
  <2>1. Become(g)
    BY <1>7 DEF AddTask
  <2>2. tasks \in SUBSET (Spans \cup Tasks) /\ tasks \cap Spans \subseteq r.activeSpans
    <3>1. k \notin Spans
      BY ConstantsAssumption
    <3> HIDE DEF r
    <3> QED BY <1>1, <1>5, <3>1
  <2>3. /\ q \in TransactionRecord
        /\ SameButTasks(q, r)
        /\ q.activeTasks = tasks
    <3>1. q = [r EXCEPT !.activeTasks = tasks, !.blocked = r.blocked]
      BY <1>5
    <3> HIDE DEF r, q, tasks
    <3> QED BY <1>4, <1>5, <2>2, <3>1
  <2>4. ~IsFinished(q)
    BY <2>3 DEF IsFinished
  <2> HIDE DEF q
  <2>5. Updated(Heap, g, t, q, span, FALSE)
    BY <1>1, <2>3, PutIs
  <2> QED BY <1>3, <2>1, <2>2, <2>3, <2>4, <2>5 DEF Gentle
<1>8. ASSUME NEW k \in Tasks, RemoveTask(t, k)
      PROVE  ALawfulCall(t)
  <2> DEFINE tasks == r.activeTasks \ {k}
             q == Unregister(r, k)
             g == RemoveTaskOf(Heap, t, k)
             ends == IsFinished(q) /\ q.status # "ended"
  <2>1. Become(g)
    BY <1>8 DEF RemoveTask
  <2>2. CASE k \in r.activeTasks
    <3>1. tasks \in SUBSET (Spans \cup Tasks) /\ tasks \cap Spans \subseteq r.activeSpans
      BY <1>1, <1>5
    <3>2. /\ q \in TransactionRecord
          /\ SameButTasks(q, r)
          /\ q.activeTasks = tasks
      <4>1. q = [r EXCEPT !.activeTasks = tasks, !.blocked = r.blocked]
        BY <1>5 DEF Unregister
      <4> HIDE DEF r, q, tasks
      <4> QED BY <1>4, <1>5, <3>1, <4>1
    <3>3. Updated(Heap, g, t, q, span, ends)
      BY <1>1, <2>2, RemoveTaskIs
    <3> HIDE DEF q
    <3>4. ends \in BOOLEAN /\ ~ends => ~IsFinished(q) \/ q.status = "ended"
      OBVIOUS
    <3>5. Gentle(Heap, t, q, ends)
      <4>1. k \notin Spans
        BY ConstantsAssumption
      <4>2. ends => r.activeTasks \subseteq {k}
        BY <3>2 DEF IsFinished
      <4>3. q.activeSpans \subseteq Spans
        BY <3>2 DEF TransactionRecord
      <4> QED BY <1>1, <4>1, <4>2, <4>3 DEF Gentle
    <3> HIDE DEF ends, g
    <3> QED BY <1>3, <2>1, <3>1, <3>2, <3>3, <3>4, <3>5 DEF ends
  <2>3. CASE k \notin r.activeTasks
    <3>1. Become(Heap)
      BY <1>1, <2>1, <2>3 DEF RemoveTaskOf
    <3>2. Updated(Heap, Heap, t, r, span, FALSE)
      BY <1>1, HeapIs DEF Updated
    <3> QED BY <1>1, <1>3, <1>5, <3>1, <3>2 DEF Gentle
  <2> QED BY <2>2, <2>3
<1>9. ASSUME NEW flag \in BOOLEAN, Block(t, flag)
      PROVE  ALawfulCall(t)
  <2> DEFINE q == [r EXCEPT !.blocked = flag]
             h == PutTransaction(Heap, t, q)
             g == IF flag THEN h ELSE DetectFinish(h, t)
             ends == ~flag /\ IsFinished(q) /\ q.status # "ended"
  <2>1. Become(g)
    BY <1>1, <1>9 DEF Block
  <2>2. /\ q \in TransactionRecord
        /\ SameButTasks(q, r)
        /\ q.activeTasks = r.activeTasks /\ (q.blocked <=> flag)
    <3>1. q = [r EXCEPT !.activeTasks = r.activeTasks, !.blocked = flag]
      BY <1>5
    <3> HIDE DEF r, q
    <3> QED BY <1>4, <1>5, <1>9, <3>1
  <2> HIDE DEF q
  <2>3. Updated(Heap, g, t, q, span, ends)
    <3>1. CASE flag
      BY <1>1, <2>2, <3>1, PutIs
    <3>2. CASE ~flag
      <4>1. Updated(Heap, DetectFinish(h, t), t, q, span,
                    IsFinished(q) /\ q.status # "ended")
        BY <1>1, <2>2, PutThenDetectIs
      <4> QED BY <3>2, <4>1
    <3> QED BY <3>1, <3>2
  <2>4. ends \in BOOLEAN /\ (~ends => ~IsFinished(q) \/ q.status = "ended")
    BY <2>2 DEF IsFinished
  <2>5. Gentle(Heap, t, q, ends)
    BY <1>1, <2>2 DEF Gentle, IsFinished
  <2> HIDE DEF ends, g
  <2> QED BY <1>1, <1>3, <2>1, <2>2, <2>3, <2>4, <2>5 DEF ends
<1>10. CASE CallDetectFinish(t)
  <2> DEFINE g == DetectFinish(Heap, t)
             ends == IsFinished(r) /\ r.status # "ended"
  <2>1. Become(g)
    BY <1>10 DEF CallDetectFinish
  <2>2. Updated(Heap, g, t, r, span, ends)
    <3>1. CASE ends
      BY <1>1, <3>1, EndIs DEF DetectFinish
    <3>2. CASE ~ends
      <4>1. g = Heap
        BY <1>1, <3>2 DEF DetectFinish, End
      <4> QED BY <1>1, <3>2, <4>1, HeapIs DEF Updated
    <3> QED BY <3>1, <3>2
  <2>3. Gentle(Heap, t, r, ends)
    BY <1>1 DEF Gentle, IsFinished
  <2>4. ends \in BOOLEAN /\ ends => r.status # "ended"
    OBVIOUS
  <2>5. ~ends => ~IsFinished(r) \/ r.status = "ended" \/ IsFinished(r)
    OBVIOUS
  <2> HIDE DEF ends, g
  <2> QED BY <1>1, <1>3, <1>5, <2>1, <2>2, <2>3, <2>4, <2>5 DEF ends
<1> QED BY <1>6, <1>7, <1>8, <1>9, <1>10

(* Starting a span on a running transaction is lawful. *)
LEMMA OpenIsLawful ==
    ASSUME NEW h, HeapOK(h), Held(h), NEW t \in Transactions, NEW s \in Spans,
           NEW blocking \in BOOLEAN,
           h.tr[t].status = "running", h.span[s].status = "unused"
    PROVE  LET q == Adopt(h.tr[t], s, blocking)
               S == [h.span EXCEPT ![s] = NewSpan(t)]
           IN  /\ Lawful(h, t, q, S, FALSE)
               /\ Updated(h, OpenSpan(h, t, s, blocking), t, q, S, FALSE)
<1> DEFINE r == h.tr[t]
           q == Adopt(r, s, blocking)
           S == [h.span EXCEPT ![s] = NewSpan(t)]
<1>1. /\ h \in HeapType /\ h.span \in [Spans -> SpanRecord]
      /\ r \in TransactionRecord /\ r = h.tr[t] /\ r.status = "running"
      /\ r.activeTasks \cap Spans \subseteq r.activeSpans
  BY DEF HeapOK, HeapType, Held
<1>2. Updated(h, OpenSpan(h, t, s, blocking), t, q, S, FALSE)
  BY <1>1, OpenSpanIs
<1> HIDE DEF r
<1>3. /\ q \in TransactionRecord /\ q.status = r.status /\ SameIdentity(q, r)
      /\ q.activeSpans = r.activeSpans \cup {s}
      /\ r.activeTasks \subseteq q.activeTasks
      /\ q.activeTasks \subseteq r.activeTasks \cup {s}
      /\ (q.blocked <=> r.blocked)
  BY <1>1 DEF Adopt, TransactionRecord, SameIdentity
<1> HIDE DEF q
<1>4. /\ q.activeTasks \cap Spans \subseteq q.activeSpans
      /\ (IsFinished(q) => IsFinished(r))
  BY <1>1, <1>3 DEF IsFinished
<1>5. S \in [Spans -> SpanRecord] /\ S[s] = NewSpan(t)
      /\ \A u \in Spans \ {s} : S[u] = h.span[u]
  <2>1. NewSpan(t) \in SpanRecord
    BY DEF NewSpan, SpanRecord
  <2> QED BY <1>1, <2>1
<1> HIDE DEF S
<1>6. Lawful(h, t, q, S, FALSE)
  BY <1>1, <1>3, <1>4, <1>5 DEF Lawful
<1> QED BY <1>2, <1>6 DEF q, r, S

(* So is the end of a running span. *)
LEMMA SpanEndIsLawful ==
    ASSUME NEW h, HeapOK(h), Held(h), NEW s \in Spans, h.span[s].status = "running"
    PROVE  LET t == h.span[s].transaction
               q == Unregister(Drop(h.tr[t], s), s)
               S == [h.span EXCEPT ![s] = Finished(@)]
               ends == s \in h.tr[t].activeTasks /\ IsFinished(q) /\ q.status # "ended"
           IN  /\ t \in Transactions /\ h.tr[t].status = "running"
               /\ Lawful(h, t, q, S, ends) /\ Gentle(h, t, q, ends)
               /\ Updated(h, SpanEnd(h, s), t, q, S, ends)
<1> DEFINE t == h.span[s].transaction
           r == h.tr[t]
           q == Unregister(Drop(r, s), s)
           S == [h.span EXCEPT ![s] = Finished(@)]
           ends == s \in r.activeTasks /\ IsFinished(q) /\ q.status # "ended"
<1>1. h \in HeapType /\ h.span \in [Spans -> SpanRecord]
  BY DEF HeapOK, HeapType
<1>2. t \in Transactions /\ s \in r.activeSpans /\ r.status = "running"
  <2>1. t \in Transactions
    BY DEF HeapOK, SpansOK
  <2>2. s \in r.activeSpans
    BY <2>1 DEF HeapOK, SpansOK
  <2> QED BY <2>1, <2>2 DEF HeapOK, SpansOK
<1>3. Updated(h, SpanEnd(h, s), t, q, S, ends)
  BY <1>1, <1>2, SpanEndIs
<1>4. /\ r \in TransactionRecord /\ r = h.tr[t]
      /\ r.activeTasks \cap Spans \subseteq r.activeSpans
  BY <1>2 DEF HeapOK, HeapType, Held
<1> HIDE DEF r
<1>5. /\ q \in TransactionRecord /\ q.status = r.status /\ SameIdentity(q, r)
      /\ q.activeSpans = r.activeSpans \ {s} /\ q.activeTasks = r.activeTasks \ {s}
      /\ (q.blocked <=> r.blocked)
  BY <1>4 DEF Unregister, Drop, TransactionRecord, SameIdentity
<1> HIDE DEF q
<1>6. /\ q.activeTasks \cap Spans \subseteq q.activeSpans
      /\ (~ends /\ IsFinished(q) => IsFinished(r))
  <2>1. s \notin r.activeTasks => r.activeTasks \ {s} = r.activeTasks
    OBVIOUS
  <2> QED BY <1>2, <1>4, <1>5, <2>1 DEF IsFinished
<1>7. S \in [Spans -> SpanRecord] /\ S[s] = Finished(h.span[s])
      /\ \A u \in Spans \ {s} : S[u] = h.span[u]
  <2>1. Finished(h.span[s]) \in SpanRecord
    BY <1>1, FinishedIs
  <2> QED BY <1>1, <2>1
<1> HIDE DEF S
<1>8. Lawful(h, t, q, S, ends)
  <2>1. ends \in BOOLEAN
    OBVIOUS
  <2> QED BY <1>1, <1>2, <1>4, <1>5, <1>6, <1>7, <2>1 DEF Lawful, t
<1>9. Gentle(h, t, q, ends)
  BY <1>4, <1>5 DEF Gentle, IsFinished
<1> HIDE DEF ends
<1> QED BY <1>2, <1>3, <1>8, <1>9 DEF ends, q, r, S, t

(* Starting and ending a span is lawful, or nothing happens. *)
LEMMA SpanCallIsLawful ==
    ASSUME CInv, NEW s \in Spans,
           \/ \E t \in Transactions, blocking \in BOOLEAN : StartSpan(t, s, blocking)
           \/ EndSpan(s)
    PROVE  \/ \E t \in Transactions : ALawfulCall(t)
           \/ Heap' = Heap /\ UNCHANGED <<current, pageVars, verdicts, history>>
<1>1. /\ HeapOK(Heap) /\ Held(Heap) /\ Heap \in HeapType
      /\ Heap.tr = tr /\ Heap.span = span
      /\ tr \in [Transactions -> TransactionRecord]
      /\ span \in [Spans -> SpanRecord]
  BY HeapIs
<1>2. ASSUME NEW t \in Transactions, NEW blocking \in BOOLEAN, StartSpan(t, s, blocking)
      PROVE  ALawfulCall(t)
  <2> DEFINE q == Adopt(Heap.tr[t], s, blocking)
             S == [Heap.span EXCEPT ![s] = NewSpan(t)]
             g == OpenSpan(Heap, t, s, blocking)
  <2>1. /\ tr[t].status = "running" /\ span[s].status = "unused" /\ Become(g)
        /\ UNCHANGED <<current, pageVars, verdicts, history>>
    BY <1>2 DEF StartSpan, Running
  <2>2. Lawful(Heap, t, q, S, FALSE) /\ Updated(Heap, g, t, q, S, FALSE)
    BY <1>1, <2>1, OpenIsLawful
  <2>3. Heap' = g
    BY <2>1, <2>2, BecomeIs DEF Updated
  <2>4. Gentle(Heap, t, q, FALSE)
    BY DEF Gentle
  <2> HIDE DEF g, q, S
  <2> QED BY <2>1, <2>2, <2>3, <2>4 DEF ALawfulCall
<1>3. CASE EndSpan(s) /\ span[s].status = "running"
  <2> DEFINE t == Heap.span[s].transaction
             q == Unregister(Drop(Heap.tr[t], s), s)
             S == [Heap.span EXCEPT ![s] = Finished(@)]
             ends == s \in Heap.tr[t].activeTasks /\ IsFinished(q) /\ q.status # "ended"
             g == SpanEnd(Heap, s)
  <2>1. /\ Become(g) /\ UNCHANGED <<current, pageVars, verdicts, history>>
    BY <1>3 DEF EndSpan
  <2>2. /\ t \in Transactions /\ Heap.tr[t].status = "running"
        /\ Lawful(Heap, t, q, S, ends) /\ Gentle(Heap, t, q, ends)
        /\ Updated(Heap, g, t, q, S, ends)
    BY <1>1, <1>3, SpanEndIsLawful
  <2>3. Heap' = g
    BY <2>1, <2>2, BecomeIs DEF Updated
  <2> HIDE DEF t, q, S, ends, g
  <2> QED BY <1>1, <2>1, <2>2, <2>3 DEF ALawfulCall
<1>4. CASE EndSpan(s) /\ span[s].status # "running"
  <2>1. span[s].status \in {"unused", "running", "ended"}
    BY <1>1 DEF SpanRecord
  <2>2. span[s].status = "ended"
    BY <1>4, <2>1 DEF EndSpan
  <2>3. Become(Heap) /\ UNCHANGED <<current, pageVars, verdicts, history>>
    BY <1>1, <1>4, <2>2 DEF EndSpan, SpanEnd
  <2> QED BY <1>1, <2>3, BecomeIs
<1> QED BY <1>2, <1>3, <1>4

(* The entries of the observers reach the current transaction. *)
LEMMA ObserveIsLawful ==
    ASSUME CInv, NEW e \in EntryTypes, ObserveEntries(e)
    PROVE  current \in Transactions /\ ALawfulCall(current)
<1> DEFINE t == current
           r == tr[t]
           q == [r EXCEPT !.timings = @ \cup {e}]
           g == PutTransaction(Heap, t, q)
<1>1. /\ HeapOK(Heap) /\ Held(Heap) /\ Heap \in HeapType
      /\ Heap.tr = tr /\ Heap.span = span
      /\ tr \in [Transactions -> TransactionRecord]
      /\ span \in [Spans -> SpanRecord]
  BY HeapIs
<1>2. /\ t \in Transactions /\ r.status # "ended" /\ r.status # "unused"
      /\ Become(g) /\ UNCHANGED <<current, pageVars, verdicts, history>>
  BY DEF ObserveEntries, HasCurrent, CInv, IInv, TypeOK, HeapInv, Heap
<1>3. /\ r \in TransactionRecord /\ r = Heap.tr[t]
      /\ r.activeTasks \cap Spans \subseteq r.activeSpans
  BY <1>1, <1>2 DEF Held
<1> HIDE DEF r
<1>4. /\ q \in TransactionRecord /\ q.status = r.status /\ SameIdentity(q, r)
      /\ q.activeSpans = r.activeSpans /\ q.activeTasks = r.activeTasks
      /\ (q.blocked <=> r.blocked)
  BY <1>3 DEF TransactionRecord, SameIdentity
<1> HIDE DEF q
<1>5. Updated(Heap, g, t, q, span, FALSE)
  BY <1>1, <1>2, <1>4, PutIs
<1>6. Heap' = g
  BY <1>2, <1>5, BecomeIs DEF Updated
<1> HIDE DEF g, t
<1>7. Lawful(Heap, t, q, span, FALSE)
  BY <1>1, <1>2, <1>3, <1>4 DEF Lawful, IsFinished
<1>8. Gentle(Heap, t, q, FALSE) /\ tr[t].status # "unused"
  BY <1>2 DEF Gentle, r
<1>9. ALawfulCall(t)
  BY <1>2, <1>5, <1>6, <1>7, <1>8 DEF ALawfulCall
<1> QED BY <1>2, <1>9 DEF t

-----------------------------------------------------------------------------
(* What a start does *)

(* The current transaction is ended to be replaced *)
Cut == HasCurrent /\ current' # current

(* t starts, perhaps with a span, and the transaction it replaces ends *)
ABegin(t) ==
    /\ t # NoTransaction /\ tr[t].status = "unused"
    /\ tr'[t] \in TransactionRecord /\ tr'[t].status = "running"
    /\ tr'[t].activeTasks \cap Spans \subseteq tr'[t].activeSpans
    /\ IF tr'[t].managed THEN current' = t ELSE current' = current
    /\ \A u \in Transactions \ {t} :
          tr'[u] = IF Cut /\ u = current THEN Close(tr[u]) ELSE tr[u]
    /\ \A s \in Spans :
          \/ span'[s] = IF Cut /\ s \in tr[current].activeSpans THEN Truncate(span[s])
                                                               ELSE span[s]
          \/ span[s].status = "unused" /\ span'[s] = NewSpan(t)
    /\ microtasks' = IF Cut /\ tr[current].onEnd THEN Append(microtasks, current)
                                                 ELSE microtasks
    /\ exposed \in [Transactions -> BOOLEAN]
    /\ exposed' \in [Transactions -> BOOLEAN]
    /\ \A u \in Transactions \ {t} : exposed'[u] = exposed[u]
    /\ UNCHANGED verdicts

(* The current transaction is reused *)
ARedefine ==
    /\ Running(current) /\ current \in Transactions /\ tr'[current].managed
    /\ \A u \in Transactions \ {current} : tr'[u] = tr[u]
    /\ tr'[current].status = "running"
    /\ tr'[current].activeSpans = tr[current].activeSpans
    /\ tr'[current].activeTasks = tr[current].activeTasks
    /\ (tr'[current].blocked <=> tr[current].blocked)
    /\ UNCHANGED <<span, microtasks, current, verdicts, history>>

(* A transaction started with options c has no task and no span *)
Fresh(r, c) ==
    /\ r \in TransactionRecord /\ r.status = "running"
    /\ r.activeTasks = {} /\ r.activeSpans = {}
    /\ (r.managed <=> c.managed)

(* Nor does managing it or setting its hook give it any. *)
LEMMA FreshIs ==
    ASSUME clock \in Nat, NEW c \in CallOptions, NEW sampled \in BOOLEAN
    PROVE  LET n == NewTransaction(c, sampled)
           IN  Fresh(n, c) /\ Fresh(Manage(n), c) /\ Fresh([n EXCEPT !.onEnd = TRUE], c)
<1> DEFINE n == NewTransaction(c, sampled)
           m == Manage(n)
           o == [n EXCEPT !.onEnd = TRUE]
<1>1. /\ n \in TransactionRecord /\ n.status = "running" /\ n.activeTasks = {}
      /\ n.activeSpans = {} /\ (n.managed <=> c.managed)
  BY NewTransactionIs DEF NewTransaction
<1> HIDE DEF n
<1>2. /\ m \in TransactionRecord /\ m.status = "running" /\ m.activeSpans = {}
      /\ (m.managed <=> c.managed)
  BY <1>1, ManageIs
<1>3. m.activeTasks = {}
  BY <1>1 DEF Manage, TransactionRecord
<1>4. /\ o \in TransactionRecord /\ o.status = "running" /\ o.activeTasks = {}
      /\ o.activeSpans = {} /\ (o.managed <=> c.managed)
  BY <1>1 DEF TransactionRecord
<1> HIDE DEF m, o
<1>5. Fresh(n, c) /\ Fresh(m, c) /\ Fresh(o, c)
  BY <1>1, <1>2, <1>3, <1>4 DEF Fresh
<1> QED BY <1>5 DEF n, m, o

(* The fields of a heap whose recorder is started *)
LEMMA ManagedIs ==
    ASSUME NEW h \in HeapType, NEW t \in Transactions, NEW n, Manage(n) \in TransactionRecord
    PROVE  LET g == Managed(h, t, n) IN
           /\ g.tr = [h.tr EXCEPT ![t] = Manage(n)]
           /\ g.span = h.span
           /\ g.microtasks = h.microtasks
<1> DEFINE f == PutTransaction(h, t, Manage(n))
<1>1. /\ f \in HeapType /\ f.tr = [h.tr EXCEPT ![t] = Manage(n)]
      /\ f.span = h.span /\ f.microtasks = h.microtasks
  BY PutTransactionIs
<1>2. Managed(h, t, n) = [f EXCEPT !.recorder = @ \cup StartedObservers(n)]
  BY DEF Managed
<1> HIDE DEF f
<1> QED BY <1>1, <1>2 DEF HeapType

(* What every start leaves: h is the heap after the end of the current      *)
(* transaction, if the start ends it                                        *)
LEMMA BeginsFrom ==
    ASSUME CInv, NEW t \in Transactions, tr[t].status = "unused",
           NEW h, NEW r \in TransactionRecord,
           IF Cut THEN Updated(Heap, h, current, tr[current], span, TRUE) ELSE h = Heap,
           r.status = "running", r.activeTasks \cap Spans \subseteq r.activeSpans,
           tr' = [h.tr EXCEPT ![t] = r],
           \A s \in Spans : \/ span'[s] = h.span[s]
                            \/ span[s].status = "unused" /\ span'[s] = NewSpan(t),
           microtasks' = h.microtasks,
           IF r.managed THEN current' = t ELSE current' = current,
           NEW hook \in BOOLEAN, Born(t, hook), UNCHANGED verdicts
    PROVE  ABegin(t)
<1>1. /\ HeapOK(Heap) /\ Heap \in HeapType
      /\ Heap.tr = tr /\ Heap.span = span
      /\ Heap.recorder = recorder /\ Heap.microtasks = microtasks
      /\ tr \in [Transactions -> TransactionRecord]
  BY HeapIs
<1>2. /\ exposed \in [Transactions -> BOOLEAN]
      /\ exposed' \in [Transactions -> BOOLEAN]
      /\ \A u \in Transactions \ {t} : exposed'[u] = exposed[u]
  BY DEF CInv, IInv, TypeOK, Born
<1>3. t # NoTransaction
  BY ConstantsAssumption
<1>4. /\ h.tr \in [Transactions -> TransactionRecord]
      /\ \A u \in Transactions :
            h.tr[u] = IF Cut /\ u = current THEN Close(tr[u]) ELSE tr[u]
      /\ \A s \in Spans :
            h.span[s] = IF Cut /\ s \in tr[current].activeSpans THEN Truncate(span[s])
                                                                ELSE span[s]
      /\ h.microtasks = IF Cut /\ tr[current].onEnd THEN Append(microtasks, current)
                                                    ELSE microtasks
  <2>1. CASE Cut
    BY <1>1, <2>1 DEF Updated, HeapType
  <2>2. CASE ~Cut
    BY <1>1, <2>2
  <2> QED BY <2>1, <2>2
<1>5. tr'[t] = r /\ \A u \in Transactions \ {t} : tr'[u] = h.tr[u]
  BY <1>4
<1> QED BY <1>2, <1>3, <1>4, <1>5 DEF ABegin

(* Each way startTransaction creates a transaction begins it. *)
LEMMA StartBegins ==
    ASSUME CInv, NEW c \in CallOptions, NEW t \in Transactions,
           NEW sampled \in SampledOutcomes,
           \/ StartManagedNew(c, t, sampled)
           \/ StartManagedReplace(c, t, sampled)
           \/ StartUnmanaged(c, t, sampled)
    PROVE  ABegin(t)
<1> DEFINE n == NewTransaction(c, sampled)
<1>1. /\ HeapOK(Heap) /\ Heap \in HeapType
      /\ Heap.tr = tr /\ Heap.span = span
      /\ Heap.recorder = recorder /\ Heap.microtasks = microtasks
      /\ tr \in [Transactions -> TransactionRecord]
  BY HeapIs
<1>2. /\ clock \in Nat /\ sampled \in BOOLEAN /\ TRUE \in BOOLEAN
      /\ current \in Transactions \cup {NoTransaction}
  BY ConstantsAssumption DEF CInv, IInv, TypeOK
<1>3. Fresh(n, c) /\ Fresh(Manage(n), c) /\ Fresh([n EXCEPT !.onEnd = TRUE], c)
  BY <1>2, FreshIs
<1>4. tr[t].status = "unused" /\ UNCHANGED verdicts /\ Born(t, TRUE)
  BY DEF StartManagedNew, StartManagedReplace, StartUnmanaged
<1> HIDE DEF n
<1>5. CASE StartManagedNew(c, t, sampled)
  <2>1. /\ ~Cut /\ current' = t /\ c.managed /\ Become(Managed(Heap, t, n))
    BY <1>5 DEF StartManagedNew, Cut, n
  <2>2. /\ tr' = [Heap.tr EXCEPT ![t] = Manage(n)] /\ span' = Heap.span
        /\ microtasks' = Heap.microtasks
    <3>1. Manage(n) \in TransactionRecord
      BY <1>3 DEF Fresh
    <3>2. /\ Managed(Heap, t, n).tr = [Heap.tr EXCEPT ![t] = Manage(n)]
          /\ Managed(Heap, t, n).span = Heap.span
          /\ Managed(Heap, t, n).microtasks = Heap.microtasks
      BY <1>1, <3>1, ManagedIs
    <3> QED BY <2>1, <3>2 DEF Become
  <2> QED BY <1>1, <1>2, <1>3, <1>4, <2>1, <2>2, BeginsFrom DEF Fresh
<1>6. CASE StartManagedReplace(c, t, sampled)
  <2> DEFINE h == End(Heap, current)
  <2>1. /\ HasCurrent /\ current' = t /\ c.managed /\ Become(Managed(h, t, n))
    BY <1>6 DEF StartManagedReplace, n
  <2>2. /\ current \in Transactions /\ tr[current].status # "ended"
        /\ tr[current].status # "unused"
    BY <1>1, <1>2, <2>1 DEF HasCurrent, CInv, IInv, HeapInv
  <2>3. Cut
    BY <1>4, <2>1, <2>2 DEF Cut
  <2>4. Updated(Heap, h, current, tr[current], span, TRUE)
    BY <1>1, <2>2, EndIs
  <2> HIDE DEF h
  <2>5. /\ tr' = [h.tr EXCEPT ![t] = Manage(n)] /\ span' = h.span
        /\ microtasks' = h.microtasks
    <3>1. Manage(n) \in TransactionRecord /\ h \in HeapType
      BY <1>3, <2>4 DEF Fresh, Updated
    <3>2. /\ Managed(h, t, n).tr = [h.tr EXCEPT ![t] = Manage(n)]
          /\ Managed(h, t, n).span = h.span
          /\ Managed(h, t, n).microtasks = h.microtasks
      BY <3>1, ManagedIs
    <3> QED BY <2>1, <3>2 DEF Become
  <2> QED BY <1>1, <1>2, <1>3, <1>4, <2>1, <2>3, <2>4, <2>5, BeginsFrom DEF Fresh
<1>7. CASE StartUnmanaged(c, t, sampled)
  <2> DEFINE o == [n EXCEPT !.onEnd = TRUE]
  <2>1. /\ ~Cut /\ current' = current /\ ~c.managed
        /\ Become(PutTransaction(Heap, t, o))
    BY <1>7 DEF StartUnmanaged, Cut, n
  <2>2. /\ o \in TransactionRecord /\ o.status = "running" /\ ~o.managed
        /\ o.activeTasks \cap Spans \subseteq o.activeSpans
    BY <1>3, <2>1 DEF Fresh
  <2> HIDE DEF o
  <2>3. /\ tr' = [Heap.tr EXCEPT ![t] = o] /\ span' = Heap.span
        /\ microtasks' = Heap.microtasks
    BY <1>1, <2>1, <2>2, PutTransactionIs DEF Become
  <2> QED BY <1>2, <1>4, <2>1, <2>2, <2>3, BeginsFrom
<1> QED BY <1>5, <1>6, <1>7

(* So does TransactionService.startSpan without a current transaction. *)
LEMMA TemporaryBegins ==
    ASSUME CInv, NEW s \in Spans, NEW blocking \in BOOLEAN,
           NEW t \in Transactions, NEW sampled \in SampledOutcomes,
           StartTemporary(s, blocking, t, sampled)
    PROVE  ABegin(t)
<1> DEFINE n == NewTransaction(Temporary, sampled)
           h == PutTransaction(Heap, t, n)
           r == Adopt(n, s, blocking)
           g == OpenSpan(h, t, s, blocking)
<1>1. /\ HeapOK(Heap) /\ Heap \in HeapType
      /\ Heap.tr = tr /\ Heap.span = span
      /\ Heap.recorder = recorder /\ Heap.microtasks = microtasks
      /\ tr \in [Transactions -> TransactionRecord]
      /\ span \in [Spans -> SpanRecord]
  BY HeapIs
<1>2. /\ clock \in Nat /\ sampled \in BOOLEAN /\ FALSE \in BOOLEAN
  BY ConstantsAssumption DEF CInv, IInv, TypeOK
<1>3. Temporary \in CallOptions /\ Temporary.managed
  <2>1. 6 \in DOMAIN TypeOrder /\ TypeOrder[6] = "temporary"
    BY DEF TypeOrder
  <2>2. "temporary" \in Types
    BY <2>1 DEF Types
  <2> QED BY <2>2 DEF Temporary, CallOptions
<1>4. /\ n \in TransactionRecord /\ n.status = "running"
      /\ n.activeTasks = {} /\ n.activeSpans = {} /\ n.managed
  BY <1>2, <1>3, FreshIs DEF Fresh
<1>5. /\ ~Cut /\ current' = t /\ Become(g) /\ Born(t, FALSE)
      /\ tr[t].status = "unused" /\ span[s].status = "unused" /\ UNCHANGED verdicts
  BY DEF StartTemporary, Cut
<1> HIDE DEF n
<1>6. /\ r \in TransactionRecord /\ r.status = "running" /\ r.managed
      /\ r.activeTasks \cap Spans \subseteq r.activeSpans
  <2>1. /\ r \in TransactionRecord /\ r.status = n.status
        /\ r.activeSpans = n.activeSpans \cup {s} /\ r.managed = n.managed
    BY <1>4, AdoptIs DEF SameIdentity
  <2>2. r.activeTasks \subseteq {s}
    BY <1>4 DEF Adopt, TransactionRecord
  <2> HIDE DEF r
  <2> QED BY <1>4, <2>1, <2>2
<1>7. /\ h \in HeapType /\ h.tr = [tr EXCEPT ![t] = n] /\ h.span = span
      /\ h.microtasks = microtasks
  <2>1. /\ h \in HeapType /\ h.tr = [Heap.tr EXCEPT ![t] = n]
        /\ h.span = Heap.span /\ h.microtasks = Heap.microtasks
    <3>1. Heap \in HeapType /\ n \in TransactionRecord
      BY <1>1, <1>4
    <3> QED BY <3>1, PutTransactionIs
  <2> HIDE DEF h
  <2> QED BY <1>1, <2>1
<1>8. h.tr[t] = n
  BY <1>1, <1>7
<1> HIDE DEF h
<1>9. Updated(h, g, t, r, [h.span EXCEPT ![s] = NewSpan(t)], FALSE)
  BY <1>7, <1>8, OpenSpanIs
<1> HIDE DEF g, r
<1>10. /\ tr' = [Heap.tr EXCEPT ![t] = r]
       /\ \A u \in Spans : \/ span'[u] = Heap.span[u]
                           \/ span[u].status = "unused" /\ span'[u] = NewSpan(t)
       /\ microtasks' = Heap.microtasks
  <2>1. /\ tr' = [h.tr EXCEPT ![t] = r] /\ microtasks' = h.microtasks
        /\ span' = [u \in Spans |-> [h.span EXCEPT ![s] = NewSpan(t)][u]]
    BY <1>5, <1>9 DEF Become, Updated
  <2>2. [h.tr EXCEPT ![t] = r] = [tr EXCEPT ![t] = r]
    BY <1>1, <1>7
  <2>3. \A u \in Spans : span'[u] = IF u = s THEN NewSpan(t) ELSE span[u]
    BY <1>1, <1>7, <2>1
  <2> QED BY <1>1, <1>5, <1>7, <2>1, <2>2, <2>3
<1> QED BY <1>1, <1>2, <1>5, <1>6, <1>10, BeginsFrom

(* A reuse redefines the current transaction and keeps what holds it. *)
LEMMA ReuseRedefines ==
    ASSUME CInv, NEW c \in CallOptions, StartManagedReuse(c)
    PROVE  ARedefine
<1> DEFINE r == tr[current]
           type == RedefinedType(r.type, c.type)
           d == Redefine(r, type, c)
           q == Manage(d)
<1>1. /\ HeapOK(Heap) /\ Heap \in HeapType
      /\ Heap.tr = tr /\ Heap.span = span /\ Heap.microtasks = microtasks
      /\ tr \in [Transactions -> TransactionRecord]
  BY HeapIs
<1>2. /\ current \in Transactions /\ r \in TransactionRecord /\ r.status = "running"
  <2>1. /\ current \in Transactions /\ tr[current].status # "ended"
        /\ tr[current].status # "unused"
    BY <1>1 DEF StartManagedReuse, HasCurrent, CInv, IInv, TypeOK, HeapInv
  <2> QED BY <1>1, <2>1 DEF TransactionRecord
<1>3. /\ Become(PutTransaction(Heap, current, q)) /\ c.managed
      /\ UNCHANGED <<current, pageVars, verdicts, history>>
  BY DEF StartManagedReuse
<1>4. type \in Types
  BY <1>2, RedefinedTypeType DEF TransactionRecord, CallOptions
<1> HIDE DEF r, type
<1>5. /\ d \in TransactionRecord /\ d.status = "running" /\ d.managed
      /\ d.activeSpans = r.activeSpans
  BY <1>2, <1>3, <1>4, RedefineIs
<1>6. d.activeTasks = r.activeTasks /\ (d.blocked <=> r.blocked)
  BY <1>2 DEF Redefine, TransactionRecord
<1> HIDE DEF d
<1>7. /\ q \in TransactionRecord /\ q.status = "running" /\ q.managed
      /\ q.activeSpans = r.activeSpans
  BY <1>5, ManageIs
<1>8. q.activeTasks = r.activeTasks /\ (q.blocked <=> r.blocked)
  BY <1>5, <1>6 DEF Manage, TransactionRecord
<1> HIDE DEF q
<1>9. tr' = [tr EXCEPT ![current] = q] /\ span' = span /\ microtasks' = microtasks
  <2> DEFINE g == PutTransaction(Heap, current, q)
  <2>1. /\ g.tr = [Heap.tr EXCEPT ![current] = q]
        /\ g.span = Heap.span /\ g.microtasks = Heap.microtasks
    BY <1>1, <1>2, <1>7, PutTransactionIs
  <2> HIDE DEF g
  <2> QED BY <1>1, <1>3, <2>1 DEF Become, g
<1>10. tr'[current] = q /\ \A u \in Transactions \ {current} : tr'[u] = tr[u]
  BY <1>1, <1>2, <1>9
<1> QED BY <1>2, <1>3, <1>7, <1>8, <1>9, <1>10 DEF ARedefine, Running, r

-----------------------------------------------------------------------------
(* Every step is one of these; all others leave the objects alone *)

AStep ==
    \/ \E t \in Transactions : ALawfulCall(t) \/ ABegin(t)
    \/ ARedefine
    \/ /\ UNCHANGED <<tr, span, current>>
       /\ \/ \E ignore : Settle(ignore)
          \/ Hide
          \/ UNCHANGED <<microtasks, verdicts, exposed>>

(* No step of the service is of another kind. *)
LEMMA StepIs ==
    ASSUME CInv, [Next]_vars
    PROVE  AStep
<1>1. CASE StartTransaction
  <2>1. PICK c \in StartCalls :
           \/ StartManagedReuse(c)
           \/ \E t \in Transactions, sampled \in SampledOutcomes :
                 \/ StartManagedNew(c, t, sampled)
                 \/ StartManagedReplace(c, t, sampled)
                 \/ StartUnmanaged(c, t, sampled)
    BY <1>1 DEF StartTransaction
  <2>2. c \in CallOptions
    BY ConstantsAssumption
  <2>3. CASE StartManagedReuse(c)
    BY <2>2, <2>3, ReuseRedefines DEF AStep
  <2>4. CASE \E t \in Transactions, sampled \in SampledOutcomes :
                 \/ StartManagedNew(c, t, sampled)
                 \/ StartManagedReplace(c, t, sampled)
                 \/ StartUnmanaged(c, t, sampled)
    BY <2>2, <2>4, StartBegins DEF AStep
  <2> QED BY <2>1, <2>3, <2>4
<1>2. CASE \E s \in Spans, blocking \in BOOLEAN, t \in Transactions :
              \E sampled \in SampledOutcomes : StartTemporary(s, blocking, t, sampled)
  BY <1>2, TemporaryBegins DEF AStep
<1>3. ASSUME NEW s \in Spans,
             \/ \E t \in Transactions, blocking \in BOOLEAN : StartSpan(t, s, blocking)
             \/ EndSpan(s)
      PROVE  AStep
  <2>1. \/ \E t \in Transactions : ALawfulCall(t)
        \/ Heap' = Heap /\ UNCHANGED <<current, pageVars, verdicts, history>>
    BY <1>3, SpanCallIsLawful
  <2>2. Heap' = Heap => UNCHANGED <<tr, span, microtasks>>
    BY DEF Heap
  <2> QED BY <2>1, <2>2 DEF AStep, history
<1>4. CASE \E t \in Transactions :
              \/ EndTransaction(t)
              \/ \E k \in Tasks : AddTask(t, k) \/ RemoveTask(t, k)
              \/ \E flag \in BOOLEAN : Block(t, flag)
              \/ CallDetectFinish(t)
  BY <1>4, TransactionCallIsLawful DEF AStep
<1>5. CASE \E e \in EntryTypes : ObserveEntries(e)
  BY <1>5, ObserveIsLawful DEF AStep
<1>6. CASE RunMicrotask
  BY <1>6 DEF AStep, RunMicrotask, Settle
<1>7. CASE Hide \/ Show \/ Tick \/ UNCHANGED vars
  BY <1>7 DEF AStep, Hide, Show, Tick, vars, heapVars, verdicts, history
<1> QED BY <1>1, <1>2, <1>3, <1>4, <1>5, <1>6, <1>7 DEF Next, Call

-----------------------------------------------------------------------------
(* The second invariant *)

(* A lawful call keeps what Held says. *)
LEMMA LawfulKeepsHeap ==
    ASSUME NEW h \in HeapType, Held(h), NEW t \in Transactions,
           h.tr[t].status # "unused",
           NEW q, NEW S, NEW ends, Lawful(h, t, q, S, ends),
           NEW g, Updated(h, g, t, q, S, ends)
    PROVE  /\ Held(g)
           /\ g.tr[t].status # "unused" /\ SameIdentity(g.tr[t], h.tr[t])
           /\ \A u \in Transactions \ {t} : g.tr[u] = h.tr[u]
<1>1. /\ h.tr \in [Transactions -> TransactionRecord]
      /\ h.span \in [Spans -> SpanRecord]
  BY DEF HeapType
<1> DEFINE r == h.tr[t]
           p == IF ends THEN Close(q) ELSE q
<1>4. /\ q \in TransactionRecord /\ S \in [Spans -> SpanRecord]
      /\ q.activeTasks \cap Spans \subseteq q.activeSpans
      /\ SameIdentity(q, r) /\ q.status = r.status /\ r.status # "unused"
      /\ \A s \in Spans : \/ S[s] = h.span[s]
                          \/ h.span[s].status = "running" /\ S[s] = Finished(h.span[s])
                          \/ S[s] = NewSpan(t)
  BY DEF Lawful
<1>5. /\ g.tr = [h.tr EXCEPT ![t] = p]
      /\ \A s \in Spans : g.span[s] = S[s] \/ g.span[s] = Truncate(S[s])
  BY DEF Updated
<1>6. g.tr[t] = p /\ \A u \in Transactions \ {t} : g.tr[u] = h.tr[u]
  BY <1>1, <1>5
<1>7. /\ p.activeTasks \cap Spans \subseteq p.activeSpans
      /\ SameIdentity(p, r) /\ p.status # "unused"
  <2>1. CASE ends
    <3>1. Close(q).activeTasks = q.activeTasks \ q.activeSpans
      BY <1>4 DEF Close, TransactionRecord
    <3>2. SameIdentity(Close(q), q) /\ Close(q).status = "ended"
      BY <1>4, CloseIs
    <3> QED BY <1>4, <2>1, <3>1, <3>2 DEF SameIdentity
  <2>2. CASE ~ends
    BY <1>4, <2>2
  <2> QED BY <2>1, <2>2
<1> HIDE DEF p
<1>8. \A s \in Spans :
         /\ g.span[s].status = "running" => ~g.span[s].truncated
         /\ g.span[s].status = "unused" => g.span[s].transaction = NoTransaction
  <2> TAKE s \in Spans
  <2>1. /\ h.span[s].status = "running" => ~h.span[s].truncated
        /\ h.span[s].status = "unused" => h.span[s].transaction = NoTransaction
        /\ h.span[s] \in SpanRecord /\ S[s] \in SpanRecord
    BY <1>1, <1>4 DEF Held
  <2>2. CASE g.span[s] = Truncate(S[s])
    BY <2>1, <2>2, TruncateIs
  <2>3. CASE g.span[s] = S[s]
    <3>1. CASE S[s] = h.span[s]
      BY <2>1, <2>3, <3>1
    <3>2. CASE S[s] = Finished(h.span[s])
      BY <2>1, <2>3, <3>2, FinishedIs
    <3>3. CASE S[s] = NewSpan(t)
      BY <2>3, <3>3 DEF NewSpan
    <3> QED BY <1>4, <3>1, <3>2, <3>3
  <2> QED BY <1>5, <2>2, <2>3
<1>9. Held(g)
  <2>1. \A u \in Transactions : g.tr[u].activeTasks \cap Spans \subseteq g.tr[u].activeSpans
    BY <1>1, <1>6, <1>7 DEF Held
  <2> QED BY <1>8, <2>1 DEF Held
<1> QED BY <1>6, <1>7, <1>9

(* The same of a step that is one. *)
LEMMA LawfulKeepsHeld ==
    ASSUME CInv, NEW t \in Transactions, ALawfulCall(t)
    PROVE  /\ Held(Heap)' /\ tr'[t].status # "unused"
           /\ SameIdentity(tr'[t], tr[t])
           /\ \A u \in Transactions \ {t} : tr'[u] = tr[u]
<1>1. PICK q, S, ends : Lawful(Heap, t, q, S, ends) /\ Updated(Heap, Heap', t, q, S, ends)
  BY DEF ALawfulCall
<1>2. /\ Heap \in HeapType /\ Held(Heap) /\ Heap.tr = tr /\ tr[t].status # "unused"
      /\ Heap'.tr = tr'
  BY HeapIs DEF Heap, ALawfulCall
<1>3. PICK g : g = Heap'
  OBVIOUS
<1>4. /\ Held(g) /\ g.tr[t].status # "unused" /\ SameIdentity(g.tr[t], Heap.tr[t])
      /\ \A u \in Transactions \ {t} : g.tr[u] = Heap.tr[u]
  BY <1>1, <1>2, <1>3, LawfulKeepsHeap
<1>5. Held(Heap)'
  BY <1>3, <1>4 DEF Held
<1> QED BY <1>2, <1>3, <1>4, <1>5

(* So does the start of a transaction. *)
LEMMA BeginKeepsHeld ==
    ASSUME CInv, NEW t \in Transactions, ABegin(t)
    PROVE  Held(Heap)'
<1>1. /\ Held(Heap) /\ Heap.tr = tr /\ Heap.span = span
      /\ tr \in [Transactions -> TransactionRecord]
      /\ span \in [Spans -> SpanRecord]
  BY HeapIs
<1>2. /\ Heap'.tr = tr' /\ Heap'.span = span'
  BY DEF Heap
<1>3. ASSUME NEW u \in Transactions
      PROVE  tr'[u].activeTasks \cap Spans \subseteq tr'[u].activeSpans
  <2>1. CASE u = t
    BY <2>1 DEF ABegin
  <2>2. CASE u # t
    <3>1. tr[u].activeTasks \cap Spans \subseteq tr[u].activeSpans
      BY <1>1 DEF Held
    <3>2. Close(tr[u]).activeTasks = tr[u].activeTasks \ tr[u].activeSpans
      BY <1>1 DEF Close, TransactionRecord
    <3>3. tr'[u] = Close(tr[u]) \/ tr'[u] = tr[u]
      BY <2>2 DEF ABegin
    <3> QED BY <3>1, <3>2, <3>3
  <2> QED BY <2>1, <2>2
<1>4. ASSUME NEW s \in Spans
      PROVE  /\ span'[s].status = "running" => ~span'[s].truncated
             /\ span'[s].status = "unused" => span'[s].transaction = NoTransaction
  <2>1. /\ span[s].status = "running" => ~span[s].truncated
        /\ span[s].status = "unused" => span[s].transaction = NoTransaction
        /\ span[s] \in SpanRecord
    BY <1>1 DEF Held
  <2>2. span'[s] \in {span[s], Truncate(span[s]), NewSpan(t)}
    BY DEF ABegin
  <2> QED BY <2>1, <2>2, TruncateIs DEF NewSpan
<1> QED BY <1>2, <1>3, <1>4 DEF Held

(* Every kind of step keeps the second invariant. *)
LEMMA StepKeepsCInv ==
    ASSUME CInv, IInv', AStep
    PROVE  CInv'
<1>1. /\ Held(Heap) /\ Heap.tr = tr /\ Heap.span = span
      /\ tr \in [Transactions -> TransactionRecord]
      /\ Heap'.tr = tr' /\ Heap'.span = span'
      /\ exposed \in [Transactions -> BOOLEAN]
      /\ current \in Transactions \cup {NoTransaction}
      /\ (current # NoTransaction => tr[current].status # "unused" /\ tr[current].managed)
      /\ \A t \in Transactions : tr[t].status = "unused" => ~exposed[t]
  BY HeapIs DEF Heap, CInv, IInv, TypeOK, HeapInv
<1>2. ASSUME NEW t \in Transactions, ALawfulCall(t)
      PROVE  CInv'
  <2>1. /\ Held(Heap)' /\ (tr'[t].managed <=> tr[t].managed) /\ tr'[t].status # "unused"
        /\ \A u \in Transactions \ {t} : tr'[u] = tr[u]
    BY <1>2, LawfulKeepsHeld DEF SameIdentity
  <2>2. current' = current /\ exposed' = exposed
    BY <1>2 DEF ALawfulCall, history
  <2> QED BY <1>1, <2>1, <2>2 DEF CInv
<1>3. ASSUME NEW t \in Transactions, ABegin(t)
      PROVE  CInv'
  <2>1. Held(Heap)'
    BY <1>3, BeginKeepsHeld
  <2>2. /\ tr'[t].status = "running" /\ tr[t].status = "unused" /\ t # NoTransaction
        /\ \A u \in Transactions \ {t} : exposed'[u] = exposed[u]
        /\ \A u \in Transactions \ {t} :
              tr'[u] = IF Cut /\ u = current THEN Close(tr[u]) ELSE tr[u]
        /\ IF tr'[t].managed THEN current' = t ELSE current' = current
    BY <1>3 DEF ABegin
  <2>3. \A u \in Transactions : Close(tr[u]).status = "ended"
    BY <1>1, CloseIs
  <2>4. current' # NoTransaction => tr'[current'].managed
    BY <1>1, <2>2 DEF Cut
  <2>5. \A u \in Transactions : tr'[u].status = "unused" => ~exposed'[u]
    BY <1>1, <2>2, <2>3
  <2> QED BY <2>1, <2>4, <2>5 DEF CInv
<1>4. CASE ARedefine
  <2>1. /\ current \in Transactions /\ tr'[current].managed
        /\ tr'[current].status = "running"
        /\ tr'[current].activeTasks = tr[current].activeTasks
        /\ tr'[current].activeSpans = tr[current].activeSpans
        /\ \A u \in Transactions \ {current} : tr'[u] = tr[u]
        /\ span' = span /\ current' = current /\ exposed' = exposed
    BY <1>4 DEF ARedefine, history
  <2>2. Held(Heap)'
    BY <1>1, <2>1 DEF Held
  <2> QED BY <1>1, <2>1, <2>2 DEF CInv
<1>5. CASE UNCHANGED <<tr, span, current>> /\ ~Hide /\ exposed' = exposed
  BY <1>1, <1>5 DEF Held, CInv
<1>6. CASE UNCHANGED <<tr, span, current>> /\ Hide
  <2>1. \A t \in Transactions : exposed'[t] = (exposed[t] \/ Running(t))
    BY <1>6 DEF Hide
  <2> QED BY <1>1, <1>6, <2>1 DEF Held, CInv, Running
<1> QED BY <1>2, <1>3, <1>4, <1>5, <1>6 DEF AStep, Settle, history

(* It holds when the agent is loaded. *)
LEMMA CallInitInv == Init => CInv
<1> SUFFICES ASSUME Init PROVE CInv
  OBVIOUS
<1>1. IInv
  BY InitInv
<1>2. Heap.tr = tr /\ Heap.span = span
  BY DEF Heap
<1>3. Held(Heap)
  BY <1>2 DEF Init, Held
<1>4. /\ current # NoTransaction => tr[current].managed
      /\ \A t \in Transactions : tr[t].status = "unused" => ~exposed[t]
  BY DEF Init
<1> QED BY <1>1, <1>3, <1>4 DEF CInv

(* The second invariant holds in every reachable state. *)
THEOREM CallInvariance == Spec => []CInv
<1>1. Init => CInv
  BY CallInitInv
<1>2. CInv /\ [Next]_vars => CInv'
  <2> SUFFICES ASSUME CInv, [Next]_vars PROVE CInv'
    OBVIOUS
  <2>1. IInv'
    BY NextKeepsInv DEF CInv
  <2> QED BY <2>1, StepIs, StepKeepsCInv
<1> QED BY <1>1, <1>2, PTL DEF Spec

-----------------------------------------------------------------------------
(* What a step may never do *)

(* A step that takes away the last thing that holds a running transaction   *)
(* ends it (transaction.js:125).                                            *)
LEMMA FinishNoticed ==
    ASSUME CInv, AStep
    PROVE  FinishIsNoticed
<1>1. /\ Heap.tr = tr /\ tr \in [Transactions -> TransactionRecord]
      /\ Heap'.tr = tr'
  BY HeapIs DEF Heap
<1> SUFFICES ASSUME NEW u \in Transactions, tr[u].status = "running",
                    ~IsFinished(tr[u]), IsFinished(tr'[u])
             PROVE  tr'[u].status = "ended"
  BY DEF FinishIsNoticed, Running
<1>2. ASSUME NEW t \in Transactions, ALawfulCall(t)
      PROVE  tr'[u].status = "ended"
  <2>1. PICK q, S, ends : Lawful(Heap, t, q, S, ends) /\ Updated(Heap, Heap', t, q, S, ends)
    BY <1>2 DEF ALawfulCall
  <2>2. tr'[u] = IF u = t THEN IF ends THEN Close(q) ELSE q ELSE tr[u]
    BY <1>1, <2>1 DEF Updated
  <2>3. CASE u = t /\ ends
    BY <2>1, <2>2, <2>3, CloseIs DEF Lawful
  <2>4. CASE u = t /\ ~ends
    BY <1>1, <2>1, <2>2, <2>4 DEF Lawful
  <2> QED BY <2>2, <2>3, <2>4
<1>3. ASSUME NEW t \in Transactions, ABegin(t)
      PROVE  tr'[u].status = "ended"
  <2>1. u # t /\ tr'[u] # tr[u]
    BY <1>3 DEF ABegin
  <2>2. tr'[u] = Close(tr[u])
    BY <1>3, <2>1 DEF ABegin
  <2> QED BY <1>1, <2>2, CloseIs
<1>4. CASE ARedefine
  BY <1>4 DEF ARedefine, IsFinished
<1> QED BY <1>2, <1>3, <1>4 DEF AStep

(* The spans of a heap belong to the transactions that list them *)
LEMMA ActiveIs ==
    ASSUME CInv, NEW s \in Spans, NEW t \in Transactions
    PROVE  /\ s \in tr[t].activeSpans <=>
                span[s].status = "running" /\ span[s].transaction = t
           /\ s \in tr[t].activeTasks => s \in tr[t].activeSpans
           /\ span[s].status = "running" => ~span[s].truncated
           /\ span[s].status = "unused" => span[s].transaction = NoTransaction
BY HeapIs DEF HeapOK, SpansOK, Held

(* A span that holds its transaction is cut off only by the end of the      *)
(* transaction itself (transaction.js:141).                                 *)
LEMMA CutOff ==
    ASSUME CInv, AStep
    PROVE  CutOffOnlyExplicitly
<1>1. /\ Heap.tr = tr /\ tr \in [Transactions -> TransactionRecord]
      /\ Heap.span = span /\ span \in [Spans -> SpanRecord]
      /\ Heap'.tr = tr' /\ Heap'.span = span'
  BY HeapIs DEF Heap
<1> SUFFICES ASSUME NEW s \in Spans, NEW u \in Transactions,
                    span[s].status = "running", s \in tr[u].activeTasks,
                    span'[s].truncated
             PROVE  EndTransaction(u) \/ (u = current /\ current' # current)
  BY DEF CutOffOnlyExplicitly
<1>2. /\ span[s].transaction = u /\ ~span[s].truncated
      /\ \A t \in Transactions : s \in tr[t].activeSpans => t = u
  BY ActiveIs
<1>3. ASSUME NEW t \in Transactions, ALawfulCall(t)
      PROVE  EndTransaction(u)
  <2>1. PICK q, S, ends : /\ Lawful(Heap, t, q, S, ends)
                          /\ Updated(Heap, Heap', t, q, S, ends)
                          /\ Gentle(Heap, t, q, ends) \/ EndTransaction(t)
    BY <1>3 DEF ALawfulCall
  <2>2. /\ span'[s] = IF ends /\ s \in q.activeSpans THEN Truncate(S[s]) ELSE S[s]
        /\ ends => q.activeSpans \subseteq tr[t].activeSpans
        /\ \/ S[s] = span[s]
           \/ span[s].transaction = t /\ S[s] = Finished(span[s])
    BY <1>1, <2>1 DEF Updated, Lawful
  <2>3. ~Finished(span[s]).truncated
    BY <1>1, <1>2 DEF Finished, SpanRecord
  <2>4. ends /\ s \in q.activeSpans /\ t = u
    BY <1>2, <2>2, <2>3
  <2>5. ~Gentle(Heap, t, q, ends)
    BY <1>1, <2>4 DEF Gentle
  <2> QED BY <2>1, <2>4, <2>5
<1>4. ASSUME NEW t \in Transactions, ABegin(t)
      PROVE  u = current /\ current' # current
  <2>1. Cut /\ s \in tr[current].activeSpans
    BY <1>2, <1>4 DEF ABegin
  <2>2. current \in Transactions
    BY <2>1 DEF Cut, HasCurrent, CInv, IInv, TypeOK
  <2> QED BY <1>2, <2>1, <2>2 DEF Cut
<1> QED BY <1>2, <1>3, <1>4 DEF AStep, ARedefine

(* An ended transaction and its spans are what they were but for its tasks *)
EndedAsWas ==
    \A t \in Transactions :
        tr[t].status = "ended" =>
          /\ SameButTasks(tr'[t], tr[t])
          /\ \A s \in Spans : span[s].transaction = t => span'[s] = span[s]

(* Nothing a step does reaches them (transaction.js:133, span-base.js:83). *)
LEMMA EndedStay ==
    ASSUME CInv, AStep
    PROVE  EndedAsWas
<1>1. /\ Heap.tr = tr /\ tr \in [Transactions -> TransactionRecord]
      /\ Heap.span = span /\ span \in [Spans -> SpanRecord]
      /\ Heap'.tr = tr' /\ Heap'.span = span'
  BY HeapIs DEF Heap
<1> SUFFICES ASSUME NEW u \in Transactions, tr[u].status = "ended"
             PROVE  /\ SameButTasks(tr'[u], tr[u])
                    /\ \A s \in Spans : span[s].transaction = u => span'[s] = span[s]
  BY DEF EndedAsWas
<1>2. SameButTasks(tr[u], tr[u])
  BY <1>1 DEF SameButTasks, TransactionRecord
<1>3. u # NoTransaction
  BY ConstantsAssumption
<1>4. ASSUME NEW t \in Transactions, ALawfulCall(t)
      PROVE  /\ SameButTasks(tr'[u], tr[u])
             /\ \A s \in Spans : span[s].transaction = u => span'[s] = span[s]
  <2>1. PICK q, S, ends : /\ Lawful(Heap, t, q, S, ends)
                          /\ Updated(Heap, Heap', t, q, S, ends)
    BY <1>4 DEF ALawfulCall
  <2>2. /\ tr'[u] = IF u = t THEN IF ends THEN Close(q) ELSE q ELSE tr[u]
        /\ \A s \in Spans :
              span'[s] = IF ends /\ s \in q.activeSpans THEN Truncate(S[s]) ELSE S[s]
    BY <1>1, <2>1 DEF Updated
  <2>3. CASE u = t
    <3>1. ~ends /\ S = span /\ SameButTasks(q, tr[u])
      BY <1>1, <2>1, <2>3 DEF Lawful, SameButTasks
    <3> QED BY <2>2, <2>3, <3>1
  <2>4. CASE u # t
    <3>1. ASSUME NEW s \in Spans, span[s].transaction = u
          PROVE  span'[s] = span[s]
      <4>1. S[s] = span[s]
        BY <1>1, <1>3, <2>1, <2>4, <3>1, ActiveIs DEF Lawful
      <4>2. ends => s \notin q.activeSpans
        <5>1. ends => q.activeSpans \subseteq tr[t].activeSpans
          BY <1>1, <2>1 DEF Lawful
        <5> QED BY <2>4, <3>1, <5>1, ActiveIs
      <4> QED BY <2>2, <4>1, <4>2
    <3> QED BY <1>2, <2>2, <2>4, <3>1
  <2> QED BY <2>3, <2>4
<1>5. ASSUME NEW t \in Transactions, ABegin(t)
      PROVE  /\ SameButTasks(tr'[u], tr[u])
             /\ \A s \in Spans : span[s].transaction = u => span'[s] = span[s]
  <2>1. u # t /\ (Cut => u # current)
    BY <1>5 DEF ABegin, Cut, HasCurrent
  <2>2. tr'[u] = tr[u]
    BY <1>5, <2>1 DEF ABegin
  <2>3. ASSUME NEW s \in Spans, span[s].transaction = u
        PROVE  span'[s] = span[s]
    <3>1. span[s].status # "unused"
      BY <1>3, <2>3, ActiveIs
    <3>2. Cut => current \in Transactions
      BY DEF Cut, HasCurrent, CInv, IInv, TypeOK
    <3>3. ~(Cut /\ s \in tr[current].activeSpans)
      BY <2>1, <2>3, <3>2, ActiveIs
    <3> QED BY <1>5, <3>1, <3>3 DEF ABegin
  <2> QED BY <1>2, <2>2, <2>3
<1>6. CASE ARedefine
  <2>1. u # current
    BY <1>6 DEF ARedefine, Running
  <2> QED BY <1>2, <1>6, <2>1 DEF ARedefine
<1>7. CASE UNCHANGED <<tr, span>>
  BY <1>2, <1>7
<1> QED BY <1>4, <1>5, <1>6, <1>7 DEF AStep

(* No span joins it either: startSpan looks at ended (transaction.js:92). *)
LEMMA Closed ==
    ASSUME CInv, AStep
    PROVE  StaysClosed
<1>1. /\ Heap.tr = tr /\ tr \in [Transactions -> TransactionRecord]
      /\ Heap.span = span /\ span \in [Spans -> SpanRecord]
      /\ Heap'.tr = tr' /\ Heap'.span = span'
  BY HeapIs DEF Heap
<1> SUFFICES ASSUME NEW u \in Transactions, tr[u].status = "ended"
             PROVE  /\ tr'[u].status = "ended" /\ tr'[u].activeSpans = {}
                    /\ tr'[u].timings = tr[u].timings
                    /\ tr'[u].managed = tr[u].managed /\ tr'[u].canReuse = tr[u].canReuse
                    /\ tr'[u].reuseThreshold = tr[u].reuseThreshold
                    /\ \A s \in Spans :
                          span[s].transaction = u \/ span'[s].transaction = u
                            => span'[s] = span[s]
  BY DEF StaysClosed
<1>2. /\ SameButTasks(tr'[u], tr[u])
      /\ \A s \in Spans : span[s].transaction = u => span'[s] = span[s]
  BY EndedStay DEF EndedAsWas
<1>3. tr[u] \in TransactionRecord /\ tr[u].activeSpans = {}
  BY <1>1, HeapIs DEF HeapOK, SpansOK
<1>4. /\ tr'[u].status = "ended" /\ tr'[u].activeSpans = {}
      /\ tr'[u].timings = tr[u].timings
      /\ tr'[u].managed = tr[u].managed /\ tr'[u].canReuse = tr[u].canReuse
      /\ tr'[u].reuseThreshold = tr[u].reuseThreshold
  BY <1>2, <1>3 DEF SameButTasks, TransactionRecord
<1>5. ASSUME NEW s \in Spans, span'[s].transaction = u
      PROVE  span'[s] = span[s]
  <2>1. \A x \in SpanRecord : /\ Truncate(x).transaction = x.transaction
                              /\ Finished(x).transaction = x.transaction
    BY DEF Truncate, Finished, SpanRecord
  <2>2. span[s] \in SpanRecord
    BY <1>1
  <2>3. \A t : NewSpan(t).transaction = t
    BY DEF NewSpan
  <2>4. ASSUME NEW t \in Transactions, ALawfulCall(t)
        PROVE  span[s].transaction = u \/ span'[s] = span[s]
    <3>1. PICK q, S, ends : /\ Lawful(Heap, t, q, S, ends)
                            /\ Updated(Heap, Heap', t, q, S, ends)
      BY <2>4 DEF ALawfulCall
    <3>2. /\ span'[s] = IF ends /\ s \in q.activeSpans THEN Truncate(S[s]) ELSE S[s]
          /\ S[s] \in SpanRecord
      BY <1>1, <3>1 DEF Updated, Lawful
    <3>3. S[s].transaction = u
      BY <1>5, <2>1, <3>2
    <3>4. \/ S[s] = span[s]
          \/ span[s].transaction = t /\ S[s] = Finished(span[s])
          \/ S[s] = NewSpan(t)
      BY <1>1, <3>1 DEF Lawful
    <3>5. CASE S[s] = span[s]
      BY <3>3, <3>5
    <3>6. CASE S[s] = Finished(span[s])
      BY <2>1, <2>2, <3>3, <3>6
    <3>7. CASE S[s] = NewSpan(t)
      <4>1. u = t
        BY <2>3, <3>3, <3>7
      <4>2. ~ends /\ S = span
        BY <1>1, <3>1, <4>1 DEF Lawful
      <4> QED BY <3>2, <4>2
    <3> QED BY <3>4, <3>5, <3>6, <3>7
  <2>5. ASSUME NEW t \in Transactions, ABegin(t)
        PROVE  span[s].transaction = u \/ span'[s] = span[s]
    <3>1. u # t
      BY <2>5 DEF ABegin
    <3>2. span'[s] \in {Truncate(span[s]), span[s], NewSpan(t)}
      BY <2>5 DEF ABegin
    <3> QED BY <1>5, <2>1, <2>2, <2>3, <3>1, <3>2
  <2>6. span[s].transaction = u \/ span'[s] = span[s]
    BY <2>4, <2>5 DEF AStep, ARedefine
  <2> QED BY <1>2, <2>6
<1> QED BY <1>2, <1>4, <1>5

(* No step forgets a transaction that nothing holds any more, whatever      *)
(* tasks, blocks and spans were nested around it.                           *)
THEOREM NoForgottenFinishHolds == Spec => NoForgottenFinish
<1>1. CInv /\ [Next]_vars => [FinishIsNoticed]_vars
  BY StepIs, FinishNoticed
<1> QED BY <1>1, CallInvariance, PTL DEF Spec, NoForgottenFinish

(* A blocking span is cut off only by an explicit end or a replacement. *)
THEOREM BlockingSpanHoldsAlways == Spec => BlockingSpanHolds
<1>1. CInv /\ [Next]_vars => [CutOffOnlyExplicitly]_vars
  BY StepIs, CutOff
<1> QED BY <1>1, CallInvariance, PTL DEF Spec, BlockingSpanHolds

(* No late call reopens an ended transaction or adds to what it recorded. *)
THEOREM ClosedAfterEndHolds == Spec => ClosedAfterEnd
<1>1. CInv /\ [Next]_vars => [StaysClosed]_vars
  BY StepIs, Closed
<1> QED BY <1>1, CallInvariance, PTL DEF Spec, ClosedAfterEnd

(* A managed transaction that was started *)
Known(t) == t \in Transactions /\ tr[t].status # "unused" /\ tr[t].managed

(* A known transaction stays known, an ended one ended, and one that is     *)
(* held or ended is so after the step, too.                                 *)
LEMMA KnownStays ==
    ASSUME CInv, AStep, NEW t, Known(t)
    PROVE  /\ Known(t)'
           /\ tr[t].status = "ended" => tr'[t].status = "ended"
           /\ tr[t].status = "ended" \/ ~IsFinished(tr[t])
                => tr'[t].status = "ended" \/ ~IsFinished(tr'[t])
<1>1. /\ t \in Transactions /\ tr[t].status # "unused" /\ tr[t].managed
      /\ tr \in [Transactions -> TransactionRecord]
  BY HeapIs DEF Known
<1>2. tr'[t].status # "unused" /\ tr'[t].managed
  <2>1. ASSUME NEW u \in Transactions, ALawfulCall(u)
        PROVE  tr'[t].status # "unused" /\ tr'[t].managed
    BY <1>1, <2>1, LawfulKeepsHeld DEF SameIdentity
  <2>2. ASSUME NEW u \in Transactions, ABegin(u)
        PROVE  tr'[t].status # "unused" /\ tr'[t].managed
    <3>1. t # u
      BY <1>1, <2>2 DEF ABegin
    <3>2. tr'[t] = Close(tr[t]) \/ tr'[t] = tr[t]
      BY <1>1, <2>2, <3>1 DEF ABegin
    <3> QED BY <1>1, <3>2, CloseIs DEF SameIdentity
  <2>3. CASE ARedefine
    BY <1>1, <2>3 DEF ARedefine
  <2> QED BY <1>1, <2>1, <2>2, <2>3 DEF AStep
<1>3. tr[t].status = "ended" => tr'[t].status = "ended"
  <2>1. SUFFICES ASSUME tr[t].status = "ended" PROVE tr'[t].status = "ended"
    OBVIOUS
  <2>2. SameButTasks(tr'[t], tr[t])
    BY <1>1, <2>1, EndedStay DEF EndedAsWas, SameButTasks
  <2>3. tr[t] \in TransactionRecord
    BY <1>1
  <2> QED BY <2>1, <2>2, <2>3 DEF SameButTasks, TransactionRecord
<1>4. ASSUME tr[t].status # "ended", ~IsFinished(tr[t])
      PROVE  tr'[t].status = "ended" \/ ~IsFinished(tr'[t])
  <2>1. tr[t].status = "running"
    BY <1>1, <1>4 DEF TransactionRecord
  <2> QED BY <1>1, <1>4, <2>1, FinishNoticed DEF FinishIsNoticed, Running
<1> QED BY <1>1, <1>2, <1>3, <1>4 DEF Known

-----------------------------------------------------------------------------
(* The refinement of TransactionLifecycle *)

(* The abstract state *)
PhaseOf == [t \in Transactions |-> Phase(t)]
ManagedOnes == {t \in Transactions : tr[t].status # "unused" /\ tr[t].managed}
Tainted == {t \in Transactions : exposed[t]}

(* What the phase of a transaction is while it runs and at its end *)
LEMMA PhaseIs ==
    ASSUME CInv, NEW u \in Transactions
    PROVE  /\ Pending(u) <=> Occurs(u, microtasks)
           /\ Occurs(u, microtasks) => tr[u].status = "ended" /\ tr[u].onEnd
           /\ tr[u].status # "ended" => sent[u] = 0 /\ ~Occurs(u, microtasks)
           /\ Phase(u) = "running" <=> tr[u].status = "running"
           /\ Phase(u) = "unused" <=> tr[u].status = "unused"
           /\ Phase(u) = "ending" <=> Occurs(u, microtasks)
<1>1. /\ tr[u] \in TransactionRecord /\ sent[u] \in Nat
      /\ Heap.tr = tr /\ Heap.microtasks = microtasks
  BY HeapIs DEF CInv, IInv, TypeOK
<1>2. LET isEnded == tr[u].status = "ended" /\ tr[u].onEnd
      IN /\ Occurs(u, microtasks) => isEnded
         /\ SettledCount(u) = IF isEnded /\ ~Occurs(u, microtasks) THEN 1 ELSE 0
  BY <1>1 DEF CInv, IInv, HeapInv
<1>3. tr[u].status # "ended" => sent[u] = 0
  BY <1>1, <1>2 DEF SettledCount
<1>4. Pending(u) <=> Occurs(u, microtasks)
  BY DEF Pending, Occurs
<1>5. tr[u].status \in {"unused", "running", "ended"}
  BY <1>1 DEF TransactionRecord
<1> QED BY <1>2, <1>3, <1>4, <1>5 DEF Phase

(* A transaction whose status, place in the queue and verdict stay, stays   *)
(* in its phase.                                                            *)
LEMMA PhaseStays ==
    ASSUME NEW u \in Transactions, tr'[u].status = tr[u].status,
           Pending(u)' <=> Pending(u), sent'[u] = sent[u]
    PROVE  Phase(u)' = Phase(u)
BY DEF Phase

(* What queueing the ended transaction t, or none, does to the phases *)
LEMMA EndingPhases ==
    ASSUME CInv, NEW t \in Transactions, tr[t].status = "running",
           tr'[t].status = "ended", UNCHANGED verdicts,
           microtasks' = IF tr[t].onEnd THEN Append(microtasks, t) ELSE microtasks
    PROVE  /\ Phase(t)' = IF tr[t].onEnd THEN "ending" ELSE "discarded"
           /\ \A u \in Transactions \ {t} : Pending(u)' <=> Pending(u)
<1>1. /\ microtasks \in Seq(Transactions) /\ Distinct(microtasks)
      /\ ~Occurs(t, microtasks) /\ sent[t] = 0 /\ sent' = sent
  BY PhaseIs DEF CInv, IInv, TypeOK, HeapInv, Heap, verdicts
<1>2. \A u \in Transactions : Pending(u)' <=> Occurs(u, microtasks')
  BY DEF Pending, Occurs
<1>3. \A u \in Transactions : Pending(u) <=> Occurs(u, microtasks)
  BY DEF Pending, Occurs
<1>4. CASE tr[t].onEnd
  <2>1. \A u \in Transactions : Occurs(u, microtasks') <=> u = t \/ Occurs(u, microtasks)
    BY <1>1, <1>4, AppendOnce
  <2> QED BY <1>1, <1>2, <1>3, <1>4, <2>1 DEF Phase
<1>5. CASE ~tr[t].onEnd
  BY <1>1, <1>2, <1>3, <1>5 DEF Phase
<1> QED BY <1>4, <1>5

(* A call on a transaction ends it or is invisible *)
LEMMA LawfulRefines ==
    ASSUME CInv, NEW t \in Transactions, ALawfulCall(t)
    PROVE  [Lifecycle!Next]_(Lifecycle!vars)
<1>1. /\ Heap.tr = tr /\ tr \in [Transactions -> TransactionRecord]
      /\ Heap.microtasks = microtasks
      /\ Heap'.tr = tr' /\ Heap'.microtasks = microtasks'
  BY HeapIs DEF Heap
<1>2. PICK q, S, ends : Lawful(Heap, t, q, S, ends) /\ Updated(Heap, Heap', t, q, S, ends)
  BY DEF ALawfulCall
<1>3. /\ tr[t].status # "unused" /\ exposed' = exposed
      /\ UNCHANGED verdicts /\ sent' = sent
  BY DEF ALawfulCall, history, verdicts
<1>4. /\ \A u \in Transactions \ {t} : tr'[u] = tr[u]
      /\ tr'[t] = IF ends THEN Close(q) ELSE q
      /\ microtasks' = IF ends /\ q.onEnd THEN Append(microtasks, t) ELSE microtasks
      /\ q \in TransactionRecord /\ q.status = tr[t].status
      /\ SameIdentity(q, tr[t]) /\ (ends => tr[t].status = "running")
  BY <1>1, <1>2 DEF Updated, Lawful
<1>5. /\ (tr'[t].managed <=> tr[t].managed) /\ tr'[t].status # "unused"
      /\ (ends => tr'[t].status = "ended") /\ (~ends => tr'[t].status = tr[t].status)
      /\ (q.onEnd <=> tr[t].onEnd)
  BY <1>3, <1>4, CloseIs DEF SameIdentity
<1>6. ManagedOnes' = ManagedOnes /\ Tainted' = Tainted
  BY <1>3, <1>4, <1>5 DEF ManagedOnes, Tainted
<1>7. CASE ~ends
  <2>1. \A u \in Transactions : Pending(u)' <=> Pending(u)
    BY <1>4, <1>7 DEF Pending
  <2>2. \A u \in Transactions : Phase(u)' = Phase(u)
    BY <1>3, <1>4, <1>5, <1>7, <2>1, PhaseStays
  <2>3. PhaseOf' = PhaseOf
    BY <2>2 DEF PhaseOf
  <2> QED BY <1>6, <2>3 DEF PhaseOf, ManagedOnes, Tainted, Lifecycle!vars
<1>8. CASE ends
  <2>1. /\ Phase(t)' \in {"ending", "discarded"} /\ Phase(t) = "running"
        /\ \A u \in Transactions \ {t} : Pending(u)' <=> Pending(u)
    BY <1>3, <1>4, <1>5, <1>8, EndingPhases, PhaseIs
  <2>2. \A u \in Transactions \ {t} : Phase(u)' = Phase(u)
    BY <1>3, <1>4, <2>1, PhaseStays
  <2>3. /\ \E p \in {"ending", "discarded"} : PhaseOf' = [PhaseOf EXCEPT ![t] = p]
        /\ PhaseOf[t] = "running"
    BY <2>1, <2>2 DEF PhaseOf
  <2>4. Lifecycle!Finish(t)
    BY <1>6, <2>3 DEF PhaseOf, ManagedOnes, Tainted, Lifecycle!Finish
  <2> QED BY <2>4 DEF Lifecycle!Next
<1> QED BY <1>7, <1>8

(* The start of a transaction is one of the abstract starts; a managed one  *)
(* ends the managed one that runs.                                          *)
LEMMA BeginRefines ==
    ASSUME CInv, NEW t \in Transactions, ABegin(t)
    PROVE  Lifecycle!Next
<1>1. /\ tr \in [Transactions -> TransactionRecord]
      /\ current \in Transactions \cup {NoTransaction}
      /\ microtasks \in Seq(Transactions)
      /\ \A u \in Transactions : tr[u].status = "running" /\ tr[u].managed => u = current
      /\ current # NoTransaction => tr[current].managed /\ tr[current].status # "unused"
  BY HeapIs DEF CInv, IInv, TypeOK, HeapInv, Heap
<1>2. /\ t # NoTransaction /\ tr[t].status = "unused" /\ tr'[t].status = "running"
      /\ IF tr'[t].managed THEN current' = t ELSE current' = current
      /\ \A u \in Transactions \ {t} :
            tr'[u] = IF Cut /\ u = current THEN Close(tr[u]) ELSE tr[u]
      /\ microtasks' = IF Cut /\ tr[current].onEnd THEN Append(microtasks, current)
                                                   ELSE microtasks
      /\ exposed \in [Transactions -> BOOLEAN]
      /\ exposed' \in [Transactions -> BOOLEAN]
      /\ \A u \in Transactions \ {t} : exposed'[u] = exposed[u]
      /\ UNCHANGED verdicts /\ sent' = sent
  BY DEF ABegin, verdicts
<1>3. /\ PhaseOf[t] = "unused" /\ Phase(t)' = "running"
      /\ Tainted' \in {Tainted, Tainted \cup {t}}
  <2>1. Phase(t) = "unused"
    BY <1>2, PhaseIs
  <2>2. Tainted' = Tainted \/ Tainted' = Tainted \cup {t}
    <3>1. CASE exposed'[t]
      BY <1>2, <3>1 DEF Tainted
    <3>2. CASE ~exposed'[t]
      <4>1. t \notin Tainted
        BY <1>2 DEF CInv, Tainted
      <4> QED BY <1>2, <3>2, <4>1 DEF Tainted
    <3> QED BY <3>1, <3>2
  <2> QED BY <1>2, <2>1, <2>2 DEF PhaseOf, Phase
<1>4. CASE ~tr'[t].managed
  <2>1. ~Cut
    BY <1>2, <1>4 DEF Cut
  <2>2. \A u \in Transactions \ {t} : tr'[u] = tr[u]
    BY <1>2, <2>1
  <2>3. microtasks' = microtasks
    BY <1>2, <2>1
  <2>4. \A u \in Transactions \ {t} : Phase(u)' = Phase(u)
    <3>1. \A u \in Transactions \ {t} : Pending(u)' <=> Pending(u)
      BY <2>3 DEF Pending
    <3> QED BY <1>2, <2>2, <3>1, PhaseStays
  <2>5. PhaseOf' = [PhaseOf EXCEPT ![t] = "running"]
    BY <1>3, <2>4 DEF PhaseOf
  <2>6. ManagedOnes' = ManagedOnes
    BY <1>2, <1>4, <2>2 DEF ManagedOnes
  <2>7. Lifecycle!Start(t)
    BY <1>3, <2>5, <2>6
       DEF PhaseOf, ManagedOnes, Tainted, Lifecycle!Start, Lifecycle!Taint
  <2> QED BY <2>7 DEF Lifecycle!Next
<1>5. CASE tr'[t].managed
  <2> DEFINE p == IF Cut /\ ~tr[current].onEnd THEN "discarded" ELSE "ending"
  <2>1. ManagedOnes' = ManagedOnes \cup {t}
    <3>1. \A u \in Transactions :
             /\ Close(tr[u]).status = "ended"
             /\ (Close(tr[u]).managed <=> tr[u].managed)
      BY <1>1, CloseIs DEF SameIdentity
    <3>2. \A u \in Transactions \ {t} : u \in ManagedOnes' <=> u \in ManagedOnes
      <4> TAKE u \in Transactions \ {t}
      <4>1. CASE Cut /\ u = current
        <5>1. tr[u].status # "unused" /\ tr[u].managed
          BY <1>1, <4>1 DEF Cut, HasCurrent
        <5> QED BY <1>2, <3>1, <4>1, <5>1 DEF ManagedOnes
      <4>2. CASE ~(Cut /\ u = current)
        BY <1>2, <4>2 DEF ManagedOnes
      <4> QED BY <4>1, <4>2
    <3>3. t \in ManagedOnes'
      BY <1>2, <1>5 DEF ManagedOnes
    <3>4. ManagedOnes \subseteq Transactions /\ ManagedOnes' \subseteq Transactions
      BY DEF ManagedOnes
    <3> QED BY <3>2, <3>3, <3>4
  <2>2. ManagedOnes \cap {u \in Transactions : PhaseOf[u] = "running"}
          = IF Cut THEN {current} ELSE {}
    <3>1. \A u \in Transactions : PhaseOf[u] = "running" <=> tr[u].status = "running"
      BY PhaseIs DEF PhaseOf
    <3>2. CASE Cut
      <4>1. /\ current \in Transactions /\ tr[current].managed
            /\ tr[current].status = "running"
        <5>1. /\ current \in Transactions /\ tr[current].managed
              /\ tr[current].status # "ended" /\ tr[current].status # "unused"
          BY <1>1, <3>2 DEF Cut, HasCurrent
        <5> QED BY <1>1, <5>1 DEF TransactionRecord
      <4> QED BY <1>1, <3>1, <3>2, <4>1 DEF ManagedOnes
    <3>3. CASE ~Cut
      <4>1. ~HasCurrent
        <5>1. current # NoTransaction => current # t
          BY <1>1, <1>2
        <5> QED BY <1>2, <1>5, <3>3, <5>1 DEF Cut, HasCurrent
      <4>2. \A u \in ManagedOnes : tr[u].status # "running"
        <5>1. \A u \in Transactions : u = current => u # NoTransaction
          BY ConstantsAssumption
        <5> QED BY <1>1, <4>1, <5>1 DEF ManagedOnes, HasCurrent
      <4> QED BY <3>1, <3>3, <4>2 DEF ManagedOnes
    <3> QED BY <3>2, <3>3
  <2>3. \A u \in Transactions \ {t} :
           Phase(u)' = IF Cut /\ u = current THEN p ELSE Phase(u)
    <3>1. CASE Cut
      <4>0. PICK v \in Transactions : v = current
        BY <1>1, <3>1 DEF Cut, HasCurrent
      <4>1. v # t /\ tr[v].status = "running"
        <5>1. tr[v].status # "ended" /\ tr[v].status # "unused"
          BY <1>1, <3>1, <4>0 DEF Cut, HasCurrent
        <5> QED BY <1>1, <1>2, <5>1 DEF TransactionRecord
      <4>2. tr'[v].status = "ended"
        BY <1>1, <1>2, <3>1, <4>0, <4>1, CloseIs
      <4>3. /\ Phase(v)' = IF tr[v].onEnd THEN "ending" ELSE "discarded"
            /\ \A u \in Transactions \ {v} : Pending(u)' <=> Pending(u)
        BY <1>2, <3>1, <4>0, <4>1, <4>2, EndingPhases
      <4>4. \A u \in Transactions \ {t, v} : Phase(u)' = Phase(u)
        BY <1>2, <4>0, <4>3, PhaseStays
      <4> QED BY <3>1, <4>0, <4>3, <4>4
    <3>2. CASE ~Cut
      <4>1. \A u \in Transactions \ {t} : tr'[u] = tr[u] /\ (Pending(u)' <=> Pending(u))
        BY <1>2, <3>2 DEF Pending
      <4> QED BY <1>2, <3>2, <4>1, PhaseStays
    <3> QED BY <3>1, <3>2
  <2> HIDE DEF p
  <2>4. PhaseOf' = [u \in Transactions |->
                      IF u = t THEN "running"
                      ELSE IF u \in ManagedOnes \cap {v \in Transactions : PhaseOf[v] = "running"}
                           THEN p ELSE PhaseOf[u]]
    BY <1>3, <2>2, <2>3 DEF PhaseOf
  <2>5. p \in {"ending", "discarded"}
    BY DEF p
  <2>6. Lifecycle!StartManaged(t)
    BY <1>3, <2>1, <2>4, <2>5
       DEF PhaseOf, ManagedOnes, Tainted, Lifecycle!StartManaged, Lifecycle!Taint,
           Lifecycle!Running
  <2> QED BY <2>6 DEF Lifecycle!Next
<1> QED BY <1>4, <1>5

(* The microtask is the abstract verdict: it reports no transaction the     *)
(* page became hidden during (transaction-service.js:293).                  *)
LEMMA SettleRefines ==
    ASSUME CInv, NEW ignore, Settle(ignore)
    PROVE  Lifecycle!Next
<1>1. /\ microtasks \in Seq(Transactions) /\ microtasks # <<>> /\ Distinct(microtasks)
      /\ sent \in [Transactions -> Nat]
      /\ \A u \in Transactions :
            tr[u].status = "running" \/ Occurs(u, microtasks) =>
              (exposed[u] <=> lastHiddenStart >= tr[u].start)
  BY DEF CInv, IInv, TypeOK, HeapInv, Heap, Settle
<1>2. PICK t \in Transactions : t = Head(microtasks)
  BY <1>1, TailOnce
<1>3. /\ Occurs(t, microtasks)
      /\ \A u \in Transactions :
            Occurs(u, Tail(microtasks)) <=> u # t /\ Occurs(u, microtasks)
  BY <1>1, <1>2, TailOnce
<1>4. /\ microtasks' = Tail(microtasks) /\ UNCHANGED <<tr, exposed>>
      /\ \/ HiddenDuring(t) /\ sent' = sent
         \/ ~HiddenDuring(t) /\ (sent' = sent \/ sent' = [sent EXCEPT ![t] = @ + 1])
  BY <1>1, <1>2 DEF Settle, history
<1>5. /\ tr[t].status = "ended" /\ (HiddenDuring(t) <=> exposed[t])
      /\ Phase(t) = "ending"
  BY <1>1, <1>3, PhaseIs DEF HiddenDuring
<1>6. \A u \in Transactions : /\ Pending(u) <=> Occurs(u, microtasks)
                              /\ Pending(u)' <=> Occurs(u, microtasks')
  BY DEF Pending, Occurs
<1>7. \A u \in Transactions \ {t} : Phase(u)' = Phase(u)
  <2>1. \A u \in Transactions \ {t} : /\ sent'[u] = sent[u]
                                      /\ (Pending(u)' <=> Pending(u))
    BY <1>1, <1>3, <1>4, <1>6
  <2> QED BY <1>4, <2>1, PhaseStays
<1>8. Phase(t)' = IF sent'[t] > 0 THEN "reported" ELSE "discarded"
  BY <1>3, <1>4, <1>5, <1>6 DEF Phase
<1>9. \/ Phase(t)' = "discarded"
      \/ t \notin Tainted /\ Phase(t)' = "reported"
  <2>1. sent[t] = 0
    <3>1. SettledCount(t) = 0
      BY <1>3 DEF CInv, IInv, HeapInv, Heap
    <3> QED BY <1>1, <3>1 DEF SettledCount
  <2> QED BY <1>4, <1>5, <1>8, <2>1 DEF Tainted
<1>10. ManagedOnes' = ManagedOnes /\ Tainted' = Tainted /\ PhaseOf[t] = "ending"
  BY <1>4, <1>5 DEF ManagedOnes, Tainted, PhaseOf
<1>11. PhaseOf' = [PhaseOf EXCEPT ![t] = Phase(t)']
  BY <1>7 DEF PhaseOf
<1>12. Lifecycle!Settle(t)
  <2> DEFINE p == Phase(t)'
  <2>1. /\ PhaseOf' = [PhaseOf EXCEPT ![t] = p]
        /\ p = "discarded" \/ (t \notin Tainted /\ p = "reported")
    BY <1>9, <1>11
  <2> HIDE DEF p
  <2> QED BY <1>10, <2>1 DEF PhaseOf, ManagedOnes, Tainted, Lifecycle!Settle
<1> QED BY <1>12 DEF Lifecycle!Next

(* What leaves the status of the transactions, the queue and the verdicts   *)
(* leaves their phases                                                      *)
LEMMA PhasesStay ==
    ASSUME \A u \in Transactions : /\ tr'[u].status = tr[u].status
                                   /\ (tr'[u].managed <=> tr[u].managed),
           UNCHANGED <<microtasks, verdicts>>
    PROVE  PhaseOf' = PhaseOf /\ ManagedOnes' = ManagedOnes
<1>1. \A u \in Transactions : (Pending(u)' <=> Pending(u)) /\ sent'[u] = sent[u]
  BY DEF Pending, verdicts
<1>2. \A u \in Transactions : Phase(u)' = Phase(u)
  BY <1>1, PhaseStays
<1> QED BY <1>2 DEF PhaseOf, ManagedOnes

(* Every step of the service is an abstract step or invisible. *)
LEMMA StepRefines ==
    ASSUME CInv, AStep
    PROVE  [Lifecycle!Next]_(Lifecycle!vars)
<1>1. CASE ARedefine
  <2>1. \A u \in Transactions : /\ tr'[u].status = tr[u].status
                                /\ (tr'[u].managed <=> tr[u].managed)
    <3>1. current \in Transactions /\ tr[current].managed
      BY <1>1, ConstantsAssumption DEF ARedefine, CInv
    <3> QED BY <1>1, <3>1 DEF ARedefine, Running
  <2>2. /\ UNCHANGED <<microtasks, verdicts>> /\ exposed' = exposed
    BY <1>1 DEF ARedefine, history
  <2>3. PhaseOf' = PhaseOf /\ ManagedOnes' = ManagedOnes /\ Tainted' = Tainted
    BY <2>1, <2>2, PhasesStay DEF Tainted
  <2> QED BY <2>3 DEF PhaseOf, ManagedOnes, Tainted, Lifecycle!vars
<1>2. CASE Hide
  <2>1. /\ UNCHANGED <<tr, microtasks, verdicts>>
        /\ exposed' = [t \in Transactions |-> exposed[t] \/ Running(t)]
    BY <1>2 DEF Hide, heapVars
  <2>2. PhaseOf' = PhaseOf /\ ManagedOnes' = ManagedOnes
    BY <2>1, PhasesStay
  <2>3. Tainted' = Tainted \cup {t \in Transactions : PhaseOf[t] = "running"}
    <3>1. \A t \in Transactions : PhaseOf[t] = "running" <=> Running(t)
      BY PhaseIs DEF PhaseOf, Running
    <3> QED BY <2>1, <3>1 DEF Tainted
  <2>4. Lifecycle!Hide
    BY <2>2, <2>3 DEF PhaseOf, ManagedOnes, Tainted, Lifecycle!Hide, Lifecycle!Running
  <2> QED BY <2>4 DEF Lifecycle!Next
<1>3. CASE UNCHANGED <<tr, microtasks, verdicts, exposed>>
  <2>1. PhaseOf' = PhaseOf /\ ManagedOnes' = ManagedOnes /\ Tainted' = Tainted
    BY <1>3, PhasesStay DEF Tainted
  <2> QED BY <2>1 DEF PhaseOf, ManagedOnes, Tainted, Lifecycle!vars
<1> QED BY <1>1, <1>2, <1>3, LawfulRefines, BeginRefines, SettleRefines DEF AStep

(* The service implements the life of a transaction the agent promises: it  *)
(* starts as the abstract one does and each of its steps is one of the      *)
(* abstract steps or invisible to them.                                     *)
THEOREM LifecycleImplemented ==
    Spec => Lifecycle!Init /\ [][Lifecycle!Next]_(Lifecycle!vars)
<1>1. Init => Lifecycle!Init
  <2> SUFFICES ASSUME Init PROVE Lifecycle!Init
    OBVIOUS
  <2>1. \A t \in Transactions : tr[t].status = "unused" /\ ~exposed[t]
    BY DEF Init
  <2>2. PhaseOf = [t \in Transactions |-> "unused"]
    BY <2>1 DEF PhaseOf, Phase
  <2>3. ManagedOnes = {} /\ Tainted = {}
    BY <2>1 DEF ManagedOnes, Tainted
  <2> QED BY <2>2, <2>3 DEF PhaseOf, ManagedOnes, Tainted, Lifecycle!Init
<1>2. CInv /\ [Next]_vars => [Lifecycle!Next]_(Lifecycle!vars)
  BY StepIs, StepRefines
<1> QED BY <1>1, <1>2, CallInvariance, PTL DEF Spec
=============================================================================
