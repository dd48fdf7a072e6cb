---------------------------- MODULE Report_proof ----------------------------
(***************************************************************************)
(* What is reported of one transaction, for any thresholds, any times and  *)
(* any number of entries, spans and marks: the numbers are numbers, no     *)
(* request is reported twice, the long tasks that are counted are the ones *)
(* that are reported, no span is lost on the way to the payload, and the   *)
(* times of the breakdown, the marks and the transaction agree.            *)
(***************************************************************************)
EXTENDS Timeline_proof

-----------------------------------------------------------------------------
(* What performance.timing may be *)

LEMMA MarksAre ==
    /\ \A p \in Range(eventPairs) : /\ p[1] \in NAVIGATION_TIMING_MARKS
                                    /\ p[2] \in NAVIGATION_TIMING_MARKS
    /\ \A p \in pageLoadBreakdowns : /\ p[1] \in NAVIGATION_TIMING_MARKS
                                     /\ p[2] \in NAVIGATION_TIMING_MARKS
    /\ "fetchStart" \in NAVIGATION_TIMING_MARKS
    /\ "responseStart" \in NAVIGATION_TIMING_MARKS
    /\ "responseEnd" \in NAVIGATION_TIMING_MARKS
<1>1. \A k : (\E p \in Range(eventPairs) : k = p[1] \/ k = p[2])
              => k \in NAVIGATION_TIMING_MARKS
  <2>1. SUFFICES ASSUME NEW k, NEW p \in Range(eventPairs), k = p[1] \/ k = p[2]
                 PROVE  k \in NAVIGATION_TIMING_MARKS
    OBVIOUS
  <2>2. PICK X : X = {p[1], p[2]}
    OBVIOUS
  <2>3. k \in X /\ X \in {{q[1], q[2]} : q \in Range(eventPairs)}
    BY <2>1, <2>2
  <2> QED BY <2>3, Zenon DEF NAVIGATION_TIMING_MARKS
<1>2. /\ "fetchStart" \in NAVIGATION_TIMING_MARKS
      /\ "responseStart" \in NAVIGATION_TIMING_MARKS
      /\ "domComplete" \in NAVIGATION_TIMING_MARKS
  <2>1. \A k : k \in {"fetchStart", "responseStart", "domComplete"}
                => k \in NAVIGATION_TIMING_MARKS
    BY DEF NAVIGATION_TIMING_MARKS
  <2> QED BY <2>1
<1>3. \A i \in 1..6 : eventPairs[i] \in Range(eventPairs)
  BY DEF Range, eventPairs
<1>4. /\ eventPairs[1][1] = "domainLookupStart" /\ eventPairs[1][2] = "domainLookupEnd"
      /\ eventPairs[2][1] = "connectStart" /\ eventPairs[2][2] = "connectEnd"
      /\ eventPairs[3][1] = "requestStart" /\ eventPairs[3][2] = "responseEnd"
      /\ eventPairs[4][1] = "domLoading"
      /\ eventPairs[6][1] = "loadEventStart" /\ eventPairs[6][2] = "loadEventEnd"
  BY DEF eventPairs
<1>5. /\ 1 \in 1..6 /\ 2 \in 1..6 /\ 3 \in 1..6 /\ 4 \in 1..6 /\ 6 \in 1..6
  OBVIOUS
<1>6. /\ "domainLookupStart" \in NAVIGATION_TIMING_MARKS
      /\ "domainLookupEnd" \in NAVIGATION_TIMING_MARKS
      /\ "connectStart" \in NAVIGATION_TIMING_MARKS
      /\ "connectEnd" \in NAVIGATION_TIMING_MARKS
      /\ "requestStart" \in NAVIGATION_TIMING_MARKS
      /\ "responseEnd" \in NAVIGATION_TIMING_MARKS
      /\ "domLoading" \in NAVIGATION_TIMING_MARKS
      /\ "loadEventStart" \in NAVIGATION_TIMING_MARKS
      /\ "loadEventEnd" \in NAVIGATION_TIMING_MARKS
  BY <1>1, <1>3, <1>4, <1>5
<1>7. ASSUME NEW p \in pageLoadBreakdowns
      PROVE  p[1] \in NAVIGATION_TIMING_MARKS /\ p[2] \in NAVIGATION_TIMING_MARKS
  <2>1. \A a, b, c : p = <<a, b, c>> => p[1] = a /\ p[2] = b
    OBVIOUS
  <2>2. \/ p = <<"domainLookupStart", "domainLookupEnd", "DNS">>
        \/ p = <<"connectStart", "connectEnd", "TCP">>
        \/ p = <<"requestStart", "responseStart", "Request">>
        \/ p = <<"responseStart", "responseEnd", "Response">>
        \/ p = <<"domLoading", "domComplete", "Processing">>
        \/ p = <<"loadEventStart", "loadEventEnd", "Load">>
    BY Zenon DEF pageLoadBreakdowns
  <2> QED BY <1>2, <1>6, <2>1, <2>2, Zenon
<1> QED BY <1>1, <1>2, <1>6, <1>7

LEMMA TimingIs ==
    ASSUME timing \in Timings
    PROVE  /\ \A k \in NAVIGATION_TIMING_MARKS : timing[k] \in Nat
           /\ timing["fetchStart"] \in Nat /\ timing["navigationStart"] \in Nat
           /\ \A p \in Range(eventPairs) : timing[p[1]] \in Nat /\ timing[p[2]] \in Nat
           /\ \A p \in pageLoadBreakdowns : timing[p[1]] \in Nat /\ timing[p[2]] \in Nat
           /\ eventPairs \in Seq(Range(eventPairs))
<1>1. timing \in [NAVIGATION_TIMING_MARKS \cup {"navigationStart"} -> Nat]
  BY TimingAssumption
<1>2. \A k \in NAVIGATION_TIMING_MARKS \cup {"navigationStart"} : timing[k] \in Nat
  BY <1>1
<1>3. eventPairs \in Seq(Range(eventPairs))
  BY DEF eventPairs, Range
<1> QED BY <1>2, <1>3, MarksAre

(* None ends after b *)
EndBy(s, b) == \A i \in 1..Len(s) : s[i].end <= b

(* None lasts longer than b *)
Within(list, b) == \A i \in 1..Len(list) : list[i].start + list[i].duration <= b

LEMMA LongTaskSpansAre ==
    ASSUME NEW list \in Seq(Observations)
    PROVE  /\ createLongTaskSpans(list) \in Seq(UncalledSpans)
           /\ \A b : Within(list, b) => EndBy(createLongTaskSpans(list), b)
<1>1. PICK n \in Nat : n = Len(list) /\ DOMAIN list = 1..n
                       /\ \A i \in 1..n : list[i] \in Observations
  BY LenProperties, ElementOfSeq
<1>2. PICK s : s = createLongTaskSpans(list)
  OBVIOUS
<1>3. s = [i \in 1..n |-> Span("longtask", list[i].name, list[i].start,
                               list[i].start + list[i].duration, 0)]
  BY <1>1, <1>2 DEF createLongTaskSpans, Map
<1>4. ASSUME NEW e \in Observations
      PROVE  LET x == Span("longtask", e.name, e.start, e.start + e.duration, 0)
             IN  x \in UncalledSpans /\ x.end = e.start + e.duration
  <2>1. /\ e.name \in Names /\ e.start \in Nat /\ e.start + e.duration \in Nat
        /\ e.start <= e.start + e.duration
    BY DEF Observations, Names, Observed
  <2>2. "longtask" \in Kinds /\ 0 \in Nat
    BY DEF Kinds
  <2> QED BY <2>1, <2>2, SpanIs
<1>5. s \in Seq(UncalledSpans) /\ Len(s) = n
  BY <1>1, <1>3, <1>4, FunctionIsSeq
<1>6. \A i \in 1..n : s[i].end = list[i].start + list[i].duration
  BY <1>1, <1>3, <1>4
<1>7. \A b : Within(list, b) => EndBy(s, b)
  BY <1>1, <1>5, <1>6 DEF Within, EndBy
<1> QED BY <1>2, <1>5, <1>7

LEMMA FirstInputSpansAre ==
    ASSUME NEW fid \in Seq(Observations), NEW b,
           fid = <<>> \/ fid[1].start + fid[1].duration <= b
    PROVE  /\ createFirstInputDelaySpan(fid) \in Seq(TimelineSpans)
           /\ EndBy(createFirstInputDelaySpan(fid), b)
<1>1. CASE fid = <<>>
  BY <1>1 DEF createFirstInputDelaySpan, EndBy
<1>2. CASE fid # <<>>
  <2>1. PICK e \in Observations : e = fid[1]
    BY <1>2
  <2>2. /\ e.start \in Nat /\ e.start + e.duration \in Nat
        /\ e.start <= e.start + e.duration
    BY DEF Observations
  <2>3. "first-input" \in Kinds /\ 0 \in Nat /\ "fid" \in Names
    <3>1. "fid" \in Names
      BY Zenon DEF Names
    <3> QED BY <3>1 DEF Kinds
  <2>4. PICK s \in TimelineSpans :
          /\ s = Span("first-input", "fid", e.start, e.start + e.duration, 0)
          /\ s.end = e.start + e.duration
    BY <2>2, <2>3, SpanIs
  <2>5. PICK t : t = <<s>>
    OBVIOUS
  <2>6. createFirstInputDelaySpan(fid) = t
    BY <1>2, <2>1, <2>4, <2>5 DEF createFirstInputDelaySpan
  <2>7. t \in Seq(TimelineSpans) /\ Len(t) = 1 /\ t[1] = s
    BY <2>5
  <2>8. EndBy(t, b)
    BY <1>2, <2>1, <2>4, <2>7 DEF EndBy
  <2> QED BY <2>6, <2>7, <2>8
<1> QED BY <1>1, <1>2

LEMMA NavigationSpansAre ==
    ASSUME timing \in Timings, NEW baseTime \in Nat, NEW a \in Nat, NEW b \in Nat
    PROVE  /\ createNavigationTimingSpans(baseTime, a, b) \in Seq(TimelineSpans)
           /\ EndBy(createNavigationTimingSpans(baseTime, a, b), b)
<1> DEFINE O == {p \in Range(eventPairs) :
                   shouldCreateSpan(timing[p[1]], timing[p[2]], a, b, baseTime)}
<1>1. PICK t : t = Only(eventPairs, O)
  OBVIOUS
<1>2. t \in Seq(Range(eventPairs) \cap O)
  BY <1>1, TimingIs, OnlyType
<1>3. PICK n \in Nat : n = Len(t) /\ DOMAIN t = 1..n /\ \A i \in 1..n : t[i] \in O
  BY <1>2, LenProperties, ElementOfSeq
<1>4. createNavigationTimingSpans(baseTime, a, b) =
        [i \in 1..n |-> Span("hard-navigation", t[i][1], timing[t[i][1]] - baseTime,
                             timing[t[i][2]] - baseTime, 0)]
  BY <1>1, <1>3 DEF createNavigationTimingSpans, Map
<1>5. ASSUME NEW p \in O
      PROVE  LET s == Span("hard-navigation", p[1], timing[p[1]] - baseTime,
                           timing[p[2]] - baseTime, 0)
             IN  s \in TimelineSpans /\ s.end <= b
  <2>1. /\ p \in Range(eventPairs) /\ timing[p[1]] \in Nat /\ timing[p[2]] \in Nat
        /\ timing[p[1]] >= baseTime /\ timing[p[2]] > timing[p[1]]
        /\ timing[p[2]] - baseTime <= b
    BY TimingIs DEF shouldCreateSpan
  <2>2. /\ timing[p[1]] - baseTime \in Nat /\ timing[p[2]] - baseTime \in Nat
        /\ timing[p[1]] - baseTime <= timing[p[2]] - baseTime
    BY <2>1
  <2>3. "hard-navigation" \in Kinds /\ 0 \in Nat /\ p[1] \in Names
    <3>1. p[1] \in {q[1] : q \in Range(eventPairs)}
      BY <2>1
    <3>2. p[1] \in Names
      BY <3>1 DEF Names
    <3> QED BY <3>2 DEF Kinds
  <2>4. PICK c \in Nat : c = timing[p[1]] - baseTime
    BY <2>2
  <2>5. PICK d \in Nat : d = timing[p[2]] - baseTime
    BY <2>2
  <2>6. Span("hard-navigation", p[1], c, d, 0).end = d
    BY <2>2, <2>3, <2>4, <2>5, SpanIs
  <2>7. Span("hard-navigation", p[1], c, d, 0) \in TimelineSpans
    BY <2>2, <2>3, <2>4, <2>5, SpanIs
  <2> QED BY <2>1, <2>4, <2>5, <2>6, <2>7
<1> HIDE DEF O
<1>6. PICK s : s = createNavigationTimingSpans(baseTime, a, b)
  OBVIOUS
<1>7. s \in Seq(TimelineSpans) /\ Len(s) = n
  BY <1>3, <1>4, <1>5, <1>6, FunctionIsSeq
<1>8. EndBy(s, b)
  BY <1>3, <1>4, <1>5, <1>6, <1>7 DEF EndBy
<1> QED BY <1>6, <1>7, <1>8

LEMMA UserTimingSpansAre ==
    ASSUME measures \in Seq([start : Nat, duration : Nat]), NEW a \in Nat, NEW b \in Nat
    PROVE  /\ createUserTimingSpans(a, b) \in Seq(TimelineSpans)
           /\ EndBy(createUserTimingSpans(a, b), b)
<1> DEFINE M == [start : Nat, duration : Nat]
           L == {e \in Range(measures) :
                   /\ e.duration > UserTimingThreshold
                   /\ shouldCreateSpan(e.start, e.start + e.duration, a, b, 0)}
<1>1. PICK t : t = Only(measures, L)
  OBVIOUS
<1>2. t \in Seq(M \cap L)
  BY <1>1, OnlyType
<1>3. PICK n \in Nat : n = Len(t) /\ DOMAIN t = 1..n /\ \A i \in 1..n : t[i] \in M \cap L
  BY <1>2, LenProperties, ElementOfSeq
<1>4. createUserTimingSpans(a, b) =
        [i \in 1..n |-> Span("app", "measure", t[i].start, t[i].start + t[i].duration, 0)]
  BY <1>1, <1>3 DEF createUserTimingSpans, Map
<1>5. ASSUME NEW e \in M \cap L
      PROVE  LET s == Span("app", "measure", e.start, e.start + e.duration, 0)
             IN  s \in TimelineSpans /\ s.end <= b
  <2>1. /\ e.start \in Nat /\ e.start + e.duration \in Nat
        /\ e.start <= e.start + e.duration
    OBVIOUS
  <2>2. e.start + e.duration <= b
    <3>1. (e.start + e.duration) - 0 <= b
      BY DEF shouldCreateSpan
    <3> QED BY <2>1, <3>1
  <2>3. "app" \in Kinds /\ 0 \in Nat /\ "measure" \in Names
    <3>1. "measure" \in Names
      BY Zenon DEF Names
    <3> QED BY <3>1 DEF Kinds
  <2> QED BY <2>1, <2>2, <2>3, SpanIs
<1> HIDE DEF M, L
<1>6. PICK s : s = createUserTimingSpans(a, b)
  OBVIOUS
<1>7. s \in Seq(TimelineSpans) /\ Len(s) = n
  BY <1>3, <1>4, <1>5, <1>6, FunctionIsSeq
<1>8. EndBy(s, b)
  BY <1>3, <1>4, <1>5, <1>6, <1>7 DEF EndBy
<1> QED BY <1>6, <1>7, <1>8

Resources == [initiator : Initiators, start : Nat, end : Nat]

(* Requests that have a span of the patched function they were sent through *)
PatchedCalls == {c \in DOMAIN resources :
                   /\ resources[c].initiator \in PatchedInitiators
                   /\ isCapturedByPatching(resources[c].start)}

(* Spans of requests that have none, each of its own *)
OfOthers(s) ==
    /\ s \in Seq(Spans)
    /\ \A i \in 1..Len(s) : s[i].kind = "resource" /\ s[i].count = 1
    /\ \A i \in 1..Len(s) : s[i].call \in DOMAIN resources \ PatchedCalls
    /\ \A i, j \in 1..Len(s) : s[i].call = s[j].call => i = j

LEMMA ResourceSpansAre ==
    ASSUME resources \in Seq(Resources), NEW a \in Nat, NEW b \in Nat
    PROVE  /\ OfOthers(createResourceTimingSpans(a, b))
           /\ EndBy(createResourceTimingSpans(a, b), b)
<1> DEFINE W == {i \in DOMAIN resources :
                   /\ resources[i].initiator \in RESOURCE_INITIATOR_TYPES
                   /\ ~ /\ resources[i].initiator \in PatchedInitiators
                        /\ isCapturedByPatching(resources[i].start)
                   /\ shouldCreateSpan(resources[i].start, resources[i].end, a, b, 0)}
<1>1. PICK q : q = [i \in DOMAIN resources |-> i]
  OBVIOUS
<1>2. PICK m \in Nat : /\ m = Len(resources) /\ DOMAIN resources = 1..m
                       /\ \A i \in 1..m : resources[i] \in Resources
  BY LenProperties, ElementOfSeq
<1>3. q \in Seq(1..m) /\ IsInjective(q)
  <2>1. q \in [1..m -> 1..m]
    BY <1>1, <1>2
  <2> QED BY <1>1, <1>2, <2>1, FunctionIsSeq DEF IsInjective
<1>4. PICK t : t = Only(q, W)
  OBVIOUS
<1>5. t \in Seq((1..m) \cap W) /\ IsInjective(t)
  BY <1>3, <1>4, OnlyType, OnlyDistinct
<1>6. PICK n \in Nat : n = Len(t) /\ DOMAIN t = 1..n /\ \A i \in 1..n : t[i] \in W
  BY <1>5, LenProperties, ElementOfSeq
<1>7. PICK s : s = createResourceTimingSpans(a, b)
  OBVIOUS
<1>8. s = [i \in 1..n |-> Span("resource", resources[t[i]].initiator,
                               resources[t[i]].start, resources[t[i]].end, t[i])]
  BY <1>1, <1>4, <1>6, <1>7 DEF createResourceTimingSpans, Map
<1>9. ASSUME NEW i \in W
      PROVE  LET x == Span("resource", resources[i].initiator, resources[i].start,
                           resources[i].end, i)
             IN  /\ x \in Spans /\ x.call = i /\ x.kind = "resource" /\ x.count = 1
                 /\ x.end <= b
  <2>1. /\ resources[i].initiator \in Initiators /\ resources[i].start \in Nat
        /\ resources[i].end \in Nat /\ i \in Nat
    BY <1>2 DEF Resources
  <2>2. resources[i].start <= resources[i].end /\ resources[i].end <= b
    <3>1. resources[i].end - 0 <= b
      BY DEF shouldCreateSpan
    <3> QED BY <2>1, <3>1 DEF shouldCreateSpan
  <2>3. resources[i].initiator \in Names
    BY <2>1 DEF Names
  <2>4. "resource" \in Kinds
    BY DEF Kinds
  <2> QED BY <2>1, <2>2, <2>3, <2>4, SpanIs
<1>10. \A i \in 1..n : /\ s[i] \in Spans /\ s[i].call = t[i] /\ s[i].kind = "resource"
                       /\ s[i].count = 1 /\ s[i].end <= b
  <2> HIDE DEF W
  <2> QED BY <1>6, <1>8, <1>9
<1>11. s \in Seq(Spans) /\ Len(s) = n
  <2>1. s \in [1..n -> Spans]
    BY <1>8, <1>10
  <2> QED BY <2>1, FunctionIsSeq
<1>12. \A i \in 1..n : t[i] \in DOMAIN resources \ PatchedCalls
  BY <1>6 DEF PatchedCalls
<1>13. \A i, j \in 1..n : t[i] = t[j] => i = j
  BY <1>5, <1>6 DEF IsInjective
<1> HIDE DEF W
<1> QED BY <1>7, <1>10, <1>11, <1>12, <1>13 DEF OfOthers, EndBy

-----------------------------------------------------------------------------
(* The transaction *)

Marks == (NAVIGATION_TIMING_MARKS \cup {"fcp", "lcp"}) \X Nat
Samples == [type : Kinds \cup {p[3] : p \in pageLoadBreakdowns}, count : Nat,
            duration : Int]
Transactions ==
    [status : {"unstarted", "running", "ended", "settled"}, type : Types,
     sampled : BOOLEAN, start : Nat, end : Nat, spans : Seq(Spans),
     custom : Seq(Nat), navigation : SUBSET Marks, agent : SUBSET Marks,
     experience : Metrics, breakdown : SUBSET Samples]

LEMMA AddExperienceIs ==
    ASSUME NEW t \in Transactions, metrics \in Metrics
    PROVE  /\ AddExperience(t) \in Transactions
           /\ \A f \in {"type", "sampled", "start", "end", "breakdown", "custom"} :
                 AddExperience(t)[f] = t[f]
           /\ \E s \in Seq(TimelineSpans) :
                 /\ AddExperience(t).spans = t.spans \o s
                 /\ \A b : BlockedBefore(metrics, b) => EndBy(s, b)
           /\ IsPageLoad(t) /\ CaptureTimings(t) => AddExperience(t).experience = metrics
           /\ ~CaptureTimings(t) => AddExperience(t) = t
<1>1. CASE ~(IsPageLoad(t) /\ CaptureTimings(t))
  <2>1. AddExperience(t) = t /\ t.spans \in Seq(Spans)
    BY <1>1 DEF AddExperience, Transactions
  <2>2. t.spans = t.spans \o <<>> /\ <<>> \in Seq(TimelineSpans)
    BY <2>1
  <2>3. \A b : EndBy(<<>>, b)
    BY DEF EndBy
  <2> QED BY <1>1, <2>1, <2>2, <2>3
<1>2. CASE IsPageLoad(t) /\ CaptureTimings(t)
  <2>1. PICK s : s = createTotalBlockingTimeSpan
    OBVIOUS
  <2>2. s \in TimelineSpans /\ s.end = metrics.tbtStart + metrics.tbt
    <3>1. /\ metrics.tbtStart \in Nat /\ metrics.tbtStart + metrics.tbt \in Nat
          /\ metrics.tbtStart <= metrics.tbtStart + metrics.tbt
      BY DEF Metrics
    <3>2. "longtask" \in Kinds /\ 0 \in Nat /\ "tbt" \in Names
      BY DEF Kinds, Names
    <3> QED BY <2>1, <3>1, <3>2, SpanIs DEF createTotalBlockingTimeSpan
  <2>3. PICK u \in Seq(TimelineSpans) :
          /\ AddExperience(t) = [t EXCEPT !.experience = metrics, !.spans = t.spans \o u]
          /\ \A b : BlockedBefore(metrics, b) => EndBy(u, b)
    <3>1. t.spans \in Seq(Spans) /\ s \in Spans
      BY <2>2 DEF Transactions, TimelineSpans, UncalledSpans
    <3>2. PICK v : v = <<s>>
      OBVIOUS
    <3>3. /\ Append(t.spans, s) = t.spans \o v /\ v \in Seq(TimelineSpans)
          /\ Len(v) = 1 /\ v[1] = s
      BY <2>2, <3>1, <3>2
    <3>4. t.spans = t.spans \o <<>> /\ <<>> \in Seq(TimelineSpans)
      BY <3>1
    <3>5. AddExperience(t) = [t EXCEPT !.experience = metrics,
                               !.spans = IF metrics.tbt > 0 THEN Append(t.spans, s)
                                         ELSE t.spans]
      BY <1>2, <2>1 DEF AddExperience, Transactions
    <3>6. CASE metrics.tbt > 0
      <4>1. metrics.tbt # 0
        BY <3>6 DEF Metrics
      <4>2. \A b : BlockedBefore(metrics, b) => EndBy(v, b)
        BY <2>2, <3>3, <4>1 DEF BlockedBefore, EndBy
      <4> QED BY <3>3, <3>5, <3>6, <4>2
    <3>7. CASE ~(metrics.tbt > 0)
      <4>1. \A b : EndBy(<<>>, b)
        BY DEF EndBy
      <4> QED BY <3>4, <3>5, <3>7, <4>1
    <3> QED BY <3>6, <3>7
  <2>4. PICK q \in Seq(Spans) : q = t.spans \o u
    <3>1. t.spans \in Seq(Spans) /\ u \in Seq(Spans)
      BY SeqMonotonic DEF Transactions, UncalledSpans, TimelineSpans
    <3> QED BY <3>1, ConcatProperties
  <2>5. PICK h : h = [t EXCEPT !.experience = metrics, !.spans = q]
    OBVIOUS
  <2>6. AddExperience(t) = h
    BY <2>3, <2>4, <2>5
  <2>7. h \in Transactions /\ h.spans = q /\ h.experience = metrics
    BY <2>5 DEF Transactions
  <2>8. \A f \in {"type", "sampled", "start", "end", "breakdown", "custom"} : h[f] = t[f]
    BY <2>5 DEF Transactions
  <2> QED BY <1>2, <2>3, <2>4, <2>6, <2>7, <2>8
<1> QED BY <1>1, <1>2

LEMMA MarksOf ==
    ASSUME timing \in Timings
    PROVE  getNavigationTimingMarks \in SUBSET Marks /\ AgentMarks \in SUBSET Marks
<1>1. PICK f \in Nat : f = timing["fetchStart"]
  BY TimingIs
<1>2. ASSUME NEW k \in NAVIGATION_TIMING_MARKS, timing[k] >= f
      PROVE  <<k, timing[k] - f>> \in Marks
  <2>1. timing[k] - f \in Nat
    BY <1>2, TimingIs
  <2>2. k \in NAVIGATION_TIMING_MARKS \cup {"fcp", "lcp"}
    OBVIOUS
  <2> QED BY <2>1, <2>2 DEF Marks
<1>3. getNavigationTimingMarks \in SUBSET Marks
  <2>1. CASE getNavigationTimingMarks = {}
    BY <2>1
  <2>2. CASE getNavigationTimingMarks # {}
    <3>1. getNavigationTimingMarks =
            {<<k, timing[k] - f>> : k \in {n \in NAVIGATION_TIMING_MARKS :
                                            timing[n] # 0 /\ timing[n] >= f}}
      BY <1>1, <2>2 DEF getNavigationTimingMarks
    <3> QED BY <1>2, <3>1
  <2> QED BY <2>1, <2>2
<1> QED BY <1>3 DEF AgentMarks

(* A page load begins with the navigation.                                  *)
LEMMA AtNavigationStartIs ==
    ASSUME NEW t \in Transactions
    PROVE  /\ AtNavigationStart(t) \in Transactions
           /\ AtNavigationStart(t).start = 0
           /\ AtNavigationStart(t).custom = [i \in 1..Len(t.custom) |-> t.custom[i] + t.start]
           /\ \A f \in {"type", "sampled", "end", "spans", "agent", "breakdown", "experience"} :
                 AtNavigationStart(t)[f] = t[f]
<1>1. PICK n \in Nat : n = Len(t.custom) /\ DOMAIN t.custom = 1..n
                       /\ \A i \in 1..n : t.custom[i] \in Nat
  BY LenProperties, ElementOfSeq DEF Transactions
<1>2. PICK c : c = [i \in 1..n |-> t.custom[i] + t.start]
  OBVIOUS
<1>3. c \in Seq(Nat)
  <2>1. t.start \in Nat
    BY DEF Transactions
  <2>2. c \in [1..n -> Nat]
    BY <1>1, <1>2, <2>1
  <2> QED BY <2>2, FunctionIsSeq
<1>4. AtNavigationStart(t) = [t EXCEPT !.custom = c, !.start = 0]
  <2>1. Map(LAMBDA m : m + t.start, t.custom) = c
    BY <1>1, <1>2 DEF Map
  <2>2. AtNavigationStart(t) =
          [t EXCEPT !.custom = Map(LAMBDA m : m + t.start, t.custom), !.start = 0]
    BY DEF AtNavigationStart, Transactions
  <2> QED BY <2>1, <2>2
<1>5. PICK h : h = [t EXCEPT !.custom = c, !.start = 0]
  OBVIOUS
<1>6. h \in Transactions
  BY <1>3, <1>5 DEF Transactions
<1>7. h.start = 0 /\ h.custom = c
  BY <1>5 DEF Transactions
<1>8. \A f \in {"type", "sampled", "end", "spans", "agent", "breakdown", "experience"} :
        h[f] = t[f]
  BY <1>5 DEF Transactions
<1> QED BY <1>1, <1>2, <1>4, <1>5, <1>6, <1>7, <1>8

(* What captureNavigation makes of t: g *)
Navigated(g, t) ==
    /\ g \in Transactions
    /\ g.start \in {0, t.start}
    /\ \A f \in {"type", "sampled", "end", "breakdown", "experience"} : g[f] = t[f]
    /\ IsPageLoad(t) /\ CaptureTimings(t) =>
          /\ g.start = 0
          /\ g.custom = [i \in 1..Len(t.custom) |-> t.custom[i] + t.start]
    /\ ~CaptureTimings(t) => g = t

LEMMA CaptureNavigationIs ==
    ASSUME NEW t \in Transactions, timing \in Timings, resources \in Seq(Resources),
           measures \in Seq([start : Nat, duration : Nat])
    PROVE  /\ Navigated(captureNavigation(t), t)
           /\ \E u \in Seq(TimelineSpans), v \in Seq(TimelineSpans), r \in Seq(Spans) :
                 /\ OfOthers(r) /\ EndBy(u, t.end) /\ EndBy(v, t.end) /\ EndBy(r, t.end)
                 /\ captureNavigation(t).spans = ((t.spans \o u) \o r) \o v
<1> DEFINE Same(h) == \A f \in {"type", "sampled", "end", "breakdown", "experience"} :
                        h[f] = t[f]
           Custom == [i \in 1..Len(t.custom) |-> t.custom[i] + t.start]
           Moved(h) == IsPageLoad(t) => h.start = 0 /\ h.custom = Custom
<1>1. CASE ~CaptureTimings(t)
  <2>1. captureNavigation(t) = t
    BY <1>1 DEF captureNavigation
  <2>2. t.spans = ((t.spans \o <<>>) \o <<>>) \o <<>>
    BY DEF Transactions
  <2>3. OfOthers(<<>>) /\ <<>> \in Seq(TimelineSpans) /\ <<>> \in Seq(Spans)
        /\ EndBy(<<>>, t.end)
    BY DEF OfOthers, EndBy
  <2>4. Navigated(t, t)
    BY <1>1 DEF Navigated
  <2> QED BY <2>1, <2>2, <2>3, <2>4
<1>2. CASE CaptureTimings(t)
  <2>1. PICK h : h = IF ~IsPageLoad(t) THEN t ELSE
          [AtNavigationStart(t) EXCEPT
             !.spans = @ \o createNavigationTimingSpans(timing["fetchStart"], 0, t.end),
             !.navigation = getNavigationTimingMarks,
             !.agent = @ \cup AgentMarks]
    OBVIOUS
  <2>2. PICK u \in Seq(TimelineSpans) :
          /\ h \in Transactions /\ h.start \in {0, t.start} /\ h.spans = t.spans \o u
          /\ EndBy(u, t.end) /\ Moved(h) /\ Same(h)
    <3>1. CASE ~IsPageLoad(t)
      <4>1. t.spans = t.spans \o <<>> /\ <<>> \in Seq(TimelineSpans)
        BY DEF Transactions
      <4>2. EndBy(<<>>, t.end)
        BY DEF EndBy
      <4> QED BY <2>1, <3>1, <4>1, <4>2
    <3>2. CASE IsPageLoad(t)
      <4>1. PICK a \in Transactions : a = AtNavigationStart(t)
        BY AtNavigationStartIs
      <4>2. /\ a.start = 0 /\ a.custom = Custom
            /\ \A f \in {"type", "sampled", "end", "spans", "agent", "breakdown", "experience"} :
                  a[f] = t[f]
        BY <4>1, AtNavigationStartIs
      <4>3. PICK u \in Seq(TimelineSpans) :
              /\ u = createNavigationTimingSpans(timing["fetchStart"], 0, t.end)
              /\ EndBy(u, t.end)
        <5>1. timing["fetchStart"] \in Nat /\ 0 \in Nat /\ t.end \in Nat
          BY TimingIs DEF Transactions
        <5> QED BY <5>1, NavigationSpansAre
      <4>4. PICK s \in Seq(Spans) : s = t.spans \o u
        <5>1. t.spans \in Seq(Spans) /\ u \in Seq(Spans)
          BY SeqMonotonic DEF Transactions, UncalledSpans, TimelineSpans
        <5> QED BY <5>1, ConcatProperties
      <4>5. PICK n \in SUBSET Marks : n = getNavigationTimingMarks
        BY MarksOf
      <4>6. PICK m \in SUBSET Marks : m = a.agent \cup AgentMarks
        BY MarksOf DEF Transactions
      <4>7. h = [a EXCEPT !.spans = s, !.navigation = n, !.agent = m]
        BY <2>1, <3>2, <4>1, <4>2, <4>3, <4>4, <4>5, <4>6 DEF Transactions
      <4>8. h \in Transactions
        BY <4>7 DEF Transactions
      <4>9. h.start = a.start /\ h.spans = s /\ h.custom = a.custom
        BY <4>7 DEF Transactions
      <4>10. \A f \in {"type", "sampled", "end", "breakdown", "experience"} : h[f] = a[f]
        BY <4>7 DEF Transactions
      <4> QED BY <4>2, <4>3, <4>4, <4>8, <4>9, <4>10
    <3> QED BY <3>1, <3>2
  <2>3. h.start \in Nat /\ t.end \in Nat
    BY <2>2 DEF Transactions
  <2>4. PICK r : r = createResourceTimingSpans(h.start, t.end)
    OBVIOUS
  <2>5. PICK v : v = createUserTimingSpans(h.start, t.end)
    OBVIOUS
  <2>6. OfOthers(r) /\ v \in Seq(TimelineSpans) /\ EndBy(r, t.end) /\ EndBy(v, t.end)
    BY <2>3, <2>4, <2>5, ResourceSpansAre, UserTimingSpansAre
  <2>7. r \in Seq(Spans) /\ v \in Seq(Spans) /\ h.spans \in Seq(Spans)
    BY <2>2, <2>6, SeqMonotonic DEF OfOthers, UncalledSpans, TimelineSpans, Transactions
  <2>8. PICK s \in Seq(Spans) : s = (h.spans \o r) \o v
    <3>1. h.spans \o r \in Seq(Spans)
      BY <2>7, ConcatProperties
    <3> QED BY <2>7, <3>1, ConcatProperties
  <2>9. captureNavigation(t) = [h EXCEPT !.spans = s]
    BY <1>2, <2>1, <2>4, <2>5, <2>8 DEF captureNavigation
  <2>10. PICK g : g = [h EXCEPT !.spans = s]
    OBVIOUS
  <2>11. g \in Transactions
    BY <2>2, <2>10 DEF Transactions
  <2>12. g.start = h.start /\ g.spans = s /\ g.custom = h.custom
    BY <2>2, <2>10 DEF Transactions
  <2>13. \A f \in {"type", "sampled", "end", "breakdown", "experience"} : g[f] = h[f]
    BY <2>2, <2>10 DEF Transactions
  <2>14. s = ((t.spans \o u) \o r) \o v
    BY <2>2, <2>8
  <2>15. Navigated(g, t)
    BY <1>2, <2>2, <2>11, <2>12, <2>13 DEF Navigated
  <2>16. captureNavigation(t) = g /\ g.spans = ((t.spans \o u) \o r) \o v
    BY <2>9, <2>10, <2>12, <2>14
  <2>17. OfOthers(r) /\ EndBy(u, t.end) /\ EndBy(v, t.end) /\ EndBy(r, t.end)
    BY <2>2, <2>6
  <2> HIDE DEF Same, Moved, Custom
  <2> QED BY <2>6, <2>7, <2>15, <2>16, <2>17
<1> QED BY <1>1, <1>2

(* The transaction covers its spans, and ends after it starts.              *)
Covering(t) ==
    /\ t \in Transactions /\ t.start <= t.end
    /\ \A i \in 1..Len(t.spans) : t.spans[i].start >= t.start

(* What adjustTransactionTime makes of c: it starts with its first span and *)
(* ends with the last that is of no request; longer ones are truncated.     *)
Fitted(m, c) ==
    /\ c.end <= m.end
    /\ m.start <= c.start /\ \A i \in 1..Len(c.spans) : m.start <= c.spans[i].start
    /\ \/ m.end = c.end
       \/ \E i \in 1..Len(c.spans) : c.spans[i].kind # "external" /\ m.end = c.spans[i].end
    /\ Len(m.spans) = Len(c.spans)
    /\ \A i \in 1..Len(c.spans) : m.spans[i] = TruncateAt(c.spans[i], m.end)

LEMMA AdjustTimeIs ==
    ASSUME NEW t \in Transactions, t.start <= t.end
    PROVE  /\ Covering(adjustTransactionTime(t)) /\ Fitted(adjustTransactionTime(t), t)
           /\ \A f \in {"type", "sampled", "breakdown", "experience", "custom"} :
                 adjustTransactionTime(t)[f] = t[f]
<1>1. t.start \in Nat /\ t.end \in Nat /\ t.spans \in Seq(Spans)
  BY DEF Transactions
<1>2. PICK s : s = t.spans
  OBVIOUS
<1>3. PICK n \in Nat : n = Len(s) /\ DOMAIN s = 1..n /\ \A i \in 1..n : s[i] \in Spans
  BY <1>1, <1>2, LenProperties, ElementOfSeq
<1>4. \A i \in 1..n : /\ s[i].start \in Nat /\ s[i].end \in Nat
                      /\ s[i].start <= s[i].end /\ s[i] \in AnySpan
  BY <1>3 DEF Spans, AnySpan
<1>5. PICK A : A = {t.start} \cup getEarliestSpan(s)
  OBVIOUS
<1>6. A = {t.start} \cup {s[i].start : i \in 1..n}
  BY <1>3, <1>5 DEF getEarliestSpan, Range
<1>7. PICK a : a = Min(A)
  OBVIOUS
<1>8. a \in Nat /\ a <= t.start /\ \A i \in 1..n : a <= s[i].start
  <2>1. A \subseteq Nat /\ A # {}
    BY <1>1, <1>4, <1>6
  <2>2. a \in A /\ \A x \in A : a <= x
    BY <1>7, <2>1, MinIs
  <2> QED BY <1>6, <2>1, <2>2
<1>9. PICK B : B = {t.end} \cup getLatestNonXHRSpan(s)
  OBVIOUS
<1>10. /\ B \subseteq {t.end} \cup {s[i].end : i \in {j \in 1..n : s[j].kind # "external"}}
       /\ t.end \in B
  BY <1>3, <1>9 DEF getLatestNonXHRSpan, Range
<1>11. PICK b : b = Max(B)
  OBVIOUS
<1>12. b \in Nat /\ t.end <= b /\ b \in B
  <2>1. PICK f : f = [i \in 1..n |-> s[i].end]
    OBVIOUS
  <2>2. PICK m \in Nat : \A i \in 1..n : f[i] <= m
    BY <1>4, <2>1, Bounded
  <2>3. PICK k \in Nat : k = m + t.end
    BY <1>1
  <2>4. B \in SUBSET (0..k) /\ B # {}
    <3>1. B \subseteq {t.end} \cup {s[i].end : i \in 1..n}
      BY <1>10
    <3> QED BY <1>1, <1>4, <1>10, <2>1, <2>2, <2>3, <3>1
  <2>5. b \in B /\ \A x \in B : x <= b
    BY <1>11, <2>3, <2>4, MaxIs
  <2>6. \A x \in B : x \in Nat
    BY <2>3, <2>4
  <2>7. t.end \in B
    BY <1>10
  <2> QED BY <2>5, <2>6, <2>7
<1>13. FitToSpans(t) = [t EXCEPT !.start = a, !.end = b]
  BY <1>2, <1>5, <1>7, <1>9, <1>11 DEF FitToSpans, Transactions
<1>14. PICK f : f = FitToSpans(t)
  OBVIOUS
<1>15. f \in Transactions /\ f.start = a /\ f.end = b /\ f.spans = s
  BY <1>2, <1>8, <1>12, <1>13, <1>14 DEF Transactions
<1>16. \A x \in {"type", "sampled", "breakdown", "experience", "custom"} : f[x] = t[x]
  BY <1>13, <1>14 DEF Transactions
<1>17. PICK q : q = [i \in 1..n |-> TruncateAt(s[i], b)]
  OBVIOUS
<1>18. ASSUME NEW i \in 1..n
       PROVE  q[i] \in Spans /\ q[i].start >= a
  <2>1. PICK x : x = [s[i] EXCEPT !.end = MinOf(s[i].end, b),
                                  !.start = MinOf(s[i].start, b),
                                  !.truncated = s[i].truncated \/ s[i].end > b]
    OBVIOUS
  <2>2. x = q[i]
    BY <1>4, <1>17, <2>1 DEF TruncateAt, AnySpan
  <2>3. PICK c \in BOOLEAN : c <=> s[i].truncated \/ s[i].end > b
    OBVIOUS
  <2>4. PICK d \in Nat : d = MinOf(s[i].start, b)
    BY <1>4, <1>12 DEF MinOf
  <2>5. PICK e \in Nat : e = MinOf(s[i].end, b)
    BY <1>4, <1>12 DEF MinOf
  <2>6. d <= e /\ a <= d
    BY <1>1, <1>4, <1>8, <1>12, <2>4, <2>5 DEF MinOf
  <2>7. x = [s[i] EXCEPT !.end = e, !.start = d, !.truncated = c]
    BY <2>1, <2>3, <2>4, <2>5
  <2>8. x \in AnySpan /\ x.start = d /\ x.end = e
    BY <1>4, <2>7 DEF AnySpan
  <2> QED BY <1>8, <2>2, <2>6, <2>8 DEF Spans
<1>19. q \in Seq(Spans) /\ Len(q) = n
  <2>1. q \in [1..n -> Spans]
    BY <1>17, <1>18
  <2> QED BY <2>1, FunctionIsSeq
<1>20. PICK g : g = [f EXCEPT !.spans = q]
  OBVIOUS
<1>21. g = adjustTransactionTime(t)
  <2>1. Map(LAMBDA x : TruncateAt(x, f.end), f.spans) = q
    BY <1>3, <1>15, <1>17 DEF Map
  <2>2. adjustTransactionTime(t) =
          [f EXCEPT !.spans = Map(LAMBDA x : TruncateAt(x, f.end), f.spans)]
    BY <1>14, <1>15 DEF adjustTransactionTime, Transactions
  <2> QED BY <1>20, <2>1, <2>2
<1>22. g \in Transactions /\ g.start = a /\ g.end = b /\ g.spans = q
  BY <1>15, <1>19, <1>20 DEF Transactions
<1>23. \A x \in {"type", "sampled", "breakdown", "experience", "custom"} : g[x] = t[x]
  BY <1>15, <1>16, <1>20 DEF Transactions
<1>24. a <= b
  BY <1>1, <1>8, <1>12
<1>25. Covering(g)
  BY <1>18, <1>19, <1>22, <1>24 DEF Covering
<1>26. Fitted(g, t)
  <2>1. b = t.end \/ \E i \in 1..n : s[i].kind # "external" /\ b = s[i].end
    BY <1>10, <1>12
  <2>2. Len(q) = n /\ \A i \in 1..n : q[i] = TruncateAt(s[i], b)
    BY <1>17, <1>19
  <2> QED BY <1>2, <1>3, <1>8, <1>12, <1>22, <2>1, <2>2 DEF Fitted
<1> QED BY <1>21, <1>23, <1>25, <1>26

(* No time of it is counted as less than none.                              *)
LEMMA SelfTimeIs ==
    ASSUME NEW t, Covering(t)
    PROVE  calculateSelfTime(t) \in Nat
<1>1. /\ t.start \in Nat /\ t.end \in Nat /\ t.start <= t.end /\ t.spans \in Seq(Spans)
      /\ \A i \in 1..Len(t.spans) : t.spans[i].start >= t.start
  BY DEF Covering, Transactions
<1>2. CASE t.spans = <<>>
  <2>1. calculateSelfTime(t) = t.end - t.start
    BY <1>2 DEF calculateSelfTime, Duration
  <2> QED BY <1>1, <2>1
<1>3. CASE t.spans # <<>>
  <2>1. PICK n \in Nat \ {0} : n = Len(t.spans) /\ \A i \in 1..n : t.spans[i] \in Spans
    BY <1>1, <1>3, EmptySeq, LenProperties, ElementOfSeq
  <2>2. PICK E : E = {s \in Spans : s.start >= t.start}
    OBVIOUS
  <2>3. t.spans \in Seq(E)
    <3>1. \A i \in 1..n : t.spans[i] \in E
      BY <1>1, <2>1, <2>2
    <3> QED BY <1>1, <2>1, <3>1
  <2>4. PICK s : s = SortByStart(t.spans)
    OBVIOUS
  <2>5. s \in Seq(E) /\ Len(s) = n
    <3>1. E \subseteq Spans
      BY <2>2
    <3> QED BY <2>1, <2>3, <2>4, <3>1, SortIs
  <2>6. s[1] \in E
    BY <2>1, <2>5, ElementOfSeq
  <2>7. s[1].start - t.start \in Nat /\ s[1].end \in Nat
    <3>1. s[1].start \in Nat /\ s[1].end \in Nat /\ s[1].start >= t.start
      BY <2>2, <2>6 DEF Spans, AnySpan
    <3> QED BY <1>1, <3>1
  <2>8. PICK first \in Covers : first = [self |-> s[1].start - t.start, end |-> s[1].end]
    BY <2>7 DEF Covers
  <2>9. Tail(s) \in Seq(Spans)
    <3>1. s # <<>>
      BY <2>1, <2>5
    <3>2. s \in Seq(Spans)
      <4>1. E \subseteq Spans
        BY <2>2
      <4> QED BY <2>5, <4>1, SeqMonotonic
    <3> QED BY <3>1, <3>2, HeadTailProperties
  <2>10. PICK all \in Covers : all = Cover(first, Tail(s))
    BY <2>9, CoverIs
  <2>11. calculateSelfTime(t) = all.self + MaxOf(0, t.end - all.end)
    BY <1>3, <2>4, <2>8, <2>10 DEF calculateSelfTime, Cover
  <2>12. all.self \in Nat /\ all.end \in Nat
    BY DEF Covers
  <2>13. PICK m \in Nat : m = MaxOf(0, t.end - all.end)
    BY <1>1, <2>12 DEF MaxOf
  <2> QED BY <2>11, <2>12, <2>13
<1> QED BY <1>2, <1>3

LEMMA GroupSpansAre ==
    ASSUME NEW t, Covering(t)
    PROVE  \A b \in groupSpans(t) : b \in Samples /\ b.duration \in Nat
<1>1. t.spans \in Seq(Spans)
  BY DEF Covering, Transactions
<1>2. ASSUME NEW k \in Kinds, NEW q \in Seq(Spans), NEW c \in Nat, NEW d \in Nat
      PROVE  [type |-> k, count |-> c + Len(q), duration |-> d + Sum(Map(Duration, q))]
               \in {b \in Samples : b.duration \in Nat}
  <2>1. PICK n \in Nat : n = Len(q) /\ DOMAIN q = 1..n /\ \A i \in 1..n : q[i] \in Spans
    BY LenProperties, ElementOfSeq
  <2>2. PICK f : f = [i \in 1..n |-> Duration(q[i])]
    OBVIOUS
  <2>3. Map(Duration, q) = f
    BY <2>1, <2>2 DEF Map
  <2>4. \A i \in 1..n : Duration(q[i]) \in Nat
    <3>1. \A s \in Spans : s.end - s.start \in Nat
      BY DEF Spans, AnySpan
    <3> QED BY <2>1, <3>1 DEF Duration
  <2>5. f \in Seq(Nat)
    <3>1. f \in [1..n -> Nat]
      BY <2>2, <2>4
    <3> QED BY <3>1, FunctionIsSeq
  <2>6. PICK m \in Nat : m = Sum(f)
    BY <2>5, SumIs
  <2>7. c + Len(q) \in Nat /\ d + m \in Nat /\ d + m \in Int
    BY <2>1
  <2>8. k \in Kinds \cup {p[3] : p \in pageLoadBreakdowns}
    OBVIOUS
  <2> QED BY <2>3, <2>6, <2>7, <2>8 DEF Samples
<1>3. PICK self \in Nat : self = calculateSelfTime(t)
  BY SelfTimeIs
<1>4. ASSUME NEW b \in groupSpans(t)
      PROVE  \E k \in Kinds, q \in Seq(Spans), c \in Nat, d \in Nat :
                b = [type |-> k, count |-> c + Len(q),
                     duration |-> d + Sum(Map(Duration, q))]
  <2> DEFINE Timed(k) == Only(t.spans, {s \in Range(t.spans) :
                                     s.kind = k /\ Duration(s) # 0})
             Self(k) == IF k = "app" THEN [count |-> 1, duration |-> calculateSelfTime(t)]
                        ELSE [count |-> 0, duration |-> 0]
  <2>1. PICK k \in Kinds :
          b = [type |-> k, count |-> Self(k).count + Len(Timed(k)),
               duration |-> Self(k).duration + Sum(Map(Duration, Timed(k)))]
    BY DEF groupSpans
  <2>2. Timed(k) \in Seq(Spans)
    BY <1>1, OnlyIn
  <2>3. Self(k).count \in Nat /\ Self(k).duration \in Nat
    BY <1>3
  <2> HIDE DEF Timed, Self
  <2> QED BY <2>1, <2>2, <2>3
<1> QED BY <1>2, <1>4

(* Only the breakdown of a page load has durations that are negative.       *)
LEMMA BreakdownIs ==
    ASSUME NEW t, Covering(t), timing \in Timings
    PROVE  /\ captureBreakdown(t) \in Transactions
           /\ \A f \in {"type", "sampled", "start", "end", "experience", "custom"} :
                 captureBreakdown(t)[f] = t[f]
           /\ \A b \in captureBreakdown(t).breakdown :
                 b \in t.breakdown \/ IsPageLoad(t) \/ b.duration \in Nat
<1>1. t \in Transactions
  BY DEF Covering
<1>2. CASE ~t.sampled
  <2>1. captureBreakdown(t) = t
    BY <1>2 DEF captureBreakdown
  <2> QED BY <1>1, <2>1
<1>3. CASE t.sampled /\ IsPageLoad(t)
  <2>1. PICK B : B =
          {[type |-> p[3], count |-> 1, duration |-> timing[p[2]] - timing[p[1]]] :
             p \in {q \in pageLoadBreakdowns : timing[q[2]] # timing[q[1]]}}
    OBVIOUS
  <2>2. B \in SUBSET Samples
    <3>1. ASSUME NEW p \in pageLoadBreakdowns
          PROVE  [type |-> p[3], count |-> 1, duration |-> timing[p[2]] - timing[p[1]]]
                   \in Samples
      <4>1. timing[p[2]] - timing[p[1]] \in Int
        BY TimingIs
      <4>2. p[3] \in Kinds \cup {q[3] : q \in pageLoadBreakdowns}
        OBVIOUS
      <4> QED BY <4>1, <4>2 DEF Samples
    <3> QED BY <2>1, <3>1
  <2>3. PICK h : h = [t EXCEPT !.breakdown = B]
    OBVIOUS
  <2>4. captureBreakdown(t) = h
    BY <1>3, <2>1, <2>3 DEF captureBreakdown
  <2>5. h \in Transactions
    BY <1>1, <2>2, <2>3 DEF Transactions
  <2>6. \A f \in {"type", "sampled", "start", "end", "experience", "custom"} : h[f] = t[f]
    BY <1>1, <2>3 DEF Transactions
  <2> QED BY <1>3, <2>4, <2>5, <2>6
<1>4. CASE t.sampled /\ ~IsPageLoad(t)
  <2>1. PICK s \in Seq(Spans) : s = SortByStart(t.spans)
    BY <1>1, SortIs DEF Transactions
  <2>2. PICK B : B = groupSpans(t)
    OBVIOUS
  <2>3. B \in SUBSET Samples /\ \A b \in B : b.duration \in Nat
    BY <2>2, GroupSpansAre
  <2>4. PICK h : h = [t EXCEPT !.breakdown = B, !.spans = s]
    OBVIOUS
  <2>5. captureBreakdown(t) = h
    BY <1>1, <1>4, <2>1, <2>2, <2>4 DEF captureBreakdown, Transactions
  <2>6. h \in Transactions /\ h.breakdown = B
    BY <1>1, <2>3, <2>4 DEF Transactions
  <2>7. \A f \in {"type", "sampled", "start", "end", "experience", "custom"} : h[f] = t[f]
    BY <1>1, <2>4 DEF Transactions
  <2> QED BY <2>3, <2>5, <2>6, <2>7
<1> QED BY <1>2, <1>3, <1>4

LEMMA AdjustIs ==
    ASSUME NEW t \in Transactions
    PROVE  /\ adjustTransaction(t) \in Transactions
           /\ \A f \in {"type", "sampled", "start", "end", "breakdown", "experience", "custom"} :
                 adjustTransaction(t)[f] = t[f]
<1>1. PICK q : q = Only(t.spans, {s \in Range(t.spans) :
                       Duration(s) > 0 /\ s.start >= t.start /\ s.end <= t.end})
  OBVIOUS
<1>2. q \in Seq(Spans)
  BY <1>1, OnlyIn DEF Transactions
<1>3. PICK g : g = groupSmallContinuouslySimilarSpans(q, Duration(t))
  OBVIOUS
<1>4. g \in Seq(Spans)
  BY <1>2, <1>3, GroupsAre
<1>5. PICK s \in Seq(Spans) : s = IF ~t.sampled THEN <<>> ELSE IF Managed(t) THEN g ELSE q
  <2>1. <<>> \in Seq(Spans)
    OBVIOUS
  <2> QED BY <1>2, <1>4, <2>1
<1>6. PICK h : h = [t EXCEPT !.spans = s]
  OBVIOUS
<1>7. adjustTransaction(t) = h
  BY <1>1, <1>3, <1>5, <1>6 DEF adjustTransaction
<1>8. h \in Transactions
  BY <1>6 DEF Transactions
<1>9. \A f \in {"type", "sampled", "start", "end", "breakdown", "experience", "custom"} :
        h[f] = t[f]
  BY <1>6 DEF Transactions
<1> QED BY <1>7, <1>8, <1>9

-----------------------------------------------------------------------------
(* The invariant: what the variables are, *)
Typed ==
    /\ clock \in 0..MaxTime /\ entries \in [Sorts -> Nat] /\ timing \in Timings
    /\ metrics \in Metrics /\ endedAt \in Nat /\ tr \in Transactions
    /\ observed \in Seq(Observations) /\ resources \in Seq(Resources)
    /\ measures \in Seq([start : Nat, duration : Nat])
    /\ earlier \in Seq(Observations)

(* that nothing is painted before the document is fetched,                  *)
PaintsLater ==
    \A i \in 1..Len(observed) :
       observed[i].type = "paint" =>
          observed[i].start > timing["fetchStart"] - timing["navigationStart"]

(* that the transaction does not end before it starts,                      *)
Timely ==
    /\ Running => tr.start <= clock
    /\ tr.status = "ended" => tr.start <= tr.end

(* and that its breakdown is measured when it is settled.                   *)
Measured ==
    /\ tr.status # "settled" => tr.breakdown = {}
    /\ \A b \in tr.breakdown : IsPageLoad(tr) \/ b.duration \in Nat

TInv == Typed /\ PaintsLater /\ Timely /\ Measured

LEMMA TInvInit == Init => TInv
<1> SUFFICES ASSUME Init PROVE TInv
  OBVIOUS
<1>1. NoMetrics \in Metrics
  BY ReportAssumption DEF NoMetrics, Metrics
<1>2. /\ "custom" \in Types /\ {} \in SUBSET Marks /\ {} \in SUBSET Samples
      /\ <<>> \in Seq(Spans) /\ <<>> \in Seq(Nat)
  BY DEF Types
<1>3. PICK h : h = [status |-> "unstarted", type |-> "custom", sampled |-> FALSE,
             start |-> 0, end |-> 0, spans |-> <<>>, custom |-> <<>>,
             navigation |-> {}, agent |-> {}, experience |-> NoMetrics,
             breakdown |-> {}]
  OBVIOUS
<1>4. h \in Transactions
  BY <1>1, <1>2, <1>3 DEF Transactions
<1>5. h.status = "unstarted" /\ h.breakdown = {} /\ tr = h
  BY <1>3 DEF Init
<1>6. 0 \in 0..MaxTime
  BY ReportAssumption
<1>7. Typed
  <2>1. tr \in Transactions /\ metrics \in Metrics /\ clock \in 0..MaxTime /\ endedAt \in Nat
    BY <1>1, <1>4, <1>5, <1>6 DEF Init
  <2>2. entries \in [Sorts -> Nat]
    BY DEF Init
  <2>3. /\ observed \in Seq(Observations) /\ resources \in Seq(Resources)
        /\ measures \in Seq([start : Nat, duration : Nat]) /\ timing \in Timings
        /\ earlier \in Seq(Observations)
    BY DEF Init
  <2> QED BY <2>1, <2>2, <2>3 DEF Typed
<1>8. PaintsLater
  BY DEF Init, PaintsLater
<1>9. Timely /\ Measured
  BY <1>5 DEF Timely, Measured, Running
<1> QED BY <1>7, <1>8, <1>9 DEF TInv

LEMMA EntryIs ==
    ASSUME NEW sort \in Sorts, Typed, Entry(sort)
    PROVE  entries' \in [Sorts -> Nat]
<1>1. \A k \in Sorts : entries[k] \in Nat
  BY DEF Typed
<1>2. entries' = [entries EXCEPT ![sort] = entries[sort] + 1]
  BY DEF Entry, Typed
<1> QED BY <1>1, <1>2 DEF Typed

LEMMA AppendIs ==
    ASSUME NEW E, NEW s \in Seq(E), NEW x \in E
    PROVE  /\ Append(s, x) \in Seq(E) /\ Len(Append(s, x)) = Len(s) + 1
           /\ \A i \in 1..Len(s) : Append(s, x)[i] = s[i]
           /\ Append(s, x)[Len(s) + 1] = x
           /\ \A i \in 1..(Len(s) + 1) : i \in 1..Len(s) \/ i = Len(s) + 1
<1>1. Len(s) \in Nat
  OBVIOUS
<1> QED BY <1>1

(* An entry is observed; a paint is later than the fetch.                   *)
LEMMA ObservedOne ==
    ASSUME Typed, PaintsLater, NEW e \in Observations,
           timing' = timing, observed' = Append(observed, e),
           e.type = "paint" => e.start > timing["fetchStart"] - timing["navigationStart"]
    PROVE  observed' \in Seq(Observations) /\ PaintsLater'
<1>1. /\ observed' \in Seq(Observations) /\ Len(observed') = Len(observed) + 1
      /\ \A i \in 1..Len(observed) : observed'[i] = observed[i]
      /\ observed'[Len(observed) + 1] = e
      /\ \A i \in 1..(Len(observed) + 1) : i \in 1..Len(observed) \/ i = Len(observed) + 1
  BY AppendIs DEF Typed
<1>2. timing'["fetchStart"] - timing'["navigationStart"] =
        timing["fetchStart"] - timing["navigationStart"]
  OBVIOUS
<1> QED BY <1>1, <1>2 DEF PaintsLater

LEMMA StartTyped ==
    ASSUME TInv, NEW start \in Starts, Start(start[1], start[2])
    PROVE  TInv'
<1> USE DEF TInv
<1>1. start[1] \in Types /\ start[2] \in BOOLEAN
  BY ReportAssumption
<1>2. PICK h : h = [tr EXCEPT !.status = "running", !.type = start[1],
                              !.sampled = start[2], !.start = clock]
  OBVIOUS
<1>3. tr' = h
  BY <1>2 DEF Start
<1>4. clock \in Nat /\ tr \in Transactions
  BY ReportAssumption DEF Typed
<1>5. h \in Transactions
  BY <1>1, <1>2, <1>4 DEF Transactions
<1>6. h.status = "running" /\ h.start = clock /\ h.breakdown = tr.breakdown
  BY <1>2, <1>4 DEF Transactions
<1>7. tr.breakdown = {}
  BY DEF Measured, Start
<1>8. Typed'
  BY <1>3, <1>5 DEF Typed, Start
<1>9. PaintsLater'
  BY DEF PaintsLater, Start
<1>10. Timely' /\ Measured'
  BY <1>3, <1>4, <1>6, <1>7 DEF Timely, Measured, Running, Start
<1> QED BY <1>8, <1>9, <1>10

LEMMA TickTyped ==
    ASSUME TInv, Tick
    PROVE  TInv'
<1> USE DEF TInv
<1>1. /\ clock \in 0..MaxTime /\ clock' = clock + 1 /\ clock < MaxTime /\ tr' = tr
      /\ MaxTime \in Nat /\ tr.start \in Nat
  BY ReportAssumption DEF Tick, Typed, Transactions
<1>2. clock' \in 0..MaxTime
  BY <1>1
<1>3. Typed'
  BY <1>2 DEF Typed, Tick
<1>4. PaintsLater'
  BY DEF PaintsLater, Tick
<1>5. Running' => tr'.start <= clock'
  BY <1>1 DEF Timely, Running
<1>6. Timely' /\ Measured'
  BY <1>1, <1>5 DEF Timely, Measured, IsPageLoad
<1> QED BY <1>3, <1>4, <1>6

LEMMA LongTaskTyped ==
    ASSUME TInv, NEW d \in 1..MaxTime, NEW name \in {"self", "cross-origin"},
           LongTask(d, name)
    PROVE  TInv'
<1> USE DEF TInv
<1>1. /\ clock \in 0..MaxTime /\ clock' = clock + d /\ clock + d <= MaxTime /\ tr' = tr
      /\ MaxTime \in Nat /\ tr.start \in Nat
  BY ReportAssumption DEF LongTask, Typed, Transactions
<1>2. clock' \in 0..MaxTime /\ clock \in Nat /\ d \in Nat /\ clock <= clock'
  BY <1>1
<1>3. PICK e : e = [type |-> "longtask", name |-> name, start |-> clock, duration |-> d]
  OBVIOUS
<1>4. e \in Observations /\ e.type # "paint"
  BY <1>2, <1>3 DEF Observations, Observed
<1>5. observed' \in Seq(Observations) /\ PaintsLater'
  BY <1>3, <1>4, ObservedOne DEF LongTask
<1>6. entries' \in [Sorts -> Nat]
  BY EntryIs DEF LongTask, Sorts
<1>7. Typed'
  BY <1>2, <1>5, <1>6 DEF Typed, LongTask
<1>8. Running' => tr'.start <= clock'
  BY <1>1, <1>2 DEF Timely, Running
<1>9. Timely' /\ Measured'
  BY <1>1, <1>8 DEF Timely, Measured, IsPageLoad
<1> QED BY <1>5, <1>7, <1>9

LEMMA VitalTyped ==
    ASSUME TInv, NEW d \in 0..MaxTime,
           NEW type \in {"paint", "largest-contentful-paint", "first-input",
                         "layout-shift"},
           Vital(type, d)
    PROVE  TInv'
<1> USE DEF TInv
<1>1. /\ clock \in 0..MaxTime /\ d <= clock /\ d \in Nat /\ MaxTime \in Nat
      /\ clock' = clock /\ tr' = tr /\ timing' = timing
  BY ReportAssumption DEF Vital, Typed
<1>2. clock - d \in Nat
  BY <1>1
<1>3. PICK e : e = [type |-> type, name |-> type, start |-> clock - d, duration |-> d]
  OBVIOUS
<1>4. e \in Observations /\ e.type = type
  BY <1>1, <1>2, <1>3 DEF Observations, Observed
<1>5. ASSUME type = "paint"
      PROVE  e.start > timing["fetchStart"] - timing["navigationStart"]
  <2>1. d = 0 /\ clock > timing["fetchStart"] - timing["navigationStart"]
    BY <1>5 DEF Vital
  <2>2. e.start = clock
    BY <1>1, <1>3, <2>1
  <2> QED BY <2>1, <2>2
<1>6. observed' \in Seq(Observations) /\ PaintsLater'
  <2>1. observed' = Append(observed, e)
    BY <1>3 DEF Vital
  <2> QED BY <1>1, <1>4, <1>5, <2>1, ObservedOne
<1>7. entries' \in [Sorts -> Nat]
  BY EntryIs DEF Vital, Sorts
<1>8. Typed'
  BY <1>1, <1>6, <1>7 DEF Typed, Vital
<1>9. Timely' /\ Measured'
  BY <1>1 DEF Timely, Measured, IsPageLoad, Running
<1> QED BY <1>6, <1>8, <1>9

LEMMA MeasureTyped ==
    ASSUME TInv, NEW s \in 0..MaxTime, Measure(s)
    PROVE  TInv'
<1> USE DEF TInv
<1>1. PICK e : e = [start |-> s, duration |-> clock - s]
  OBVIOUS
<1>2. e \in [start : Nat, duration : Nat]
  <2>1. clock - s \in Nat /\ s \in Nat
    BY ReportAssumption DEF Typed, Measure
  <2> QED BY <1>1, <2>1
<1>3. measures' \in Seq([start : Nat, duration : Nat])
  BY <1>1, <1>2, AppendIs DEF Measure, Typed
<1>4. entries' \in [Sorts -> Nat]
  BY EntryIs DEF Measure, Sorts
<1>5. Typed'
  BY <1>3, <1>4 DEF Typed, Measure
<1>6. PaintsLater'
  BY DEF PaintsLater, Measure
<1>7. Timely' /\ Measured'
  BY DEF Timely, Measured, IsPageLoad, Running, Measure
<1> QED BY <1>5, <1>6, <1>7

(* One more span of the transaction changes nothing else of it.             *)
LEMMA MoreSpans ==
    ASSUME Typed, NEW q \in Seq(Spans), NEW h, h = [tr EXCEPT !.spans = q]
    PROVE  /\ h \in Transactions /\ h.spans = q
           /\ \A f \in {"status", "type", "sampled", "start", "end", "breakdown", "custom"} :
                 h[f] = tr[f]
<1>1. tr \in Transactions
  BY DEF Typed
<1>2. h \in Transactions /\ h.spans = q
  BY <1>1 DEF Transactions
<1>3. \A f \in {"status", "type", "sampled", "start", "end", "breakdown", "custom"} : h[f] = tr[f]
  BY <1>1 DEF Transactions
<1> QED BY <1>2, <1>3

(* The rest of the invariant does not depend on its spans.                  *)
LEMMA SameTimes ==
    ASSUME Timely, Measured, clock' = clock,
           \A f \in {"status", "type", "start", "end", "breakdown"} : tr'[f] = tr[f]
    PROVE  Timely' /\ Measured'
BY DEF Timely, Measured, Running, IsPageLoad

LEMMA RequestTyped ==
    ASSUME TInv, NEW initiator \in Initiators, NEW s \in 0..MaxTime, NEW f \in {s, s + 1},
           Request(initiator, s, f)
    PROVE  TInv'
<1> USE DEF TInv
<1>1. /\ clock \in Nat /\ s \in Nat /\ f \in Nat /\ s <= f /\ f < clock
      /\ clock' = clock /\ timing' = timing /\ observed' = observed
  BY ReportAssumption DEF Request, Typed
<1>2. resources' \in Seq(Resources)
  <2>1. PICK e : e = [initiator |-> initiator, start |-> f, end |-> clock]
    OBVIOUS
  <2>2. e \in Resources
    BY <1>1, <2>1 DEF Resources
  <2> QED BY <2>1, <2>2, AppendIs DEF Request, Typed
<1>3. /\ tr' \in Transactions
      /\ \A x \in {"status", "type", "start", "end", "breakdown"} : tr'[x] = tr[x]
  <2>1. CASE tr' = tr
    BY <2>1 DEF Typed
  <2>2. CASE tr' # tr
    <3>1. PICK x : x = Span("external", "GET", s, clock, Len(resources) + 1)
      OBVIOUS
    <3>2. x \in Spans
      <4>1. "external" \in Kinds /\ "GET" \in Names
        BY Zenon DEF Kinds, Names
      <4>2. Len(resources) + 1 \in Nat /\ s <= clock
        BY <1>1 DEF Typed
      <4> QED BY <1>1, <3>1, <4>1, <4>2, SpanIs
    <3>3. PICK q \in Seq(Spans) : q = Append(tr.spans, x)
      BY <3>2, AppendIs DEF Typed, Transactions
    <3>4. tr' = [tr EXCEPT !.spans = q]
      BY <2>2, <3>1, <3>3 DEF Request
    <3> QED BY <3>4, MoreSpans
  <2> QED BY <2>1, <2>2
<1>4. entries' \in [Sorts -> Nat]
  BY EntryIs DEF Request, Sorts
<1>5. Typed'
  BY <1>2, <1>3, <1>4 DEF Typed, Request
<1>6. PaintsLater'
  BY <1>1 DEF PaintsLater
<1>7. Timely' /\ Measured'
  BY <1>1, <1>3, SameTimes
<1> QED BY <1>5, <1>6, <1>7

LEMMA AppSpanTyped ==
    ASSUME TInv, NEW kind \in {"app", "external"}, NEW s \in 0..MaxTime,
           NEW e \in {clock, clock + 1}, AppSpan(kind, s, e)
    PROVE  TInv'
<1> USE DEF TInv
<1>1. /\ clock \in Nat /\ s \in Nat /\ e \in Nat /\ s <= e
      /\ clock' = clock /\ timing' = timing /\ observed' = observed
  BY ReportAssumption DEF AppSpan, Typed
<1>2. PICK x : x = Span(kind, kind, s, e, 0)
  OBVIOUS
<1>3. x \in Spans
  <2>1. kind \in Kinds /\ kind \in Names /\ 0 \in Nat
    BY DEF Kinds, Names
  <2> QED BY <1>1, <1>2, <2>1, SpanIs
<1>4. PICK q \in Seq(Spans) : q = Append(tr.spans, x)
  BY <1>3, AppendIs DEF Typed, Transactions
<1>5. tr' = [tr EXCEPT !.spans = q]
  BY <1>2, <1>4 DEF AppSpan
<1>6. /\ tr' \in Transactions
      /\ \A f \in {"status", "type", "start", "end", "breakdown"} : tr'[f] = tr[f]
  BY <1>5, MoreSpans
<1>7. entries' \in [Sorts -> Nat]
  BY EntryIs DEF AppSpan, Sorts
<1>8. Typed'
  BY <1>6, <1>7 DEF Typed, AppSpan
<1>9. PaintsLater'
  BY <1>1 DEF PaintsLater
<1>10. Timely' /\ Measured'
  BY <1>1, <1>6, SameTimes
<1> QED BY <1>8, <1>9, <1>10

LEMMA MarkTyped ==
    ASSUME TInv, Mark
    PROVE  TInv'
<1> USE DEF TInv
<1>1. /\ clock' = clock /\ timing' = timing /\ observed' = observed
  BY DEF Mark
<1>2. clock - tr.start \in Nat
  <2>1. clock \in Nat /\ tr.start \in Nat
    BY ReportAssumption DEF Typed, Transactions
  <2>2. tr.start <= clock
    BY DEF Mark, Timely
  <2> QED BY <2>1, <2>2
<1>3. PICK c \in Seq(Nat) : c = Append(tr.custom, clock - tr.start)
  BY <1>2, AppendIs DEF Typed, Transactions
<1>4. PICK h : h = [tr EXCEPT !.custom = c]
  OBVIOUS
<1>5. tr' = h
  BY <1>3, <1>4 DEF Mark
<1>6. h \in Transactions
  BY <1>4 DEF Typed, Transactions
<1>7. \A f \in {"status", "type", "start", "end", "breakdown"} : h[f] = tr[f]
  BY <1>4 DEF Typed, Transactions
<1>8. entries' \in [Sorts -> Nat]
  BY EntryIs DEF Mark, Sorts
<1>9. Typed'
  BY <1>5, <1>6, <1>8 DEF Typed, Mark
<1>10. PaintsLater'
  BY <1>1 DEF PaintsLater
<1>11. Timely' /\ Measured'
  BY <1>1, <1>5, <1>7, SameTimes
<1> QED BY <1>9, <1>10, <1>11

LEMMA OfTypeIs ==
    ASSUME NEW list \in Seq(Observations), NEW type
    PROVE  /\ OfType(list, type) \in Seq(Observations)
           /\ OfType(list, type) # <<>> =>
                 \E i \in 1..Len(list) : list[i] = OfType(list, type)[1] /\ list[i].type = type
<1>1. PICK T : T = {e \in Range(list) : e.type = type}
  OBVIOUS
<1>2. PICK q : q = Only(list, T)
  OBVIOUS
<1>3. q \in Seq(Observations) /\ q \in Seq(Observations \cap T)
  BY <1>2, OnlyIn, OnlyType
<1>4. OfType(list, type) = q
  BY <1>1, <1>2 DEF OfType
<1>5. ASSUME q # <<>>
      PROVE  \E i \in 1..Len(list) : list[i] = q[1] /\ list[i].type = type
  <2>1. q[1] \in T
    BY <1>3, <1>5
  <2> QED BY <1>1, <2>1 DEF Range
<1> QED BY <1>3, <1>4, <1>5

(* The first paint is no earlier than the unload handler's share.           *)
LEMMA FirstPaintIs ==
    ASSUME timing \in Timings, observed \in Seq(Observations), PaintsLater
    PROVE  FirstPaint(observed) \in SUBSET Nat
<1>1. PICK q \in Seq(Observations) : q = OfType(observed, "paint")
  BY OfTypeIs
<1>2. PICK u \in Int : u = timing["fetchStart"] - timing["navigationStart"]
  BY TimingIs
<1>3. CASE q = <<>>
  BY <1>1, <1>3 DEF FirstPaint
<1>4. CASE q # <<>>
  <2>1. PICK i \in 1..Len(observed) : observed[i] = q[1] /\ observed[i].type = "paint"
    BY <1>1, <1>4, OfTypeIs
  <2>2. q[1].start > u /\ q[1].start \in Nat
    <3>1. observed[i] \in Observations
      BY ElementOfSeq
    <3>2. observed[i].start > u /\ observed[i].start \in Nat
      BY <1>2, <2>1, <3>1 DEF PaintsLater, Observations
    <3> QED BY <2>1, <3>2
  <2>3. PICK v : v = IF u >= 0 THEN q[1].start - u ELSE q[1].start
    OBVIOUS
  <2>4. v \in Nat
    BY <1>2, <2>2, <2>3
  <2>5. FirstPaint(observed) = {v}
    BY <1>1, <1>2, <1>4, <2>3 DEF FirstPaint
  <2> QED BY <2>4, <2>5
<1> QED BY <1>3, <1>4

LEMMA VitalsAre ==
    ASSUME timing \in Timings, observed \in Seq(Observations), PaintsLater,
           NEW m \in Metrics, NEW tasks \in Seq(Observations)
    PROVE  \E r \in Metrics :
              /\ r = captureVitals(m, observed, tasks)
              /\ r.count = m.count /\ r.sum = m.sum
              /\ Blocks(m, r, tasks)
<1>1. PICK c \in Nat : c = IF FirstPaint(observed) = {} THEN m.fcp
                           ELSE CHOOSE x \in FirstPaint(observed) : TRUE
  BY FirstPaintIs DEF Metrics
<1>2. PICK fid \in Seq(Observations) : fid = OfType(observed, "first-input")
  BY OfTypeIs
<1>3. PICK d \in Nat : d = IF fid = <<>> THEN m.fid ELSE fid[1].duration
  <2>1. CASE fid = <<>>
    BY <2>1 DEF Metrics
  <2>2. CASE fid # <<>>
    <3>1. fid[1] \in Observations
      BY <2>2
    <3> QED BY <2>2, <3>1 DEF Observations
  <2> QED BY <2>1, <2>2
<1>4. PICK seen \in Metrics :
        /\ seen = [m EXCEPT !.fcp = c, !.fid = d]
        /\ seen.count = m.count /\ seen.sum = m.sum
        /\ seen.tbt = m.tbt /\ seen.tbtStart = m.tbtStart
  <2>1. PICK h : h = [m EXCEPT !.fcp = c, !.fid = d]
    OBVIOUS
  <2>2. h \in Metrics
    BY <2>1 DEF Metrics
  <2>3. h.count = m.count /\ h.sum = m.sum /\ h.tbt = m.tbt /\ h.tbtStart = m.tbtStart
    BY <2>1 DEF Metrics
  <2> QED BY <2>1, <2>2, <2>3
<1>5. PICK b \in Metrics :
        /\ b = calculateTotalBlockingTime(seen, tasks)
        /\ b.count = seen.count /\ b.sum = seen.sum
        /\ Blocks(seen, b, tasks)
  BY TotalBlockingIs
<1>6. PICK n \in Nat : n = Len(OfType(observed, "layout-shift"))
  BY OfTypeIs
<1>7. PICK s \in Nat : s = b.cls + n
  <2>1. b.cls \in Nat
    BY DEF Metrics
  <2> QED BY <2>1
<1>8. captureVitals(m, observed, tasks) = [b EXCEPT !.cls = s]
  <2>1. seen = [m EXCEPT !.fcp = IF FirstPaint(observed) = {} THEN @
                                 ELSE CHOOSE x \in FirstPaint(observed) : TRUE,
                         !.fid = IF fid = <<>> THEN @ ELSE fid[1].duration]
    BY <1>1, <1>3, <1>4
  <2> QED BY <1>2, <1>5, <1>6, <1>7, <2>1 DEF captureVitals
<1>9. PICK r : r = [b EXCEPT !.cls = s]
  OBVIOUS
<1>10. r \in Metrics
  BY <1>9 DEF Metrics
<1>11. r.count = b.count /\ r.sum = b.sum /\ r.tbt = b.tbt /\ r.tbtStart = b.tbtStart
  BY <1>9 DEF Metrics
<1>12. Blocks(m, r, tasks)
  BY <1>4, <1>5, <1>11 DEF Blocks, BlockedBefore
<1> QED BY <1>4, <1>5, <1>8, <1>9, <1>10, <1>11, <1>12

(* Each task is counted in r, with the time it took.                        *)
Counts(m, r, tasks) ==
    r.count = m.count + Len(tasks) /\ r.sum = m.sum + Spent(tasks)

(* What the observer delivers: the spans of long tasks, and f, what else    *)
(* there is.                                                                *)
Delivers(tasks, f) ==
    /\ \E T : tasks = Only(observed, T)
    /\ \A i \in 1..Len(tasks) : tasks[i].type = "longtask"
    /\ f \in Seq(TimelineSpans) /\ \A b : Within(observed, b) => EndBy(f, b)
    /\ Counts(metrics, metrics', tasks) /\ Blocks(metrics, metrics', tasks)
    /\ tr'.spans = (tr.spans \o createLongTaskSpans(tasks)) \o f
    /\ ~CaptureTimings(tr) => tr'.spans = tr.spans

LEMMA ObserveIs ==
    ASSUME TInv, Observe
    PROVE  /\ metrics' \in Metrics /\ tr' \in Transactions
           /\ \A f \in {"status", "type", "sampled", "start", "end", "breakdown", "custom"} :
                 tr'[f] = tr[f]
           /\ \E tasks \in Seq(Observations), f \in Seq(TimelineSpans) : Delivers(tasks, f)
<1> USE DEF TInv
<1>1. tr \in Transactions /\ tr.spans \in Seq(Spans) /\ metrics \in Metrics
      /\ observed \in Seq(Observations) /\ timing \in Timings
  BY DEF Typed, Transactions
<1>2. PICK from : from = IF IsPageLoad(tr) THEN 0 ELSE tr.start
  OBVIOUS
<1>3. PICK T : T = {e \in Range(observed) : e.type = "longtask" /\ e.start >= from}
  OBVIOUS
<1>4. PICK tasks \in Seq(Observations) : tasks = Only(observed, T)
  BY <1>1, OnlyIn
<1>5. \A i \in 1..Len(tasks) : tasks[i].type = "longtask"
  <2>1. tasks \in Seq(Observations \cap T)
    BY <1>1, <1>4, OnlyType
  <2>2. \A i \in 1..Len(tasks) : tasks[i] \in T
    BY <2>1, ElementOfSeq
  <2> QED BY <1>3, <2>2
<1>6. PICK counted \in Metrics :
        /\ counted = AggregateLongTasks(metrics, tasks)
        /\ Counts(metrics, counted, tasks)
        /\ counted.tbt = metrics.tbt /\ counted.tbtStart = metrics.tbtStart
  BY <1>1, LongTasksCounted DEF Counts
<1>7. PICK u \in Seq(UncalledSpans) : u = createLongTaskSpans(tasks)
  BY LongTaskSpansAre
<1>8. PICK v \in Seq(TimelineSpans) :
        /\ v = createFirstInputDelaySpan(OfType(observed, "first-input"))
        /\ \A b : Within(observed, b) => EndBy(v, b)
  <2>1. PICK fid \in Seq(Observations) :
          /\ fid = OfType(observed, "first-input")
          /\ fid # <<>> => \E i \in 1..Len(observed) : observed[i] = fid[1]
    BY <1>1, OfTypeIs
  <2>2. ASSUME NEW b, Within(observed, b)
        PROVE  EndBy(createFirstInputDelaySpan(fid), b)
    <3>1. fid = <<>> \/ fid[1].start + fid[1].duration <= b
      BY <2>1, <2>2 DEF Within
    <3> QED BY <3>1, FirstInputSpansAre
  <2>3. PICK b : fid = <<>> \/ fid[1].start + fid[1].duration <= b
    <3>1. CASE fid = <<>>
      BY <3>1
    <3>2. CASE fid # <<>>
      <4>1. fid[1] \in Observations
        BY <3>2
      <4>2. PICK b \in Nat : b = fid[1].start + fid[1].duration
        BY <4>1 DEF Observations
      <4>3. fid[1].start + fid[1].duration <= b
        BY <4>2
      <4> QED BY <4>3
    <3> QED BY <3>1, <3>2
  <2>4. createFirstInputDelaySpan(fid) \in Seq(TimelineSpans)
    BY <2>3, FirstInputSpansAre
  <2> QED BY <2>1, <2>2, <2>4
<1>9. u \in Seq(Spans) /\ v \in Seq(Spans)
  BY SeqMonotonic DEF UncalledSpans, TimelineSpans
<1>10. PICK e : e = <<>>
  OBVIOUS
<1>11. /\ e \in Seq(TimelineSpans) /\ e \in Seq(Observations) /\ Len(e) = 0
       /\ \A b : EndBy(e, b)
       /\ createLongTaskSpans(e) = e /\ Spent(e) = 0 /\ Only(observed, {}) = e
  <2>1. e \in Seq(TimelineSpans) /\ e \in Seq(Observations) /\ Len(e) = 0
    BY <1>10
  <2>2. \A b : EndBy(e, b)
    BY <2>1 DEF EndBy
  <2>3. createLongTaskSpans(e) = e
    BY <1>10 DEF createLongTaskSpans, Map
  <2>4. Spent(e) = 0
    BY <1>10, <2>1, SpentIs
  <2>5. Only(observed, {}) = e
    BY <1>1, <1>10, OnlyAll
  <2> QED BY <2>1, <2>2, <2>3, <2>4, <2>5
<1>12. CASE ~CaptureTimings(tr)
  <2>1. tr' = tr /\ metrics' = metrics
    BY <1>12 DEF Observe
  <2>2. tr.spans = (tr.spans \o e) \o e
    BY <1>1, <1>10
  <2>3. Counts(metrics, metrics', e) /\ Blocks(metrics, metrics', e)
    <3>1. metrics.count \in Nat /\ metrics.sum \in Nat /\ metrics.tbt \in Nat
          /\ metrics.tbtStart \in Nat
      BY <1>1 DEF Metrics
    <3> QED BY <1>11, <2>1, <3>1 DEF Counts, Blocks, Sequential, BlockedBefore
  <2>4. \A i \in 1..Len(e) : e[i].type = "longtask"
    BY <1>11
  <2>5. Delivers(e, e)
    BY <1>11, <2>1, <2>2, <2>3, <2>4 DEF Delivers
  <2> QED BY <1>1, <1>11, <2>1, <2>5
<1>13. CASE CaptureTimings(tr) /\ ~IsPageLoad(tr)
  <2>1. PICK q \in Seq(Spans) : q = tr.spans \o u
    BY <1>1, <1>9, ConcatProperties
  <2>2. metrics' = counted /\ tr' = [tr EXCEPT !.spans = q]
    BY <1>2, <1>3, <1>4, <1>6, <1>7, <1>13, <2>1 DEF Observe
  <2>3. Counts(metrics, metrics', tasks) /\ Blocks(metrics, metrics', tasks)
    <3>1. metrics.tbt \in Nat /\ metrics.tbtStart \in Nat
      BY <1>1 DEF Metrics
    <3>2. Spent(tasks) \in Nat
      BY SpentIs
    <3> QED BY <1>6, <2>2, <3>1, <3>2 DEF Blocks, Sequential, BlockedBefore
  <2>4. /\ tr' \in Transactions /\ tr'.spans = q
        /\ \A f \in {"status", "type", "sampled", "start", "end", "breakdown", "custom"} :
              tr'[f] = tr[f]
    BY <2>2, MoreSpans
  <2>5. tr'.spans = (tr.spans \o createLongTaskSpans(tasks)) \o e
    BY <1>7, <1>10, <2>1, <2>4
  <2>6. Delivers(tasks, e)
    BY <1>4, <1>5, <1>11, <1>13, <2>3, <2>5 DEF Delivers
  <2> QED BY <1>11, <2>2, <2>4, <2>6
<1>14. CASE CaptureTimings(tr) /\ IsPageLoad(tr)
  <2>1. PICK q \in Seq(Spans) : q = (tr.spans \o u) \o v
    <3>1. tr.spans \o u \in Seq(Spans)
      BY <1>1, <1>9, ConcatProperties
    <3> QED BY <1>9, <3>1, ConcatProperties
  <2>2. PICK lcp \in Seq(Observations) : lcp = OfType(observed, "largest-contentful-paint")
    BY <1>1, OfTypeIs
  <2>3. PICK a \in SUBSET Marks :
          a = tr.agent \cup {<<"fcp", t>> : t \in FirstPaint(observed)}
                \cup (IF lcp = <<>> THEN {} ELSE {<<"lcp", Last(lcp).start>>})
    <3>1. tr.agent \in SUBSET Marks
      BY DEF Typed, Transactions
    <3>2. {<<"fcp", t>> : t \in FirstPaint(observed)} \in SUBSET Marks
      <4>1. "fcp" \in NAVIGATION_TIMING_MARKS \cup {"fcp", "lcp"}
        OBVIOUS
      <4> QED BY <1>1, <4>1, FirstPaintIs DEF Marks
    <3>3. (IF lcp = <<>> THEN {} ELSE {<<"lcp", Last(lcp).start>>}) \in SUBSET Marks
      <4>1. CASE lcp # <<>>
        <5>1. Len(lcp) \in Nat \ {0}
          BY <4>1, EmptySeq
        <5>2. Last(lcp) \in Observations
          BY <5>1, ElementOfSeq DEF Last
        <5>3. Last(lcp).start \in Nat
          BY <5>2 DEF Observations
        <5>4. "lcp" \in NAVIGATION_TIMING_MARKS \cup {"fcp", "lcp"}
          OBVIOUS
        <5> QED BY <5>3, <5>4 DEF Marks
      <4> QED BY <4>1
    <3> QED BY <3>1, <3>2, <3>3
  <2>4. PICK w \in Metrics :
          /\ w = captureVitals(counted, observed, tasks)
          /\ w.count = counted.count /\ w.sum = counted.sum
          /\ Blocks(counted, w, tasks)
    BY <1>1, VitalsAre
  <2>5. PICK h : h = [tr EXCEPT !.spans = q, !.agent = a]
    OBVIOUS
  <2>6. metrics' = w
    BY <1>2, <1>3, <1>4, <1>6, <1>14, <2>4 DEF Observe
  <2>7. tr' = h
    BY <1>2, <1>3, <1>4, <1>7, <1>8, <1>14, <2>1, <2>2, <2>3, <2>5 DEF Observe
  <2>8. h \in Transactions /\ h.spans = q
    BY <1>1, <2>5 DEF Transactions
  <2>9. \A f \in {"status", "type", "sampled", "start", "end", "breakdown", "custom"} :
            h[f] = tr[f]
    BY <1>1, <2>5 DEF Transactions
  <2>10. Counts(metrics, metrics', tasks) /\ Blocks(metrics, metrics', tasks)
    BY <1>6, <2>4, <2>6 DEF Counts, Blocks, BlockedBefore
  <2>11. tr'.spans = (tr.spans \o createLongTaskSpans(tasks)) \o v
    BY <1>7, <2>1, <2>7, <2>8
  <2>12. Delivers(tasks, v)
    BY <1>4, <1>5, <1>8, <1>14, <2>10, <2>11 DEF Delivers
  <2> QED BY <2>6, <2>7, <2>8, <2>9, <2>12
<1> QED BY <1>12, <1>13, <1>14

LEMMA ObserveTyped ==
    ASSUME TInv, Observe
    PROVE  TInv'
<1>1. /\ metrics' \in Metrics /\ tr' \in Transactions
      /\ \A f \in {"status", "type", "start", "end", "breakdown"} : tr'[f] = tr[f]
  BY ObserveIs
<1>2. /\ clock' = clock /\ observed' = <<>> /\ timing' = timing /\ entries' = entries
      /\ endedAt' = endedAt /\ resources' = resources /\ measures' = measures
      /\ earlier' = earlier
  BY DEF Observe
<1>3. observed' \in Seq(Observations) /\ PaintsLater'
  BY <1>2 DEF PaintsLater
<1>4. Typed'
  BY <1>1, <1>2, <1>3 DEF TInv, Typed
<1>5. Timely' /\ Measured'
  BY <1>1, <1>2, SameTimes DEF TInv
<1> QED BY <1>3, <1>4, <1>5 DEF TInv

LEMMA EndTyped ==
    ASSUME TInv, NEW endTime \in {clock - 1, clock, clock + 1}, End(endTime)
    PROVE  TInv'
<1> USE DEF TInv
<1>1. tr \in Transactions /\ tr.start \in Nat /\ clock \in Nat /\ tr.status = "running"
  BY ReportAssumption DEF Typed, Transactions, End, Running
<1>2. endTime \in Nat /\ tr.start <= endTime
  BY <1>1 DEF End
<1>3. PICK h : h = [tr EXCEPT !.status = "ended", !.end = endTime]
  OBVIOUS
<1>4. tr' = h
  BY <1>3 DEF End
<1>5. h \in Transactions
  BY <1>1, <1>2, <1>3 DEF Transactions
<1>6. h.status = "ended" /\ h.start = tr.start /\ h.end = endTime /\ h.breakdown = tr.breakdown
  BY <1>1, <1>3 DEF Transactions
<1>7. tr.breakdown = {}
  BY <1>1 DEF Measured
<1>8. observed' = <<>> /\ endedAt' = endTime
  BY DEF End
<1>9. Typed'
  BY <1>2, <1>4, <1>5, <1>8 DEF Typed, End
<1>10. PaintsLater'
  BY <1>8 DEF PaintsLater
<1>11. Timely' /\ Measured'
  BY <1>2, <1>4, <1>6, <1>7 DEF Timely, Measured, Running
<1> QED BY <1>9, <1>10, <1>11

(* Long tasks of an earlier transaction are counted, and nothing else.      *)
LEMMA EarlierIs ==
    ASSUME TInv, NEW from, EarlierObserve(from)
    PROVE  /\ metrics' \in Metrics
           /\ metrics'.tbt = metrics.tbt /\ metrics'.tbtStart = metrics.tbtStart
           /\ \E tasks \in Seq(Observations) :
                 earlier' = earlier \o tasks /\ Counts(metrics, metrics', tasks)
           /\ tr.status = "unstarted"
           /\ UNCHANGED <<clock, timing, tr, observed, resources, measures, payload,
                          endedAt, marked, raw, entries>>
<1>1. PICK T : T = {e \in Range(observed) \ Range(earlier) :
                      e.type = "longtask" /\ e.start >= from}
  OBVIOUS
<1>2. PICK tasks \in Seq(Observations) : tasks = Only(observed, T)
  BY OnlyIn DEF TInv, Typed
<1>3. earlier' = earlier \o tasks /\ metrics' = AggregateLongTasks(metrics, tasks)
  BY <1>1, <1>2 DEF EarlierObserve
<1>4. PICK m \in Metrics :
        /\ m = AggregateLongTasks(metrics, tasks)
        /\ Counts(metrics, m, tasks) /\ m.tbt = metrics.tbt /\ m.tbtStart = metrics.tbtStart
  BY LongTasksCounted DEF Counts, TInv, Typed
<1>5. /\ tr.status = "unstarted"
      /\ UNCHANGED <<clock, timing, tr, observed, resources, measures, payload,
                     endedAt, marked, raw, entries>>
  BY DEF EarlierObserve
<1> QED BY <1>3, <1>4, <1>5

LEMMA EarlierTyped ==
    ASSUME TInv, NEW from, EarlierObserve(from)
    PROVE  TInv'
<1>1. PICK tasks \in Seq(Observations) : earlier' = earlier \o tasks
  BY EarlierIs
<1>2. earlier' \in Seq(Observations)
  <2>1. PICK a \in Seq(Observations) : a = earlier
    BY DEF TInv, Typed
  <2> QED BY <1>1, <2>1, ConcatProperties
<1>3. /\ metrics' \in Metrics
      /\ UNCHANGED <<clock, timing, tr, observed, resources, measures, payload,
                     endedAt, marked, raw, entries>>
  BY EarlierIs
<1>4. Typed'
  BY <1>2, <1>3 DEF TInv, Typed
<1>5. PaintsLater' /\ Timely' /\ Measured'
  BY <1>3 DEF TInv, PaintsLater, Timely, Measured, Running, IsPageLoad
<1> QED BY <1>4, <1>5 DEF TInv

(* What is captured when the transaction has ended: c, with the spans of    *)
(* the total blocking time, the navigation, the resources and the measures. *)
Captured(c) ==
    /\ c \in Transactions
    /\ c.start \in {0, tr.start}
    /\ \A f \in {"type", "sampled", "end", "breakdown"} : c[f] = tr[f]
    /\ IsPageLoad(tr) /\ CaptureTimings(tr) =>
          /\ c.start = 0 /\ c.experience = metrics
          /\ c.custom = [i \in 1..Len(tr.custom) |-> tr.custom[i] + tr.start]
    /\ ~CaptureTimings(tr) => c = tr
    /\ \E s \in Seq(TimelineSpans), u \in Seq(TimelineSpans),
          r \in Seq(Spans), v \in Seq(TimelineSpans) :
          /\ OfOthers(r)
          /\ c.spans = (((tr.spans \o s) \o u) \o r) \o v
          /\ \A b : BlockedBefore(metrics, b) => EndBy(s, b)
          /\ EndBy(u, tr.end) /\ EndBy(r, tr.end) /\ EndBy(v, tr.end)

LEMMA CapturedIs ==
    ASSUME Typed
    PROVE  Captured(captureNavigation(AddExperience(tr)))
<1>1. /\ tr \in Transactions /\ metrics \in Metrics /\ timing \in Timings
      /\ resources \in Seq(Resources) /\ measures \in Seq([start : Nat, duration : Nat])
  BY DEF Typed
<1>2. PICK x \in Transactions : x = AddExperience(tr)
  BY <1>1, AddExperienceIs
<1>3. PICK s \in Seq(TimelineSpans) :
        /\ x.spans = tr.spans \o s
        /\ \A b : BlockedBefore(metrics, b) => EndBy(s, b)
  BY <1>1, <1>2, AddExperienceIs
<1>4. /\ \A f \in {"type", "sampled", "start", "end", "breakdown", "custom"} : x[f] = tr[f]
      /\ IsPageLoad(tr) /\ CaptureTimings(tr) => x.experience = metrics
      /\ ~CaptureTimings(tr) => x = tr
  BY <1>1, <1>2, AddExperienceIs
<1>5. PICK c : c = captureNavigation(x)
  OBVIOUS
<1>6. Navigated(c, x)
  BY <1>1, <1>5, CaptureNavigationIs
<1>7. PICK u \in Seq(TimelineSpans), v \in Seq(TimelineSpans), r \in Seq(Spans) :
        /\ OfOthers(r) /\ EndBy(u, x.end) /\ EndBy(v, x.end) /\ EndBy(r, x.end)
        /\ c.spans = ((x.spans \o u) \o r) \o v
  BY <1>1, <1>5, CaptureNavigationIs
<1>8. IsPageLoad(x) = IsPageLoad(tr) /\ CaptureTimings(x) = CaptureTimings(tr)
  BY <1>4 DEF IsPageLoad, CaptureTimings, Managed
<1>9. /\ c \in Transactions /\ c.start \in {0, tr.start}
      /\ \A f \in {"type", "sampled", "end", "breakdown"} : c[f] = tr[f]
  BY <1>4, <1>6 DEF Navigated
<1>10. IsPageLoad(tr) /\ CaptureTimings(tr) =>
          /\ c.start = 0 /\ c.experience = metrics
          /\ c.custom = [i \in 1..Len(tr.custom) |-> tr.custom[i] + tr.start]
  BY <1>4, <1>6, <1>8 DEF Navigated
<1>11. ~CaptureTimings(tr) => c = tr
  BY <1>4, <1>6, <1>8 DEF Navigated
<1>12. c.spans = (((tr.spans \o s) \o u) \o r) \o v /\ x.end = tr.end
  BY <1>3, <1>4, <1>7
<1> QED BY <1>2, <1>3, <1>5, <1>7, <1>9, <1>10, <1>11, <1>12 DEF Captured

(* The microtask, by the transactions it goes through: captured, timed,     *)
(* measured and adjusted.                                                   *)
Settles(breakdownMetrics, c, m, d, a) ==
    /\ Captured(c) /\ raw' = c.spans
    /\ m = adjustTransactionTime(c) /\ Covering(m) /\ Fitted(m, c)
    /\ d = IF breakdownMetrics THEN captureBreakdown(m) ELSE m
    /\ d \in Transactions
    /\ a \in Transactions /\ a = adjustTransaction(d)
    /\ tr' \in Transactions /\ tr'.status = "settled"
    /\ tr' = [a EXCEPT !.status = "settled"]
    /\ \A f \in {"type", "sampled", "experience", "custom"} :
          /\ m[f] = c[f] /\ d[f] = c[f] /\ a[f] = c[f] /\ tr'[f] = c[f]
    /\ \A f \in {"start", "end"} : d[f] = m[f] /\ a[f] = m[f] /\ tr'[f] = m[f]
    /\ a.breakdown = d.breakdown /\ tr'.breakdown = d.breakdown /\ tr'.spans = a.spans
    /\ m.breakdown = {}
    /\ payload' = IF filterTransaction(a) THEN createTransactionDataModel(a)
                  ELSE NoPayload

LEMMA SettleIs ==
    ASSUME TInv, NEW breakdownMetrics \in BOOLEAN, Settle(breakdownMetrics)
    PROVE  /\ \A b \in tr'.breakdown : IsPageLoad(tr') \/ b.duration \in Nat
           /\ \E c, m, d, a \in Transactions : Settles(breakdownMetrics, c, m, d, a)
<1> USE DEF TInv
<1>1. /\ tr \in Transactions /\ metrics \in Metrics /\ timing \in Timings
      /\ resources \in Seq(Resources) /\ measures \in Seq([start : Nat, duration : Nat])
  BY DEF Typed
<1>2. /\ tr.start <= tr.end /\ tr.breakdown = {} /\ tr.start \in Nat /\ tr.end \in Nat
  <2>1. tr.status = "ended"
    BY DEF Settle
  <2> QED BY <1>1, <2>1 DEF Timely, Measured, Transactions
<1>3. PICK c : c = captureNavigation(AddExperience(tr))
  OBVIOUS
<1>4. Captured(c)
  BY <1>3, CapturedIs
<1>5. c \in Transactions /\ c.start <= c.end /\ c.breakdown = {}
  <2>1. c \in Transactions /\ c.end = tr.end /\ c.breakdown = {} /\ c.start \in {0, tr.start}
    BY <1>2, <1>4 DEF Captured
  <2> QED BY <1>2, <2>1
<1>6. PICK m : m = adjustTransactionTime(c)
  OBVIOUS
<1>7. /\ Covering(m) /\ Fitted(m, c) /\ m \in Transactions /\ m.breakdown = {}
      /\ \A f \in {"type", "sampled", "experience", "custom"} : m[f] = c[f]
  BY <1>5, <1>6, AdjustTimeIs DEF Covering
<1>8. PICK d : d = IF breakdownMetrics THEN captureBreakdown(m) ELSE m
  OBVIOUS
<1>9. /\ d \in Transactions /\ \A b \in d.breakdown : IsPageLoad(d) \/ b.duration \in Nat
      /\ \A f \in {"type", "sampled", "start", "end", "experience", "custom"} : d[f] = m[f]
  <2>1. CASE d = m
    BY <1>7, <2>1
  <2>2. CASE d = captureBreakdown(m)
    BY <1>1, <1>7, <2>2, BreakdownIs DEF IsPageLoad
  <2> QED BY <1>8, <2>1, <2>2
<1>10. PICK a \in Transactions : a = adjustTransaction(d)
  BY <1>9, AdjustIs
<1>11. \A f \in {"type", "sampled", "start", "end", "breakdown", "experience", "custom"} :
          a[f] = d[f]
  BY <1>9, <1>10, AdjustIs
<1>12. PICK h : h = [a EXCEPT !.status = "settled"]
  OBVIOUS
<1>13. /\ h \in Transactions /\ h.status = "settled" /\ h.spans = a.spans
       /\ \A f \in {"type", "sampled", "start", "end", "breakdown", "experience", "custom"} :
             h[f] = a[f]
  <2>1. h \in Transactions /\ h.status = "settled" /\ h.spans = a.spans
    BY <1>12 DEF Transactions
  <2>2. \A f \in {"type", "sampled", "start", "end", "breakdown", "experience", "custom"} :
          h[f] = a[f]
    BY <1>12 DEF Transactions
  <2> QED BY <2>1, <2>2
<1>14. tr' = h
  BY <1>3, <1>6, <1>8, <1>10, <1>12 DEF Settle
<1>15. raw' = c.spans
  BY <1>3 DEF Settle
<1>16. payload' = IF filterTransaction(a) THEN createTransactionDataModel(a) ELSE NoPayload
  BY <1>3, <1>6, <1>8, <1>10 DEF Settle
<1>17. \A b \in tr'.breakdown : IsPageLoad(tr') \/ b.duration \in Nat
  BY <1>9, <1>11, <1>13, <1>14 DEF IsPageLoad
<1>18. \A f \in {"type", "sampled", "experience", "custom"} :
          m[f] = c[f] /\ d[f] = c[f] /\ a[f] = c[f] /\ h[f] = c[f]
  BY <1>7, <1>9, <1>11, <1>13
<1>19. /\ \A f \in {"start", "end"} : d[f] = m[f] /\ a[f] = m[f] /\ h[f] = m[f]
       /\ a.breakdown = d.breakdown /\ h.breakdown = d.breakdown
  BY <1>9, <1>11, <1>13
<1>20. Settles(breakdownMetrics, c, m, d, a)
  BY <1>4, <1>6, <1>7, <1>8, <1>9, <1>10, <1>12, <1>13, <1>14, <1>15, <1>16, <1>18, <1>19
     DEF Settles
<1> QED BY <1>5, <1>7, <1>9, <1>17, <1>20

LEMMA SettleTyped ==
    ASSUME TInv, NEW breakdownMetrics \in BOOLEAN, Settle(breakdownMetrics)
    PROVE  TInv'
<1>1. /\ tr' \in Transactions /\ tr'.status = "settled"
      /\ \A b \in tr'.breakdown : IsPageLoad(tr') \/ b.duration \in Nat
  BY SettleIs DEF Settles
<1>2. UNCHANGED <<clock, timing, observed, metrics, resources, measures, endedAt, marked,
                earlier, entries>>
  BY DEF Settle
<1>3. Typed'
  BY <1>1, <1>2 DEF TInv, Typed
<1>4. PaintsLater'
  BY <1>2 DEF TInv, PaintsLater
<1>5. Timely' /\ Measured'
  BY <1>1 DEF Timely, Measured, Running, IsPageLoad
<1> QED BY <1>3, <1>4, <1>5 DEF TInv

LEMMA TInvNext ==
    ASSUME TInv, [Next]_vars
    PROVE  TInv'
<1>1. CASE UNCHANGED vars
  BY <1>1 DEF vars, TInv, Typed, PaintsLater, Timely, Measured, Running, IsPageLoad
<1>2. CASE Next
  BY <1>2, StartTyped, TickTyped, LongTaskTyped, VitalTyped, RequestTyped, MeasureTyped,
     AppSpanTyped, MarkTyped, EarlierTyped, ObserveTyped, EndTyped, SettleTyped, Zenon DEF Next
<1> QED BY <1>1, <1>2

LEMMA TInvReport == TInv => ReportTypeOK
<1> SUFFICES ASSUME TInv PROVE ReportTypeOK
  OBVIOUS
<1> USE DEF TInv
<1>1. Numbers(metrics)
  BY DEF Numbers, Typed, Metrics
<1>2. {tr.start, tr.end, endedAt} \subseteq Nat
  BY DEF Typed, Transactions
<1>3. Range(tr.custom) \subseteq Nat
  BY DEF Typed, Transactions, Range
<1>4. \A m \in tr.navigation \cup tr.agent : m[2] \in Nat
  <2>1. tr.navigation \in SUBSET Marks /\ tr.agent \in SUBSET Marks
    BY DEF Typed, Transactions
  <2> QED BY <2>1 DEF Marks
<1>5. \A s \in Range(tr.spans) :
         s.kind \in Kinds /\ {s.start, s.end} \subseteq Nat /\ s.start <= s.end
  <2>1. tr.spans \in Seq(Spans)
    BY DEF Typed, Transactions
  <2>2. \A s \in Range(tr.spans) : s \in Spans
    BY <2>1 DEF Range
  <2> QED BY <2>2 DEF Spans, AnySpan
<1> QED BY <1>1, <1>2, <1>3, <1>4, <1>5 DEF ReportTypeOK, Typed, Measured

(* Whatever the browser says, no time, duration or count is negative but in *)
(* the breakdown of a page load (metrics.js, capture-navigation.js,         *)
(* breakdown.js, transaction-service.js: adjustTransactionTime).            *)
THEOREM ReportTypeCorrect == Spec => []ReportTypeOK
<1>1. Spec => []TInv
  BY TInvInit, TInvNext, PTL DEF Spec
<1> QED BY <1>1, TInvReport, PTL

-----------------------------------------------------------------------------
(* One span per request *)

(* The requests that spans were made for, and that no two are of the same   *)
Calls(s) == {s[i].call : i \in 1..Len(s)} \ {0}
Distinct(s) ==
    \A i, j \in 1..Len(s) : s[i].call # 0 /\ s[i].call = s[j].call => i = j

(* Until the transaction is settled its spans are of requests that were     *)
(* sent through a patched function; those of the timeline are of others.    *)
Called ==
    /\ raw \in Seq(Spans) /\ Distinct(raw)
    /\ tr.status # "settled" =>
          raw = <<>> /\ Distinct(tr.spans) /\ Calls(tr.spans) \subseteq PatchedCalls

LEMMA ConcatCalls ==
    ASSUME NEW a \in Seq(Spans), NEW b \in Seq(Spans), Distinct(a), Distinct(b),
           Calls(a) \cap Calls(b) = {}
    PROVE  /\ a \o b \in Seq(Spans) /\ Distinct(a \o b)
           /\ Calls(a \o b) \subseteq Calls(a) \cup Calls(b)
<1>1. PICK m \in Nat : m = Len(a)
  OBVIOUS
<1>2. PICK n \in Nat : n = Len(b)
  OBVIOUS
<1>3. PICK v : v = a \o b
  OBVIOUS
<1>4. /\ v \in Seq(Spans) /\ Len(v) = m + n
      /\ \A i \in 1..(m + n) : v[i] = IF i <= m THEN a[i] ELSE b[i - m]
  BY <1>1, <1>2, <1>3, ConcatProperties
<1>5. ASSUME NEW i \in 1..(m + n)
      PROVE  (i \in 1..m /\ v[i] = a[i]) \/ (i - m \in 1..n /\ i > m /\ v[i] = b[i - m])
  <2>1. CASE i <= m
    BY <1>4, <2>1
  <2>2. CASE ~(i <= m)
    <3>1. i - m \in 1..n /\ i > m
      BY <2>2
    <3> QED BY <1>4, <2>2, <3>1
  <2> QED BY <2>1, <2>2
<1>6. /\ \A i \in 1..m : a[i].call # 0 => a[i].call \in Calls(a)
      /\ \A i \in 1..n : b[i].call # 0 => b[i].call \in Calls(b)
  BY <1>1, <1>2 DEF Calls
<1>7. Calls(v) \subseteq Calls(a) \cup Calls(b)
  <2>1. SUFFICES ASSUME NEW i \in 1..(m + n), v[i].call # 0
                 PROVE  v[i].call \in Calls(a) \cup Calls(b)
    BY <1>4 DEF Calls
  <2> QED BY <1>5, <1>6, <2>1
<1>8. Distinct(v)
  <2>1. SUFFICES ASSUME NEW i \in 1..(m + n), NEW j \in 1..(m + n), v[i].call # 0,
                        v[i].call = v[j].call
                 PROVE  i = j
    BY <1>4 DEF Distinct
  <2>2. CASE i \in 1..m /\ v[i] = a[i]
    <3>1. CASE j \in 1..m /\ v[j] = a[j]
      BY <1>1, <2>1, <2>2, <3>1 DEF Distinct
    <3>2. CASE j - m \in 1..n /\ v[j] = b[j - m]
      BY <1>6, <2>1, <2>2, <3>2
    <3> QED BY <1>5, <3>1, <3>2
  <2>3. CASE i - m \in 1..n /\ v[i] = b[i - m]
    <3>1. CASE j \in 1..m /\ v[j] = a[j]
      BY <1>6, <2>1, <2>3, <3>1
    <3>2. CASE j - m \in 1..n /\ v[j] = b[j - m]
      <4>1. i - m = j - m
        BY <1>2, <2>1, <2>3, <3>2 DEF Distinct
      <4> QED BY <4>1
    <3> QED BY <1>5, <3>1, <3>2
  <2> QED BY <1>5, <2>2, <2>3
<1> QED BY <1>3, <1>4, <1>7, <1>8

LEMMA UncalledAre ==
    ASSUME NEW u \in Seq(UncalledSpans)
    PROVE  u \in Seq(Spans) /\ Distinct(u) /\ Calls(u) = {}
<1>1. \A i \in 1..Len(u) : u[i].call = 0
  BY ElementOfSeq DEF UncalledSpans
<1>2. u \in Seq(Spans)
  BY SeqMonotonic DEF UncalledSpans
<1> QED BY <1>1, <1>2 DEF Distinct, Calls

LEMMA AppendCalls ==
    ASSUME NEW a \in Seq(Spans), NEW x \in Spans, Distinct(a), x.call \notin Calls(a)
    PROVE  /\ Distinct(Append(a, x))
           /\ Calls(Append(a, x)) \subseteq Calls(a) \cup ({x.call} \ {0})
<1>1. PICK b : b = <<x>>
  OBVIOUS
<1>2. b \in Seq(Spans) /\ Len(b) = 1 /\ b[1] = x
  BY <1>1
<1>3. Distinct(b) /\ Calls(b) = {x.call} \ {0}
  <2>1. \A i \in 1..1 : i = 1
    OBVIOUS
  <2>2. 1 \in 1..1
    OBVIOUS
  <2> QED BY <1>2, <2>1, <2>2 DEF Distinct, Calls
<1>4. Append(a, x) = a \o b
  BY <1>1
<1>5. Calls(a) \cap Calls(b) = {}
  BY <1>3
<1>6. Distinct(a \o b) /\ Calls(a \o b) \subseteq Calls(a) \cup Calls(b)
  BY <1>2, <1>3, <1>5, ConcatCalls
<1> QED BY <1>3, <1>4, <1>6

LEMMA CalledInit == Init => Called
<1> SUFFICES ASSUME Init PROVE Called
  OBVIOUS
<1>1. Distinct(<<>>) /\ Calls(<<>>) = {} /\ <<>> \in Seq(Spans)
  BY DEF Distinct, Calls
<1>2. raw = <<>> /\ tr.spans = <<>>
  BY DEF Init
<1> QED BY <1>1, <1>2 DEF Called

(* Most steps leave the spans alone.                                        *)
LEMMA SameCalls ==
    ASSUME Called, tr.status # "settled", tr'.spans = tr.spans, raw' = raw,
           resources' = resources
    PROVE  Called'
BY DEF Called, Distinct, Calls, PatchedCalls

LEMMA RequestCalls ==
    ASSUME TInv, Called, NEW initiator \in Initiators, NEW s \in 0..MaxTime,
           NEW f \in {s, s + 1}, Request(initiator, s, f)
    PROVE  Called'
<1>1. /\ s \in Nat /\ f \in Nat /\ s <= f /\ clock \in Nat /\ resources \in Seq(Resources)
      /\ tr.spans \in Seq(Spans) /\ Bootstrap \in Nat
  <2>1. clock \in Nat /\ s \in Nat /\ Bootstrap \in Nat
    BY ReportAssumption DEF TInv, Typed
  <2>2. resources \in Seq(Resources) /\ tr.spans \in Seq(Spans)
    BY DEF TInv, Typed, Transactions
  <2>3. f \in Nat /\ s <= f
    BY <2>1
  <2> QED BY <2>1, <2>2, <2>3
<1>2. PICK n \in Nat : n = Len(resources)
  BY <1>1
<1>3. PICK e : e = [initiator |-> initiator, start |-> f, end |-> clock]
  OBVIOUS
<1>4. e \in Resources /\ e.initiator = initiator /\ e.start = f
  BY <1>1, <1>3 DEF Resources
<1>5. /\ resources' = Append(resources, e) /\ raw' = raw
      /\ tr.status \in {"unstarted", "running"}
  BY <1>3 DEF Request, Entry
<1>6. /\ DOMAIN resources = 1..n /\ DOMAIN resources' = 1..(n + 1)
      /\ \A i \in 1..n : resources'[i] = resources[i]
      /\ resources'[n + 1] = e
  BY <1>1, <1>2, <1>4, <1>5, AppendIs, LenProperties
<1>7. PatchedCalls \subseteq PatchedCalls' /\ PatchedCalls \subseteq 1..n
  <2>1. \A c \in PatchedCalls : c \in 1..n
    BY <1>6 DEF PatchedCalls
  <2>2. \A c \in 1..n : c \in 1..(n + 1)
    OBVIOUS
  <2> QED BY <1>6, <2>1, <2>2 DEF PatchedCalls, isCapturedByPatching
<1>8. raw = <<>> /\ Distinct(tr.spans) /\ Calls(tr.spans) \subseteq PatchedCalls
  BY <1>5 DEF Called
<1>9. Distinct(tr'.spans) /\ Calls(tr'.spans) \subseteq PatchedCalls'
  <2>1. CASE tr' = tr
    <3>1. Distinct(tr'.spans) /\ Calls(tr'.spans) = Calls(tr.spans)
      BY <1>8, <2>1
    <3> QED BY <1>7, <1>8, <3>1
  <2>2. CASE tr' # tr
    <3>1. PICK x : x = Span("external", "GET", s, clock, n + 1)
      OBVIOUS
    <3>2. x \in Spans /\ x.call = n + 1
      <4>1. "external" \in Kinds /\ "GET" \in Names
        BY Zenon DEF Kinds, Names
      <4>2. n + 1 \in Nat /\ s <= clock
        BY <1>1 DEF Request
      <4> QED BY <1>1, <3>1, <4>1, <4>2, SpanIs
    <3>3. PICK q \in Seq(Spans) : q = Append(tr.spans, x)
      BY <1>1, <3>2, AppendIs
    <3>4. /\ tr' = [tr EXCEPT !.spans = q]
          /\ initiator \in PatchedInitiators /\ s > Bootstrap
      BY <1>2, <2>2, <3>1, <3>3 DEF Request
    <3>5. tr'.spans = q
      BY <3>4, MoreSpans DEF TInv
    <3>6. n + 1 \in PatchedCalls'
      <4>1. n + 1 \in 1..(n + 1) /\ f > Bootstrap
        BY <1>1, <3>4
      <4> QED BY <1>4, <1>6, <3>4, <4>1 DEF PatchedCalls, isCapturedByPatching
    <3>7. n + 1 \notin Calls(tr.spans)
      <4>1. n + 1 \notin 1..n
        OBVIOUS
      <4> QED BY <1>7, <1>8, <4>1
    <3>8. Distinct(q) /\ Calls(q) \subseteq Calls(tr.spans) \cup {n + 1}
      BY <1>1, <1>8, <3>2, <3>3, <3>7, AppendCalls
    <3> QED BY <1>7, <1>8, <3>5, <3>6, <3>8
  <2> QED BY <2>1, <2>2
<1>10. raw' \in Seq(Spans) /\ Distinct(raw')
  BY <1>5 DEF Called
<1> QED BY <1>5, <1>8, <1>9, <1>10 DEF Called

LEMMA AppSpanCalls ==
    ASSUME TInv, Called, NEW kind \in {"app", "external"}, NEW s \in 0..MaxTime,
           NEW e \in {clock, clock + 1}, AppSpan(kind, s, e)
    PROVE  Called'
<1>1. /\ s \in Nat /\ e \in Nat /\ s <= e /\ clock \in Nat /\ tr.spans \in Seq(Spans)
  <2>1. clock \in Nat /\ s \in Nat
    BY ReportAssumption DEF TInv, Typed
  <2>2. tr.spans \in Seq(Spans)
    BY DEF TInv, Typed, Transactions
  <2>3. e \in Nat /\ s <= e
    BY <2>1 DEF AppSpan
  <2> QED BY <2>1, <2>2, <2>3
<1>2. PICK x : x = Span(kind, kind, s, e, 0)
  OBVIOUS
<1>3. x \in Spans /\ x.call = 0
  <2>1. kind \in Kinds /\ kind \in Names /\ 0 \in Nat
    BY DEF Kinds, Names
  <2> QED BY <1>1, <1>2, <2>1, SpanIs
<1>4. PICK q \in Seq(Spans) : q = Append(tr.spans, x)
  BY <1>1, <1>3, AppendIs
<1>5. tr' = [tr EXCEPT !.spans = q] /\ raw' = raw /\ resources' = resources
  BY <1>2, <1>4 DEF AppSpan
<1>6. tr'.spans = q
  BY <1>5, MoreSpans DEF TInv
<1>7. raw = <<>> /\ Distinct(tr.spans) /\ Calls(tr.spans) \subseteq PatchedCalls
  BY DEF Called, AppSpan, Running
<1>8. Distinct(q) /\ Calls(q) \subseteq Calls(tr.spans)
  <2>1. x.call \notin Calls(tr.spans)
    BY <1>3 DEF Calls
  <2> QED BY <1>1, <1>3, <1>4, <1>7, <2>1, AppendCalls
<1>9. PatchedCalls' = PatchedCalls
  BY <1>5 DEF PatchedCalls, isCapturedByPatching
<1> QED BY <1>5, <1>6, <1>7, <1>8, <1>9 DEF Called

LEMMA ObserveCalls ==
    ASSUME TInv, Called, Observe
    PROVE  Called'
<1>1. PICK u \in Seq(UncalledSpans) : tr'.spans = tr.spans \o u
  <2>1. PICK tasks \in Seq(Observations), f \in Seq(TimelineSpans) : Delivers(tasks, f)
    BY ObserveIs
  <2>2. PICK v \in Seq(UncalledSpans) : v = createLongTaskSpans(tasks)
    BY LongTaskSpansAre
  <2>3. f \in Seq(UncalledSpans)
    BY SeqMonotonic DEF TimelineSpans
  <2>4. tr.spans \in Seq(Spans) /\ v \in Seq(Spans) /\ f \in Seq(Spans)
    BY <2>3, SeqMonotonic DEF UncalledSpans, TInv, Typed, Transactions
  <2>5. (tr.spans \o v) \o f = tr.spans \o (v \o f)
    <3>1. PICK a \in Seq(Spans) : a = tr.spans
      BY <2>4
    <3>2. (a \o v) \o f = a \o (v \o f)
      BY <2>4, ConcatAssociative
    <3> QED BY <3>1, <3>2
  <2>6. v \o f \in Seq(UncalledSpans)
    BY <2>3, ConcatProperties
  <2> QED BY <2>1, <2>2, <2>5, <2>6 DEF Delivers
<1>2. raw = <<>> /\ Distinct(tr.spans) /\ Calls(tr.spans) \subseteq PatchedCalls
      /\ tr.spans \in Seq(Spans)
  BY DEF Called, Observe, Running, TInv, Typed, Transactions
<1>3. u \in Seq(Spans) /\ Distinct(u) /\ Calls(u) = {}
  BY UncalledAre
<1>4. Distinct(tr.spans \o u) /\ Calls(tr.spans \o u) \subseteq Calls(tr.spans) \cup Calls(u)
  <2>1. Calls(tr.spans) \cap Calls(u) = {}
    BY <1>3
  <2> QED BY <1>2, <1>3, <2>1, ConcatCalls
<1>5. raw' = raw /\ resources' = resources
  BY DEF Observe
<1>6. PatchedCalls' = PatchedCalls
  BY <1>5 DEF PatchedCalls, isCapturedByPatching
<1>7. raw' \in Seq(Spans) /\ Distinct(raw')
  BY <1>5 DEF Called
<1> QED BY <1>1, <1>2, <1>3, <1>4, <1>5, <1>6, <1>7 DEF Called

(* The spans of the timeline are of other requests.                         *)
LEMMA SettleCalls ==
    ASSUME TInv, Called, NEW breakdownMetrics \in BOOLEAN, Settle(breakdownMetrics)
    PROVE  Called'
<1>1. PICK s \in Seq(UncalledSpans), u \in Seq(UncalledSpans),
           r \in Seq(Spans), v \in Seq(UncalledSpans) :
        /\ OfOthers(r)
        /\ raw' = (((tr.spans \o s) \o u) \o r) \o v
  <2>1. PICK c : Captured(c) /\ raw' = c.spans
    BY SettleIs DEF Settles
  <2>2. Seq(TimelineSpans) \subseteq Seq(UncalledSpans)
    BY SeqMonotonic DEF TimelineSpans
  <2> QED BY <2>1, <2>2 DEF Captured
<1>2. Distinct(tr.spans) /\ Calls(tr.spans) \subseteq PatchedCalls /\ tr.spans \in Seq(Spans)
  BY DEF Called, Settle, TInv, Typed, Transactions
<1>3. /\ s \in Seq(Spans) /\ Distinct(s) /\ Calls(s) = {}
      /\ u \in Seq(Spans) /\ Distinct(u) /\ Calls(u) = {}
      /\ v \in Seq(Spans) /\ Distinct(v) /\ Calls(v) = {}
  BY UncalledAre
<1>4. Distinct(r) /\ Calls(r) \cap PatchedCalls = {}
  BY <1>1 DEF OfOthers, Distinct, Calls
<1>5. PICK a : a = tr.spans \o s
  OBVIOUS
<1>6. a \in Seq(Spans) /\ Distinct(a) /\ Calls(a) \subseteq PatchedCalls
  <2>1. Calls(tr.spans) \cap Calls(s) = {}
    BY <1>3
  <2>2. a \in Seq(Spans) /\ Distinct(a) /\ Calls(a) \subseteq Calls(tr.spans) \cup Calls(s)
    BY <1>2, <1>3, <1>5, <2>1, ConcatCalls
  <2> QED BY <1>2, <1>3, <2>2
<1>7. PICK b : b = a \o u
  OBVIOUS
<1>8. b \in Seq(Spans) /\ Distinct(b) /\ Calls(b) \subseteq PatchedCalls
  <2>1. Calls(a) \cap Calls(u) = {}
    BY <1>3
  <2>2. b \in Seq(Spans) /\ Distinct(b) /\ Calls(b) \subseteq Calls(a) \cup Calls(u)
    BY <1>3, <1>6, <1>7, <2>1, ConcatCalls
  <2> QED BY <1>3, <1>6, <2>2
<1>9. PICK c : c = b \o r
  OBVIOUS
<1>10. c \in Seq(Spans) /\ Distinct(c)
  <2>1. Calls(b) \cap Calls(r) = {}
    BY <1>4, <1>8
  <2> QED BY <1>4, <1>8, <1>9, <2>1, ConcatCalls
<1>11. raw' \in Seq(Spans) /\ Distinct(raw')
  <2>1. raw' = c \o v
    BY <1>1, <1>5, <1>7, <1>9
  <2>2. Calls(c) \cap Calls(v) = {}
    BY <1>3
  <2>3. c \o v \in Seq(Spans) /\ Distinct(c \o v)
    BY <1>3, <1>10, <2>2, ConcatCalls
  <2> QED BY <2>1, <2>3
<1>12. tr'.status = "settled"
  BY SettleIs DEF Settles
<1> QED BY <1>11, <1>12 DEF Called

LEMMA CalledNext ==
    ASSUME TInv, Called, [Next]_vars
    PROVE  Called'
<1> USE DEF TInv
<1>1. CASE UNCHANGED vars
  BY <1>1 DEF vars, Called, Distinct, Calls, PatchedCalls, isCapturedByPatching
<1>2. CASE \E start \in Starts : Start(start[1], start[2])
  <2>1. PICK start \in Starts : Start(start[1], start[2])
    BY <1>2
  <2>2. tr'.spans = tr.spans
    BY <2>1 DEF Start, Typed, Transactions
  <2>3. tr.status # "settled" /\ raw' = raw /\ resources' = resources
    BY <2>1 DEF Start
  <2> QED BY <2>2, <2>3, SameCalls
<1>3. CASE Tick
  BY <1>3, SameCalls DEF Tick
<1>4. CASE \E d \in 1 .. MaxTime, name \in {"self", "cross-origin"} : LongTask(d, name)
  BY <1>4, SameCalls DEF LongTask, Entry
<1>5. CASE \E d \in 0 .. MaxTime, type \in {"paint", "largest-contentful-paint",
                                            "first-input", "layout-shift"} : Vital(type, d)
  BY <1>5, SameCalls DEF Vital, Entry
<1>6. CASE \E i \in Initiators, s \in 0 .. MaxTime : \E f \in {s, s + 1} : Request(i, s, f)
  BY <1>6, RequestCalls
<1>7. CASE \E s \in 0 .. MaxTime : Measure(s)
  BY <1>7, SameCalls DEF Measure, Entry
<1>8. CASE \E kind \in {"app", "external"}, s \in 0 .. MaxTime :
             \E e \in {clock, clock + 1} : AppSpan(kind, s, e)
  BY <1>8, AppSpanCalls
<1>9. CASE Mark
  <2>1. tr'.spans = tr.spans
    BY <1>9 DEF Mark, Typed, Transactions
  <2> QED BY <1>9, <2>1, SameCalls DEF Mark, Running
<1>10. CASE Observe
  BY <1>10, ObserveCalls
<1>11. CASE \E endTime \in {clock - 1, clock, clock + 1} : End(endTime)
  <2>1. PICK endTime \in {clock - 1, clock, clock + 1} : End(endTime)
    BY <1>11
  <2>2. tr'.spans = tr.spans
    BY <2>1 DEF End, Typed, Transactions
  <2>3. tr.status # "settled" /\ raw' = raw /\ resources' = resources
    BY <2>1 DEF End, Running
  <2> QED BY <2>2, <2>3, SameCalls
<1>12. CASE \E breakdownMetrics \in BOOLEAN : Settle(breakdownMetrics)
  BY <1>12, SettleCalls
<1>13. CASE \E from \in 0 .. MaxTime : EarlierObserve(from)
  BY <1>13, EarlierIs, SameCalls
<1> QED BY <1>1, <1>2, <1>3, <1>4, <1>5, <1>6, <1>7, <1>8, <1>9, <1>10, <1>11, <1>12,
       <1>13, Zenon DEF Next

LEMMA CalledOnce == TInv /\ Called => OneSpanPerCall
<1> SUFFICES ASSUME TInv, Called, NEW c \in DOMAIN resources
             PROVE  Cardinality({i \in DOMAIN raw : raw[i].call = c}) <= 1
  BY DEF OneSpanPerCall
<1>1. c # 0
  BY DEF TInv, Typed
<1>2. PICK S : S = {i \in DOMAIN raw : raw[i].call = c}
  OBVIOUS
<1>3. DOMAIN raw = 1..Len(raw)
  BY LenProperties DEF Called
<1>4. \A i, j \in S : i = j
  BY <1>1, <1>2, <1>3 DEF Called, Distinct
<1>5. CASE S = {}
  BY <1>2, <1>5, FS_EmptySet
<1>6. CASE S # {}
  <2>1. PICK i \in S : S = {i}
    BY <1>4, <1>6
  <2>2. Cardinality(S) = 1
    BY <2>1, FS_Singleton
  <2> QED BY <1>2, <2>2
<1> QED BY <1>5, <1>6

(* A request is reported once, whichever way the page sends it and however  *)
(* many there are (capture-navigation.js: isCapturedByPatching,             *)
(* createResourceTimingSpans; performance-monitoring.js: the patched calls).*)
THEOREM OneSpanPerCallHolds == Spec => []OneSpanPerCall
<1>1. TInv /\ Called /\ [Next]_vars => (TInv /\ Called)'
  BY TInvNext, CalledNext
<1>2. Spec => [](TInv /\ Called)
  BY TInvInit, CalledInit, <1>1, PTL DEF Spec
<1> QED BY <1>2, CalledOnce, PTL

-----------------------------------------------------------------------------
(* What a step does to the spans *)

(* Most steps leave the spans and what is computed of them alone.           *)
Quiet ==
    /\ metrics' = metrics /\ raw' = raw /\ payload' = payload
    /\ tr'.spans = tr.spans /\ earlier' = earlier
    /\ \/ UNCHANGED vars
       \/ tr.status # "settled" /\ tr'.status # "settled"

(* A request or the application adds one.                                   *)
OneMore ==
    /\ metrics' = metrics /\ raw' = raw /\ payload' = payload /\ clock' = clock
    /\ tr.status = "running" /\ observed' = observed /\ earlier' = earlier
    /\ \A f \in {"status", "type", "sampled", "start", "end", "custom"} : tr'[f] = tr[f]
    /\ \E x \in Spans :
          /\ tr'.spans = Append(tr.spans, x) /\ x.count = 1
          /\ x.kind = "external" \/ (x.kind = "app" /\ x.name = "app")

LEMMA RequestIs ==
    ASSUME TInv, NEW initiator \in Initiators, NEW s \in 0..MaxTime, NEW f \in {s, s + 1},
           Request(initiator, s, f)
    PROVE  (tr' = tr /\ Quiet) \/ OneMore
<1> USE DEF TInv
<1>1. /\ clock \in Nat /\ s \in Nat /\ f \in Nat /\ s <= f /\ f < clock
  BY ReportAssumption DEF Request, Typed
<1>2. CASE tr' = tr
  BY <1>2 DEF Request, Quiet, Entry
<1>3. CASE tr' # tr
  <2>1. PICK x : x = Span("external", "GET", s, clock, Len(resources) + 1)
    OBVIOUS
  <2>2. x \in Spans /\ x.kind = "external" /\ x.count = 1
    <3>1. "external" \in Kinds /\ "GET" \in Names
      BY Zenon DEF Kinds, Names
    <3>2. Len(resources) + 1 \in Nat /\ s <= clock
      BY <1>1 DEF Typed
    <3> QED BY <1>1, <2>1, <3>1, <3>2, SpanIs
  <2>3. PICK q \in Seq(Spans) : q = Append(tr.spans, x)
    BY <2>2, AppendIs DEF Typed, Transactions
  <2>4. tr' = [tr EXCEPT !.spans = q] /\ tr.status = "running"
    BY <1>3, <2>1, <2>3 DEF Request, Running
  <2>5. /\ tr'.spans = Append(tr.spans, x)
        /\ \A g \in {"status", "type", "sampled", "start", "end", "custom"} : tr'[g] = tr[g]
    BY <2>3, <2>4, MoreSpans
  <2> QED BY <2>2, <2>4, <2>5 DEF OneMore, Request
<1> QED BY <1>2, <1>3

LEMMA AppSpanIs ==
    ASSUME TInv, NEW kind \in {"app", "external"}, NEW s \in 0..MaxTime,
           NEW e \in {clock, clock + 1}, AppSpan(kind, s, e)
    PROVE  OneMore
<1> USE DEF TInv
<1>1. /\ clock \in Nat /\ s \in Nat /\ e \in Nat /\ s <= e
  BY ReportAssumption DEF AppSpan, Typed
<1>2. PICK x : x = Span(kind, kind, s, e, 0)
  OBVIOUS
<1>3. x \in Spans /\ x.kind = kind /\ x.name = kind /\ x.count = 1
  <2>1. kind \in Kinds /\ kind \in Names /\ 0 \in Nat
    BY DEF Kinds, Names
  <2> QED BY <1>1, <1>2, <2>1, SpanIs
<1>4. PICK q \in Seq(Spans) : q = Append(tr.spans, x)
  BY <1>3, AppendIs DEF Typed, Transactions
<1>5. tr' = [tr EXCEPT !.spans = q] /\ tr.status = "running"
  BY <1>2, <1>4 DEF AppSpan, Running
<1>6. /\ tr'.spans = Append(tr.spans, x)
      /\ \A f \in {"status", "type", "sampled", "start", "end", "custom"} : tr'[f] = tr[f]
  BY <1>4, <1>5, MoreSpans
<1> QED BY <1>3, <1>5, <1>6 DEF OneMore, AppSpan

LEMMA StepIs ==
    ASSUME TInv, [Next]_vars
    PROVE  \/ Quiet \/ OneMore \/ Observe
           \/ \E from \in 0 .. MaxTime : EarlierObserve(from)
           \/ \E breakdownMetrics \in BOOLEAN : Settle(breakdownMetrics)
<1> USE DEF TInv
<1>1. CASE UNCHANGED vars
  BY <1>1 DEF vars, Quiet
<1>2. CASE \E start \in Starts : Start(start[1], start[2])
  <2>1. PICK start \in Starts : Start(start[1], start[2])
    BY <1>2
  <2>2. tr'.spans = tr.spans /\ tr'.status = "running"
    BY <2>1 DEF Start, Typed, Transactions
  <2> QED BY <2>1, <2>2 DEF Start, Quiet
<1>3. CASE Tick
  BY <1>3 DEF Tick, Quiet
<1>4. CASE \E d \in 1 .. MaxTime, name \in {"self", "cross-origin"} : LongTask(d, name)
  BY <1>4 DEF LongTask, Entry, Quiet
<1>5. CASE \E d \in 0 .. MaxTime, type \in {"paint", "largest-contentful-paint",
                                            "first-input", "layout-shift"} : Vital(type, d)
  BY <1>5 DEF Vital, Entry, Quiet
<1>6. CASE \E i \in Initiators, s \in 0 .. MaxTime : \E f \in {s, s + 1} : Request(i, s, f)
  BY <1>6, RequestIs
<1>7. CASE \E s \in 0 .. MaxTime : Measure(s)
  BY <1>7 DEF Measure, Entry, Quiet
<1>8. CASE \E kind \in {"app", "external"}, s \in 0 .. MaxTime :
             \E e \in {clock, clock + 1} : AppSpan(kind, s, e)
  BY <1>8, AppSpanIs
<1>9. CASE Mark
  <2>1. tr'.spans = tr.spans /\ tr'.status = "running" /\ tr.status = "running"
    BY <1>9 DEF Mark, Typed, Transactions, Running
  <2> QED BY <1>9, <2>1 DEF Mark, Quiet
<1>10. CASE Observe
  BY <1>10
<1>11. CASE \E endTime \in {clock - 1, clock, clock + 1} : End(endTime)
  <2>1. PICK endTime \in {clock - 1, clock, clock + 1} : End(endTime)
    BY <1>11
  <2>2. tr'.spans = tr.spans /\ tr'.status = "ended" /\ tr.status = "running"
    BY <2>1 DEF End, Typed, Transactions, Running
  <2> QED BY <2>1, <2>2 DEF End, Quiet
<1>12. CASE \E breakdownMetrics \in BOOLEAN : Settle(breakdownMetrics)
  BY <1>12
<1>13. CASE \E from \in 0 .. MaxTime : EarlierObserve(from)
  BY <1>13
<1> QED BY <1>1, <1>2, <1>3, <1>4, <1>5, <1>6, <1>7, <1>8, <1>9, <1>10, <1>11, <1>12,
       <1>13, Zenon DEF Next

-----------------------------------------------------------------------------
(* The experience agrees with the spans *)

(* Every long task that was counted has a span or was counted earlier, and  *)
(* the blocking time is part of that of the spans.                          *)
Experienced ==
    /\ tr.status # "settled" =>
          /\ metrics.count = Len(earlier) + Len(Only(tr.spans, TaskSpans))
          /\ metrics.sum = Spent(earlier) + Took(Only(tr.spans, TaskSpans))
          /\ metrics.tbt <= Took(Only(tr.spans, TaskSpans))
    /\ ExperienceAgrees

LEMMA ExperiencedInit == Init => Experienced
<1> SUFFICES ASSUME Init PROVE Experienced
  OBVIOUS
<1>1. PICK e : e = <<>>
  OBVIOUS
<1>2. tr.spans = e /\ tr.status = "unstarted"
  BY <1>1 DEF Init
<1>3. Only(e, TaskSpans) = e /\ Took(e) = 0 /\ Len(e) = 0
  BY <1>1, EmptyIs
<1>4. metrics.count = 0 /\ metrics.sum = 0 /\ metrics.tbt = 0 /\ earlier = e
  BY <1>1 DEF Init, NoMetrics
<1>5. Spent(e) = 0
  <2>1. e \in Seq(Observations)
    BY <1>1
  <2> QED BY <1>1, <2>1, SpentIs
<1> QED BY <1>1, <1>2, <1>3, <1>4, <1>5 DEF Experienced, ExperienceAgrees, Settled

(* The time of more tasks is added.                                         *)
LEMMA SpentConcat ==
    ASSUME NEW a \in Seq(Observations), NEW b \in Seq(Observations)
    PROVE  Spent(a \o b) = Spent(a) + Spent(b)
<1> DEFINE Of(o) == Span("longtask", o.name, o.start, o.start + o.duration, 0)
<1>1. PICK n \in Nat, m \in Nat : n = Len(a) /\ m = Len(b)
  BY LenProperties
<1>2. PICK c : c = a \o b
  OBVIOUS
<1>3. /\ c \in Seq(Observations) /\ Len(c) = n + m
      /\ \A i \in 1..(n + m) : c[i] = IF i <= n THEN a[i] ELSE b[i - n]
  BY <1>1, <1>2, ConcatProperties
<1>4. PICK p, q, r : /\ p = createLongTaskSpans(a) /\ q = createLongTaskSpans(b)
                     /\ r = createLongTaskSpans(c)
  OBVIOUS
<1>5. /\ p \in Seq(TaskSpans) /\ q \in Seq(TaskSpans) /\ r \in Seq(TaskSpans)
      /\ Len(p) = n /\ Len(q) = m /\ Len(r) = n + m
  BY <1>1, <1>3, <1>4, SpentIs
<1>6. /\ DOMAIN a = 1..n /\ DOMAIN b = 1..m /\ DOMAIN c = 1..(n + m)
  BY <1>1, <1>3, LenProperties
<1>7. /\ \A i \in 1..n : p[i] = Of(a[i])
      /\ \A i \in 1..m : q[i] = Of(b[i])
      /\ \A i \in 1..(n + m) : r[i] = Of(c[i])
  BY <1>4, <1>6 DEF createLongTaskSpans, Map
<1>8. p \in Seq(Spans) /\ q \in Seq(Spans) /\ r \in Seq(Spans)
  BY <1>5, SeqMonotonic DEF TaskSpans
<1>9. PICK v : v = p \o q
  OBVIOUS
<1>10. /\ v \in Seq(Spans) /\ Len(v) = n + m
       /\ \A i \in 1..(n + m) : v[i] = IF i <= n THEN p[i] ELSE q[i - n]
  BY <1>5, <1>8, <1>9, ConcatProperties
<1>11. ASSUME NEW i \in 1..(n + m)
       PROVE  r[i] = v[i]
  <2>1. CASE i <= n
    BY <1>3, <1>7, <1>10, <2>1
  <2>2. CASE ~(i <= n)
    <3>1. i - n \in 1..m
      BY <2>2
    <3>2. c[i] = b[i - n] /\ v[i] = q[i - n]
      BY <1>3, <1>10, <2>2
    <3>3. q[i - n] = Of(b[i - n]) /\ r[i] = Of(c[i])
      BY <1>7, <3>1
    <3> HIDE DEF Of
    <3> QED BY <3>2, <3>3
  <2> QED BY <2>1, <2>2
<1>12. r = v
  BY <1>5, <1>8, <1>10, <1>11, SeqEqual
<1>13. Took(p \o q) = Took(p) + Took(q)
  BY <1>8, TookConcat
<1> QED BY <1>2, <1>4, <1>9, <1>12, <1>13 DEF Spent

LEMMA EarlierExperienced ==
    ASSUME TInv, Experienced, NEW from, EarlierObserve(from)
    PROVE  Experienced'
<1>1. PICK tasks \in Seq(Observations) :
        earlier' = earlier \o tasks /\ Counts(metrics, metrics', tasks)
  BY EarlierIs
<1>2. /\ tr.status = "unstarted" /\ tr' = tr /\ raw' = raw
      /\ metrics'.tbt = metrics.tbt
  BY EarlierIs
<1>3. PICK a \in Seq(Observations) : a = earlier
  BY DEF TInv, Typed
<1>4. PICK b : b = a \o tasks
  OBVIOUS
<1>5. Len(b) = Len(a) + Len(tasks) /\ Spent(b) = Spent(a) + Spent(tasks)
  BY <1>4, ConcatProperties, SpentConcat
<1>6. PICK o \in Seq(Spans) : o = Only(tr.spans, TaskSpans)
  BY OnlyIn DEF TInv, Typed, Transactions
<1>7. /\ metrics.count = Len(a) + Len(o) /\ metrics.sum = Spent(a) + Took(o)
      /\ metrics.tbt <= Took(o)
  BY <1>2, <1>3, <1>6 DEF Experienced
<1>8. /\ metrics'.count = metrics.count + Len(tasks)
      /\ metrics'.sum = metrics.sum + Spent(tasks)
  BY <1>1 DEF Counts
<1>9. Spent(a) \in Nat /\ Spent(tasks) \in Nat /\ Took(o) \in Nat
  BY SpentIs, TookIs
<1>10. PICK k \in Nat, l \in Nat, n \in Nat : k = Len(a) /\ l = Len(tasks) /\ n = Len(o)
  BY LenProperties
<1>11. metrics'.count = Len(b) + Len(o)
  <2>1. metrics'.count = (k + n) + l /\ Len(b) = k + l
    BY <1>5, <1>7, <1>8, <1>10
  <2> QED BY <1>10, <2>1
<1>12. metrics'.sum = Spent(b) + Took(o)
  BY <1>5, <1>7, <1>8, <1>9
<1>13. earlier' = b
  BY <1>1, <1>3, <1>4
<1> QED BY <1>2, <1>6, <1>7, <1>11, <1>12, <1>13
    DEF Experienced, ExperienceAgrees, Settled

LEMMA ConcatTasks ==
    ASSUME NEW a \in Seq(Spans), NEW b \in Seq(Spans)
    PROVE  Only(a \o b, TaskSpans) = Only(a, TaskSpans) \o Only(b, TaskSpans)
BY OnlyConcat

(* Spans that are of no long task do not count.                             *)
LEMMA OnlyTasks ==
    ASSUME NEW a \in Seq(Spans), NEW b \in Seq(Spans),
           b \in Seq(TimelineSpans) \/ OfOthers(b)
    PROVE  a \o b \in Seq(Spans) /\ Only(a \o b, TaskSpans) = Only(a, TaskSpans)
<1>1. Only(b, TaskSpans) = <<>>
  <2>1. CASE b \in Seq(TimelineSpans)
    <3>1. TimelineSpans \cap TaskSpans = {}
      BY DEF TimelineSpans
    <3> QED BY <2>1, <3>1, OnlyAll
  <2>2. CASE OfOthers(b)
    <3>1. PICK R : R = {x \in Spans : x.kind = "resource"}
      OBVIOUS
    <3>2. b \in Seq(R)
      <4>1. \A i \in 1..Len(b) : b[i] \in R
        BY <2>2, <3>1, ElementOfSeq DEF OfOthers
      <4> QED BY <4>1
    <3>3. R \cap TaskSpans = {}
      BY <3>1 DEF TaskSpans
    <3> QED BY <3>2, <3>3, OnlyAll
  <2> QED BY <2>1, <2>2
<1>2. PICK o \in Seq(Spans) : o = Only(a, TaskSpans)
  BY OnlyIn
<1>3. Only(a \o b, TaskSpans) = o \o <<>>
  <2>1. Only(a \o b, TaskSpans) = Only(a, TaskSpans) \o Only(b, TaskSpans)
    BY OnlyConcat
  <2> QED BY <1>1, <1>2, <2>1
<1>4. o \o <<>> = o
  OBVIOUS
<1> QED BY <1>2, <1>3, <1>4, ConcatProperties

LEMMA ObserveExperienced ==
    ASSUME TInv, Experienced, Observe
    PROVE  Experienced'
<1>1. PICK tasks \in Seq(Observations), f \in Seq(TimelineSpans) : Delivers(tasks, f)
  BY ObserveIs
<1>2. metrics' \in Metrics /\ tr'.status = "running" /\ tr.status = "running"
      /\ metrics \in Metrics /\ tr.spans \in Seq(Spans)
  BY ObserveIs DEF Observe, Running, TInv, Typed, Transactions
<1>3. PICK l \in Seq(TaskSpans) :
        /\ l = createLongTaskSpans(tasks) /\ Len(l) = Len(tasks) /\ Took(l) = Spent(tasks)
        /\ Spent(tasks) \in Nat
  BY SpentIs DEF Spent
<1>4. l \in Seq(Spans) /\ f \in Seq(Spans)
  BY SeqMonotonic DEF TaskSpans, TimelineSpans, UncalledSpans
<1>5. PICK a \in Seq(Spans) : a = tr.spans
  BY <1>2
<1>6. PICK o \in Seq(Spans) : o = Only(a, TaskSpans)
  BY OnlyIn
<1>7. PICK b \in Seq(Spans) : b = a \o l
  BY <1>4, ConcatProperties
<1>8. Only(b, TaskSpans) = o \o l
  <2>1. Only(l, TaskSpans) = l
    BY OnlyAll
  <2>2. Only(a \o l, TaskSpans) = Only(a, TaskSpans) \o Only(l, TaskSpans)
    BY <1>4, ConcatTasks
  <2> QED BY <1>6, <1>7, <2>1, <2>2
<1>9. Only(tr'.spans, TaskSpans) = o \o l
  <2>1. tr'.spans = b \o f
    BY <1>1, <1>3, <1>5, <1>7 DEF Delivers
  <2> QED BY <1>4, <1>8, <2>1, OnlyTasks
<1>10. Len(o \o l) = Len(o) + Len(l) /\ Took(o \o l) = Took(o) + Took(l)
  BY <1>4, ConcatProperties, TookConcat
<1>11. /\ metrics.count = Len(earlier) + Len(o) /\ metrics.sum = Spent(earlier) + Took(o)
       /\ metrics.tbt <= Took(o) /\ earlier' = earlier /\ raw' = raw
  BY <1>2, <1>5, <1>6 DEF Experienced, Observe
<1>12. /\ metrics'.count = metrics.count + Len(tasks)
       /\ metrics'.sum = metrics.sum + Spent(tasks)
       /\ metrics'.tbt <= metrics.tbt + Spent(tasks)
  BY <1>1 DEF Delivers, Counts, Blocks
<1>13. PICK e \in Seq(Observations) : e = earlier
  BY DEF TInv, Typed
<1>14. /\ metrics'.tbt \in Nat /\ metrics.tbt \in Nat /\ Spent(e) \in Nat
       /\ Took(o) \in Nat /\ Took(l) \in Nat
       /\ Len(e) \in Nat /\ Len(o) \in Nat /\ Len(l) \in Nat
  BY <1>2, <1>4, SpentIs, TookIs, LenProperties DEF Metrics
<1>15. metrics'.tbt <= Took(o \o l)
  <2>1. metrics'.tbt <= metrics.tbt + Took(l) /\ metrics.tbt <= Took(o)
    BY <1>3, <1>11, <1>12
  <2> QED BY <1>10, <1>14, <2>1
<1>16. metrics'.sum = Spent(e) + Took(o \o l)
  <2>1. metrics'.sum = (Spent(e) + Took(o)) + Took(l)
    BY <1>3, <1>11, <1>12, <1>13
  <2> QED BY <1>10, <1>14, <2>1
<1>17. metrics'.count = Len(e) + Len(o \o l)
  <2>1. metrics'.count = (Len(e) + Len(o)) + Len(l)
    BY <1>3, <1>11, <1>12, <1>13
  <2> QED BY <1>10, <1>14, <2>1
<1>18. earlier' = e
  BY <1>11, <1>13
<1> QED BY <1>2, <1>9, <1>15, <1>16, <1>17, <1>18
    DEF Experienced, ExperienceAgrees, Settled

(* The spans that are captured are those of the same long tasks.            *)
LEMMA CapturedTasks ==
    ASSUME TInv, NEW c, Captured(c)
    PROVE  c.spans \in Seq(Spans) /\ Only(c.spans, TaskSpans) = Only(tr.spans, TaskSpans)
<1>1. PICK s \in Seq(TimelineSpans), u \in Seq(TimelineSpans),
           r \in Seq(Spans), v \in Seq(TimelineSpans) :
        OfOthers(r) /\ c.spans = (((tr.spans \o s) \o u) \o r) \o v
  BY DEF Captured
<1>2. s \in Seq(Spans) /\ u \in Seq(Spans) /\ v \in Seq(Spans)
  BY SeqMonotonic DEF TimelineSpans, UncalledSpans
<1>3. PICK a \in Seq(Spans) : a = tr.spans
  BY DEF TInv, Typed, Transactions
<1>4. PICK b \in Seq(Spans) : b = a \o s /\ Only(b, TaskSpans) = Only(a, TaskSpans)
  <2>1. a \o s \in Seq(Spans) /\ Only(a \o s, TaskSpans) = Only(a, TaskSpans)
    BY <1>2, OnlyTasks
  <2> QED BY <1>2, <2>1
<1>5. PICK d \in Seq(Spans) : d = b \o u /\ Only(d, TaskSpans) = Only(a, TaskSpans)
  <2>1. b \o u \in Seq(Spans) /\ Only(b \o u, TaskSpans) = Only(b, TaskSpans)
    BY <1>2, <1>4, OnlyTasks
  <2> QED BY <1>2, <1>4, <2>1
<1>6. PICK e \in Seq(Spans) : e = d \o r /\ Only(e, TaskSpans) = Only(a, TaskSpans)
  <2>1. d \o r \in Seq(Spans) /\ Only(d \o r, TaskSpans) = Only(d, TaskSpans)
    BY <1>1, <1>5, OnlyTasks
  <2> QED BY <1>1, <1>5, <2>1
<1>7. PICK g \in Seq(Spans) : g = e \o v /\ Only(g, TaskSpans) = Only(a, TaskSpans)
  <2>1. e \o v \in Seq(Spans) /\ Only(e \o v, TaskSpans) = Only(e, TaskSpans)
    BY <1>2, OnlyTasks
  <2> QED BY <1>6, <2>1
<1> QED BY <1>1, <1>3, <1>4, <1>5, <1>6, <1>7

LEMMA SettleExperienced ==
    ASSUME TInv, Experienced, NEW breakdownMetrics \in BOOLEAN, Settle(breakdownMetrics)
    PROVE  Experienced'
<1>1. PICK c, m, d, a : Settles(breakdownMetrics, c, m, d, a)
  BY SettleIs
<1>2. /\ tr'.status = "settled" /\ tr'.type = tr.type /\ tr'.sampled = tr.sampled
      /\ raw' = c.spans /\ Captured(c) /\ tr'.experience = c.experience
  BY <1>1 DEF Settles, Captured
<1>3. PICK q \in Seq(Spans) : q = raw' /\ Only(q, TaskSpans) = Only(tr.spans, TaskSpans)
  BY <1>2, CapturedTasks
<1>4. PICK T : T = {s \in Range(q) : s.kind = "longtask" /\ s.name # "tbt"}
  OBVIOUS
<1>5. Only(q, T) = Only(q, TaskSpans)
  <2>1. q \in Seq(Range(q)) /\ \A x \in Range(q) : x \in Spans
    BY ElementOfSeq, LenProperties DEF Range
  <2>2. \A x \in Range(q) : x \in T <=> x \in TaskSpans
    BY <1>4, <2>1 DEF TaskSpans
  <2> QED BY <2>1, <2>2, OnlySame
<1>6. tr.status = "ended" /\ earlier' = earlier
  BY DEF Settle
<1>7. /\ metrics.count = Len(earlier) + Len(Only(tr.spans, TaskSpans))
      /\ metrics.sum = Spent(earlier) + Took(Only(tr.spans, TaskSpans))
      /\ metrics.tbt <= Took(Only(tr.spans, TaskSpans))
  BY <1>6 DEF Experienced
<1>8. ASSUME tr.type = "page-load", tr.sampled
      PROVE  tr'.experience = metrics
  BY <1>2, <1>8 DEF Captured, IsPageLoad, CaptureTimings, Managed
<1>9. ASSUME tr'.type = "page-load", tr'.sampled
      PROVE  /\ tr'.experience.count = Len(earlier) + Len(Only(q, T))
             /\ tr'.experience.sum = Spent(earlier) + Took(Only(q, T))
             /\ tr'.experience.tbt <= Took(Only(q, T))
  BY <1>2, <1>3, <1>5, <1>7, <1>8, <1>9
<1> QED BY <1>2, <1>3, <1>4, <1>6, <1>9 DEF Took, Spent, Experienced, ExperienceAgrees, IsPageLoad

LEMMA ExperiencedNext ==
    ASSUME TInv, Experienced, [Next]_vars
    PROVE  Experienced'
<1>1. CASE Quiet
  <2>1. CASE UNCHANGED vars
    BY <2>1 DEF vars, Experienced, ExperienceAgrees, Settled, IsPageLoad
  <2>2. CASE tr.status # "settled" /\ tr'.status # "settled"
    BY <1>1, <2>2 DEF Quiet, Experienced, ExperienceAgrees, Settled
  <2> QED BY <1>1, <2>1, <2>2 DEF Quiet
<1>2. CASE OneMore
  <2>1. PICK x \in Spans : tr'.spans = Append(tr.spans, x) /\ x.kind \in {"external", "app"}
    BY <1>2 DEF OneMore
  <2>2. tr.spans \in Seq(Spans) /\ x \notin TaskSpans
    BY <2>1 DEF TInv, Typed, Transactions, TaskSpans
  <2>3. Only(tr'.spans, TaskSpans) = Only(tr.spans, TaskSpans)
    <3>1. PICK a \in Seq(Spans) : a = tr.spans
      BY <2>2
    <3>2. Only(Append(a, x), TaskSpans) = KeepIf(TaskSpans, Only(a, TaskSpans), x)
      BY OnlyAppend
    <3> QED BY <2>1, <2>2, <3>1, <3>2 DEF KeepIf
  <2> QED BY <1>2, <2>3 DEF OneMore, Experienced, ExperienceAgrees, Settled
<1> QED BY <1>1, <1>2, StepIs, EarlierExperienced, ObserveExperienced, SettleExperienced

(* The experience of a page load agrees with the long tasks: those that are *)
(* counted are the ones it has spans of, with the time they took, and those *)
(* that earlier transactions counted in the same metrics object, which      *)
(* nothing resets (metrics.js: metrics, the observer's callback;            *)
(* transaction-service.js: handleTransactionEnd).                           *)
THEOREM ExperienceAgreesHolds == Spec => []ExperienceAgrees
<1>1. TInv /\ Experienced /\ [Next]_vars => (TInv /\ Experienced)'
  BY TInvNext, ExperiencedNext
<1>2. Spec => [](TInv /\ Experienced)
  BY TInvInit, ExperiencedInit, <1>1, PTL DEF Spec
<1>3. Experienced => ExperienceAgrees
  BY DEF Experienced
<1> QED BY <1>2, <1>3, PTL

Lasting == {x \in Spans : x.start < x.end}

(* Spans of one call each that lie within a and b.                          *)
Inside(s, a, b) ==
    /\ s \in Seq(Spans)
    /\ \A i \in 1..Len(s) : s[i].count = 1 /\ a <= s[i].start /\ s[i].end <= b

LEMMA BreakdownSpans ==
    ASSUME NEW t \in Transactions
    PROVE  captureBreakdown(t).spans = t.spans \/ captureBreakdown(t).spans = SortByStart(t.spans)
<1>1. CASE ~t.sampled
  BY <1>1 DEF captureBreakdown
<1>2. CASE t.sampled /\ IsPageLoad(t)
  <2>1. PICK B : B =
          {[type |-> p[3], count |-> 1, duration |-> timing[p[2]] - timing[p[1]]] :
             p \in {q \in pageLoadBreakdowns : timing[q[2]] # timing[q[1]]}}
    OBVIOUS
  <2>2. PICK h : h = [t EXCEPT !.breakdown = B]
    OBVIOUS
  <2>3. captureBreakdown(t) = h
    BY <1>2, <2>1, <2>2 DEF captureBreakdown
  <2> QED BY <2>2, <2>3 DEF Transactions
<1>3. CASE t.sampled /\ ~IsPageLoad(t)
  <2>1. PICK s : s = SortByStart(t.spans)
    OBVIOUS
  <2>2. PICK B : B = groupSpans(t)
    OBVIOUS
  <2>3. PICK h : h = [t EXCEPT !.breakdown = B, !.spans = s]
    OBVIOUS
  <2>4. captureBreakdown(t) = h
    BY <1>3, <2>1, <2>2, <2>3 DEF captureBreakdown, Transactions
  <2> QED BY <2>1, <2>3, <2>4 DEF Transactions
<1> QED BY <1>1, <1>2, <1>3

(* Sorting changes nothing of that.                                         *)
LEMMA SortInside ==
    ASSUME NEW a \in Nat, NEW b \in Nat, NEW s, Inside(s, a, b)
    PROVE  /\ Inside(SortByStart(s), a, b)
           /\ Len(Only(SortByStart(s), Lasting)) = Len(Only(s, Lasting))
<1>1. PICK E : E = {x \in Spans : x.count = 1 /\ a <= x.start /\ x.end <= b}
  OBVIOUS
<1>2. s \in Seq(E)
  <2>1. s \in Seq(Spans) /\ \A i \in 1..Len(s) : s[i] \in E
    BY <1>1, ElementOfSeq DEF Inside
  <2> QED BY <2>1
<1>3. PICK t : t = SortByStart(s) /\ t \in Seq(E)
  <2>1. SortByStart(s) \in Seq(E)
    BY <1>1, <1>2, SortIs
  <2> QED BY <2>1
<1>4. \A i \in 1..Len(t) : t[i] \in E
  BY <1>3, ElementOfSeq
<1>5. t \in Seq(Spans)
  BY <1>1, <1>3, SeqMonotonic
<1>6. E \subseteq Spans
  BY <1>1
<1>7. Len(Only(t, Lasting)) = Len(Only(s, Lasting))
  BY <1>2, <1>3, <1>6, SortKeeps
<1> QED BY <1>1, <1>3, <1>4, <1>5, <1>7 DEF Inside

(* Of such spans, those of some time are kept, if the transaction is.       *)
LEMMA AdjustKeeps ==
    ASSUME NEW t \in Transactions, t.sampled, Inside(t.spans, t.start, t.end)
    PROVE  /\ adjustTransaction(t).spans \in Seq(Kept(t.start, t.end))
           /\ Stand(adjustTransaction(t).spans) = Len(Only(t.spans, Lasting))
<1>1. PICK a \in Nat, b \in Nat, s \in Seq(Spans) : a = t.start /\ b = t.end /\ s = t.spans
  BY DEF Transactions
<1>2. PICK E : E = {x \in Kept(a, b) : x.count = 1}
  OBVIOUS
<1>3. PICK T : T = {x \in Range(s) : Duration(x) > 0 /\ x.start >= a /\ x.end <= b}
  OBVIOUS
<1>4. PICK R : R = Range(s)
  OBVIOUS
<1>5. /\ s \in Seq(R) /\ R \subseteq Spans
      /\ \A x \in R : x.count = 1 /\ a <= x.start /\ x.end <= b
  <2>1. PICK n \in Nat : n = Len(s) /\ DOMAIN s = 1..n /\ \A i \in 1..n : s[i] \in Spans
    BY LenProperties, ElementOfSeq
  <2>2. R = {s[i] : i \in 1..n}
    BY <1>4, <2>1 DEF Range
  <2>3. \A i \in 1..n : s[i] \in R
    BY <2>2
  <2>4. s \in Seq(R)
    BY <2>1, <2>3
  <2> QED BY <1>1, <2>1, <2>2, <2>4 DEF Inside
<1>6. \A x \in R : x.start \in Nat /\ x.end \in Nat
  BY <1>5 DEF Spans, AnySpan
<1>7. \A x \in R : x \in T <=> x \in Lasting
  BY <1>3, <1>4, <1>5, <1>6 DEF Lasting, Duration
<1>8. PICK q : q = Only(s, Lasting) /\ q = Only(s, T)
  <2>1. Only(s, T) = Only(s, Lasting)
    BY <1>5, <1>7, OnlySame
  <2> QED BY <2>1
<1>9. q \in Seq(E)
  <2>1. q \in Seq(R \cap Lasting)
    BY <1>5, <1>8, OnlyType
  <2>2. R \cap Lasting \subseteq E
    BY <1>2, <1>5 DEF Kept, Lasting
  <2> QED BY <2>1, <2>2, SeqMonotonic
<1>10. PICK g : g = groupSmallContinuouslySimilarSpans(q, Duration(t))
  OBVIOUS
<1>11. g \in Seq(Kept(a, b)) /\ Stand(g) = Len(q)
  BY <1>2, <1>9, <1>10, GroupsKeep
<1>12. q \in Seq(Kept(a, b)) /\ Stand(q) = Len(q)
  <2>1. E \subseteq Kept(a, b) /\ E \subseteq {x \in Spans : x.count = 1}
    BY <1>2 DEF Kept
  <2>2. q \in Seq(Kept(a, b))
    BY <1>9, <2>1, SeqMonotonic
  <2> QED BY <1>9, <2>1, <2>2, OnesStand
<1>13. PICK u : u = IF Managed(t) THEN g ELSE q
  OBVIOUS
<1>14. PICK h : h = [t EXCEPT !.spans = u]
  OBVIOUS
<1>15. adjustTransaction(t) = h
  BY <1>1, <1>3, <1>8, <1>10, <1>13, <1>14 DEF adjustTransaction
<1>16. h.spans = u
  BY <1>14 DEF Transactions
<1>17. u \in Seq(Kept(a, b)) /\ Stand(u) = Len(q)
  BY <1>11, <1>12, <1>13
<1> QED BY <1>1, <1>8, <1>15, <1>16, <1>17

-----------------------------------------------------------------------------
(* Every span is reported *)

(* Until the report is made, every span stands for one call.                *)
Ones(s) == \A i \in 1..Len(s) : s[i].count = 1

(* The spans of the payload p are those of q, of a transaction to end.      *)
Accounted(p, q, end) ==
    /\ Sum(Map(LAMBDA s : s.count, p.spans)) =
         Cardinality({i \in DOMAIN q : q[i].start < MinOf(q[i].end, end)})
    /\ \A s \in Range(p.spans) :
          s.start >= 0 /\ s.duration > 0 /\ s.start + s.duration <= p.duration

Reported ==
    /\ tr.status # "settled" => payload = NoPayload /\ Ones(tr.spans)
    /\ payload.sent /\ tr.sampled => Accounted(payload, raw, tr.end)

LEMMA AccountedIs ==
    Reported => EverySpanReported
BY DEF Reported, EverySpanReported, Accounted

LEMMA ReportedInit == Init => Reported
<1> SUFFICES ASSUME Init PROVE Reported
  OBVIOUS
<1>1. tr.spans = <<>> /\ tr.status = "unstarted" /\ payload = NoPayload
  BY DEF Init
<1>2. Ones(<<>>)
  BY DEF Ones
<1> QED BY <1>1, <1>2 DEF Reported, NoPayload

LEMMA OnesConcat ==
    ASSUME NEW a \in Seq(Spans), NEW b \in Seq(Spans), Ones(a),
           Ones(b) \/ b \in Seq(TimelineSpans) \/ OfOthers(b)
    PROVE  a \o b \in Seq(Spans) /\ Ones(a \o b)
<1>1. Ones(b)
  <2>1. CASE b \in Seq(TimelineSpans)
    <3>1. \A i \in 1..Len(b) : b[i] \in TimelineSpans
      BY <2>1, ElementOfSeq
    <3> QED BY <3>1 DEF Ones, TimelineSpans, UncalledSpans
  <2>2. CASE OfOthers(b)
    BY <2>2 DEF OfOthers, Ones
  <2> QED BY <2>1, <2>2
<1>2. PICK n \in Nat, m \in Nat : n = Len(a) /\ m = Len(b)
  BY LenProperties
<1>3. PICK c : c = a \o b
  OBVIOUS
<1>4. /\ a \o b \in Seq(Spans) /\ Len(a \o b) = Len(a) + Len(b)
      /\ \A i \in 1..Len(a) + Len(b) :
            (a \o b)[i] = IF i <= Len(a) THEN a[i] ELSE b[i - Len(a)]
  BY ConcatProperties
<1>5. /\ c \in Seq(Spans) /\ Len(c) = n + m
      /\ \A i \in 1..(n + m) : c[i] = IF i <= n THEN a[i] ELSE b[i - n]
  BY <1>2, <1>3, <1>4
<1>6. \A i \in 1..n : a[i].count = 1
  BY <1>2 DEF Ones
<1>7. \A i \in 1..m : b[i].count = 1
  BY <1>1, <1>2 DEF Ones
<1>8. ASSUME NEW i \in 1..(n + m) PROVE c[i].count = 1
  <2>1. CASE i <= n
    BY <1>5, <1>6, <2>1
  <2>2. CASE ~(i <= n)
    <3>1. i - n \in 1..m
      BY <2>2
    <3> QED BY <1>5, <1>7, <2>2, <3>1
  <2> QED BY <2>1, <2>2
<1> QED BY <1>3, <1>5, <1>8 DEF Ones

LEMMA ObserveReported ==
    ASSUME TInv, Reported, Observe
    PROVE  Reported'
<1>1. PICK tasks \in Seq(Observations), f \in Seq(TimelineSpans) : Delivers(tasks, f)
  BY ObserveIs
<1>2. /\ tr'.status = "running" /\ tr.status = "running" /\ tr.spans \in Seq(Spans)
      /\ payload' = payload
  BY ObserveIs DEF Observe, Running, TInv, Typed, Transactions
<1>3. PICK l : l = createLongTaskSpans(tasks) /\ l \in Seq(Spans) /\ Ones(l)
  <2>1. createLongTaskSpans(tasks) \in Seq(UncalledSpans)
    BY LongTaskSpansAre
  <2>2. \A i \in 1..Len(createLongTaskSpans(tasks)) :
           createLongTaskSpans(tasks)[i] \in UncalledSpans
    BY <2>1, ElementOfSeq
  <2>3. createLongTaskSpans(tasks) \in Seq(Spans)
    BY <2>1, SeqMonotonic DEF UncalledSpans
  <2> QED BY <2>2, <2>3 DEF Ones, UncalledSpans
<1>4. f \in Seq(Spans)
  BY SeqMonotonic DEF TimelineSpans, UncalledSpans
<1>5. PICK a : a = tr.spans /\ a \in Seq(Spans) /\ Ones(a) /\ payload = NoPayload
  BY <1>2 DEF Reported
<1>6. PICK b : b = a \o l /\ b \in Seq(Spans) /\ Ones(b)
  <2>1. a \o l \in Seq(Spans) /\ Ones(a \o l)
    BY <1>3, <1>5, OnesConcat
  <2> QED BY <2>1
<1>7. Ones(b \o f)
  BY <1>4, <1>6, OnesConcat
<1>8. tr'.spans = b \o f
  BY <1>1, <1>3, <1>5, <1>6 DEF Delivers
<1>9. tr'.status # "settled" /\ payload' = NoPayload /\ ~payload'.sent
  BY <1>2, <1>5 DEF NoPayload
<1> QED BY <1>7, <1>8, <1>9 DEF Reported

LEMMA CapturedOnes ==
    ASSUME TInv, NEW c, Captured(c), Ones(tr.spans)
    PROVE  c.spans \in Seq(Spans) /\ Ones(c.spans)
<1>1. PICK s \in Seq(TimelineSpans), u \in Seq(TimelineSpans),
           r \in Seq(Spans), v \in Seq(TimelineSpans) :
        OfOthers(r) /\ c.spans = (((tr.spans \o s) \o u) \o r) \o v
  BY DEF Captured
<1>2. s \in Seq(Spans) /\ u \in Seq(Spans) /\ v \in Seq(Spans)
  BY SeqMonotonic DEF TimelineSpans, UncalledSpans
<1>3. PICK a : a = tr.spans /\ a \in Seq(Spans) /\ Ones(a)
  BY DEF TInv, Typed, Transactions
<1>4. PICK b : b = a \o s /\ b \in Seq(Spans) /\ Ones(b)
  <2>1. a \o s \in Seq(Spans) /\ Ones(a \o s)
    BY <1>2, <1>3, OnesConcat
  <2> QED BY <2>1
<1>5. PICK d : d = b \o u /\ d \in Seq(Spans) /\ Ones(d)
  <2>1. b \o u \in Seq(Spans) /\ Ones(b \o u)
    BY <1>2, <1>4, OnesConcat
  <2> QED BY <2>1
<1>6. PICK e : e = d \o r /\ e \in Seq(Spans) /\ Ones(e)
  <2>1. d \o r \in Seq(Spans) /\ Ones(d \o r)
    BY <1>1, <1>5, OnesConcat
  <2> QED BY <2>1
<1>7. e \o v \in Seq(Spans) /\ Ones(e \o v)
  BY <1>2, <1>6, OnesConcat
<1> QED BY <1>1, <1>3, <1>4, <1>5, <1>6, <1>7

(* The spans fitted to the transaction lie within it, and those of some     *)
(* time of it last.                                                         *)
LEMMA FittedInside ==
    ASSUME NEW c \in Transactions, NEW m, Covering(m), Fitted(m, c), Ones(c.spans)
    PROVE  /\ Inside(m.spans, m.start, m.end)
           /\ Len(Only(m.spans, Lasting)) =
                Cardinality({i \in 1..Len(c.spans) :
                               c.spans[i].start < MinOf(c.spans[i].end, m.end)})
<1>1. PICK s : s = c.spans /\ s \in Seq(Spans)
  BY DEF Transactions
<1>2. PICK n \in Nat : n = Len(s) /\ \A i \in 1..n : s[i] \in Spans
  BY <1>1, LenProperties, ElementOfSeq
<1>3. m \in Transactions /\ m.end \in Nat /\ m.start \in Nat /\ m.spans \in Seq(Spans)
  BY DEF Covering, Transactions
<1>4. PICK t : t = m.spans /\ t \in Seq(Spans) /\ Len(t) = n
  BY <1>1, <1>2, <1>3 DEF Fitted
<1>5. PICK b \in Nat : b = m.end
  BY <1>3
<1>6. ASSUME NEW x \in Spans
      PROVE  /\ TruncateAt(x, b).count = x.count
             /\ TruncateAt(x, b).start = MinOf(x.start, b)
             /\ TruncateAt(x, b).end = MinOf(x.end, b)
  BY DEF TruncateAt, Spans, AnySpan
<1>7. \A i \in 1..n : t[i] = TruncateAt(s[i], b)
  BY <1>1, <1>2, <1>4, <1>5 DEF Fitted
<1>8. \A i \in 1..n : s[i].count = 1 /\ s[i].start \in Nat /\ s[i].end \in Nat
  BY <1>1, <1>2 DEF Ones, Spans, AnySpan
<1>9. \A i \in 1..n : /\ t[i].count = 1 /\ t[i].end <= b
                      /\ t[i].start < t[i].end <=> s[i].start < MinOf(s[i].end, b)
  <2>1. SUFFICES ASSUME NEW i \in 1..n
                 PROVE  /\ t[i].count = 1 /\ t[i].end <= b
                        /\ t[i].start < t[i].end <=> s[i].start < MinOf(s[i].end, b)
    OBVIOUS
  <2>2. /\ t[i].count = 1 /\ t[i].start = MinOf(s[i].start, b)
        /\ t[i].end = MinOf(s[i].end, b)
    BY <1>2, <1>6, <1>7, <1>8
  <2> QED BY <1>8, <2>2 DEF MinOf
<1>10. \A i \in 1..n : t[i] \in Spans /\ t[i].start >= m.start
  BY <1>4, ElementOfSeq DEF Covering
<1>11. \A i \in 1..n : m.start <= t[i].start
  BY <1>3, <1>10 DEF Spans, AnySpan
<1>12. Inside(t, m.start, m.end)
  BY <1>4, <1>5, <1>9, <1>11 DEF Inside
<1>13. Len(Only(t, Lasting)) = Cardinality({i \in 1..Len(t) : t[i] \in Lasting})
  BY <1>4, OnlyCounts
<1>14. {i \in 1..Len(t) : t[i] \in Lasting} = {i \in 1..n : s[i].start < MinOf(s[i].end, b)}
  BY <1>4, <1>9, <1>10 DEF Lasting
<1> QED BY <1>1, <1>2, <1>4, <1>5, <1>12, <1>13, <1>14

LEMMA SettleReported ==
    ASSUME TInv, Reported, NEW breakdownMetrics \in BOOLEAN, Settle(breakdownMetrics)
    PROVE  Reported'
<1>1. PICK c \in Transactions, m \in Transactions, d \in Transactions, a \in Transactions :
        Settles(breakdownMetrics, c, m, d, a)
  BY SettleIs
<1>2. /\ tr'.status = "settled" /\ raw' = c.spans /\ Captured(c)
      /\ Covering(m) /\ Fitted(m, c) /\ a = adjustTransaction(d)
      /\ tr'.sampled = d.sampled
      /\ tr'.start = m.start /\ d.start = m.start /\ a.start = m.start
      /\ tr'.end = m.end /\ d.end = m.end /\ a.end = m.end
      /\ d = IF breakdownMetrics THEN captureBreakdown(m) ELSE m
  BY <1>1 DEF Settles
<1>3. Ones(tr.spans)
  BY DEF Reported, Settle
<1>4. Ones(c.spans) /\ c.spans \in Seq(Spans)
  BY <1>2, <1>3, CapturedOnes
<1>5. PICK N : N = {i \in DOMAIN raw' : raw'[i].start < MinOf(raw'[i].end, tr'.end)}
  OBVIOUS
<1>6. N = {i \in 1..Len(c.spans) : c.spans[i].start < MinOf(c.spans[i].end, m.end)}
  BY <1>2, <1>4, <1>5, LenProperties
<1>7. Inside(m.spans, m.start, m.end) /\ Len(Only(m.spans, Lasting)) = Cardinality(N)
  BY <1>1, <1>2, <1>4, <1>6, FittedInside
<1>8. Inside(d.spans, d.start, d.end) /\ Len(Only(d.spans, Lasting)) = Cardinality(N)
  <2>1. m.start \in Nat /\ m.end \in Nat
    BY <1>1 DEF Transactions
  <2>2. d.spans = m.spans \/ d.spans = SortByStart(m.spans)
    BY <1>1, <1>2, BreakdownSpans
  <2>3. CASE d.spans = m.spans
    BY <1>2, <1>7, <2>3
  <2>4. CASE d.spans = SortByStart(m.spans)
    <3>1. /\ Inside(SortByStart(m.spans), m.start, m.end)
          /\ Len(Only(SortByStart(m.spans), Lasting)) = Len(Only(m.spans, Lasting))
      BY <1>7, <2>1, SortInside
    <3> QED BY <1>2, <1>7, <2>4, <3>1
  <2> QED BY <2>2, <2>3, <2>4
<1>9. ASSUME payload'.sent, tr'.sampled
      PROVE  Accounted(payload', raw', tr'.end)
  <2>1. PICK s : s = a.spans /\ s \in Seq(Kept(m.start, m.end)) /\ Stand(s) = Cardinality(N)
    <3>1. /\ adjustTransaction(d).spans \in Seq(Kept(d.start, d.end))
          /\ Stand(adjustTransaction(d).spans) = Len(Only(d.spans, Lasting))
      BY <1>1, <1>2, <1>8, <1>9, AdjustKeeps
    <3> QED BY <1>2, <1>8, <3>1
  <2>2. payload' = createTransactionDataModel(a)
    BY <1>1, <1>9 DEF Settles, NoPayload
  <2>3. PICK p : p = payload'.spans
    OBVIOUS
  <2>4. PICK n \in Nat : n = Len(s) /\ DOMAIN s = 1..n /\ \A i \in 1..n : s[i] \in Kept(m.start, m.end)
    BY <2>1, LenProperties, ElementOfSeq
  <2>5. p = [i \in 1..n |-> [kind |-> s[i].kind, count |-> s[i].count,
                             start |-> s[i].start - m.start,
                             duration |-> Duration(s[i])]]
    BY <1>2, <2>1, <2>2, <2>3, <2>4 DEF createTransactionDataModel, Map
  <2>6. payload'.duration = m.end - m.start
    BY <1>2, <2>2 DEF createTransactionDataModel, Duration
  <2>7. Sum(Map(LAMBDA x : x.count, p)) = Stand(s)
    <3>1. DOMAIN p = 1..n /\ \A i \in 1..n : p[i].count = s[i].count
      BY <2>5
    <3>2. Map(LAMBDA x : x.count, p) = Map(LAMBDA x : x.count, s)
      BY <2>4, <3>1 DEF Map
    <3> QED BY <3>2 DEF Stand
  <2>8. ASSUME NEW x \in Range(p)
        PROVE  x.start >= 0 /\ x.duration > 0 /\ x.start + x.duration <= payload'.duration
    <3>1. PICK i \in 1..n : x = p[i]
      BY <2>5, <2>8 DEF Range
    <3>2. x.start = s[i].start - m.start /\ x.duration = s[i].end - s[i].start
      BY <2>5, <3>1 DEF Duration
    <3>3. /\ s[i].start \in Nat /\ s[i].end \in Nat /\ m.start \in Nat /\ m.end \in Nat
          /\ m.start <= s[i].start /\ s[i].start < s[i].end /\ s[i].end <= m.end
      BY <1>1, <2>4, <3>1 DEF Kept, Spans, AnySpan, Transactions
    <3> QED BY <2>6, <3>2, <3>3
  <2> QED BY <1>5, <2>1, <2>3, <2>7, <2>8 DEF Accounted
<1> QED BY <1>2, <1>9 DEF Reported

LEMMA ReportedNext ==
    ASSUME TInv, Reported, [Next]_vars
    PROVE  Reported'
<1>1. CASE Quiet
  <2>1. CASE UNCHANGED vars
    BY <2>1 DEF vars, Reported, Ones
  <2>2. CASE tr.status # "settled" /\ tr'.status # "settled"
    BY <1>1, <2>2 DEF Quiet, Reported, Ones, NoPayload
  <2> QED BY <1>1, <2>1, <2>2 DEF Quiet
<1>2. CASE OneMore
  <2>1. PICK x \in Spans : tr'.spans = Append(tr.spans, x) /\ x.count = 1
    BY <1>2 DEF OneMore
  <2>2. PICK s : s = tr.spans /\ s \in Seq(Spans) /\ Ones(s)
    BY <1>2 DEF OneMore, Reported, TInv, Typed, Transactions
  <2>3. PICK v : v = Append(s, x)
    OBVIOUS
  <2>4. /\ Len(v) = Len(s) + 1 /\ Len(s) \in Nat
        /\ \A i \in 1..Len(v) : v[i] = IF i <= Len(s) THEN s[i] ELSE x
    BY <2>2, <2>3
  <2>5. Ones(v)
    BY <2>1, <2>2, <2>4 DEF Ones
  <2> QED BY <1>2, <2>1, <2>2, <2>3, <2>5 DEF OneMore, Reported, NoPayload
<1>3. CASE \E from \in 0 .. MaxTime : EarlierObserve(from)
  BY <1>3, EarlierIs DEF Reported, Ones, NoPayload
<1> QED BY <1>1, <1>2, <1>3, StepIs, ObserveReported, SettleReported

(* No span is lost on the way to the report and each lies within its        *)
(* transaction (transaction-service.js: handleTransactionEnd, span          *)
(* adjustment; performance-monitoring.js: filtering and grouping).          *)
THEOREM EverySpanReportedHolds == Spec => []EverySpanReported
<1>1. TInv /\ Reported /\ [Next]_vars => (TInv /\ Reported)'
  BY TInvNext, ReportedNext
<1>2. Spec => [](TInv /\ Reported)
  BY TInvInit, ReportedInit, <1>1, PTL DEF Spec
<1>3. Reported => EverySpanReported
  BY AccountedIs
<1> QED BY <1>2, <1>3, PTL

-----------------------------------------------------------------------------
(* The marks keep their instant *)

(* They are set relative to the start of the transaction.                   *)
InstantsKept ==
    /\ marked \in Seq(Nat)
    /\ tr.status = "unstarted" => marked = <<>>
    /\ tr.status # "settled" =>
          /\ Len(tr.custom) = Len(marked)
          /\ \A i \in 1..Len(marked) : tr.start + tr.custom[i] = marked[i]
    /\ MarksKeepInstant

LEMMA InstantsInit == Init => InstantsKept
<1> SUFFICES ASSUME Init PROVE InstantsKept
  OBVIOUS
<1>1. tr.custom = <<>> /\ marked = <<>> /\ tr.status = "unstarted"
  BY DEF Init
<1>2. <<>> \in Seq(Nat) /\ \A i \in 1..Len(<<>>) : FALSE
  OBVIOUS
<1> QED BY <1>1, <1>2 DEF InstantsKept, MarksKeepInstant, Settled

(* Most steps leave the marks and the start alone.                          *)
SameInstants ==
    /\ marked' = marked /\ tr'.custom = tr.custom /\ tr'.start = tr.start
    /\ tr'.status # "unstarted" \/ tr.status = "unstarted"
    /\ tr'.status # "settled" /\ tr.status # "settled"

LEMMA InstantsSame ==
    ASSUME InstantsKept, SameInstants
    PROVE  InstantsKept'
BY DEF InstantsKept, SameInstants, MarksKeepInstant, Settled

LEMMA SettleInstants ==
    ASSUME TInv, InstantsKept, NEW breakdownMetrics \in BOOLEAN, Settle(breakdownMetrics)
    PROVE  InstantsKept'
<1>1. PICK c, m, d, a : Settles(breakdownMetrics, c, m, d, a)
  BY SettleIs
<1>2. /\ tr'.status = "settled" /\ tr'.type = tr.type /\ tr'.sampled = tr.sampled
      /\ Captured(c) /\ Fitted(m, c) /\ Covering(m)
      /\ tr'.custom = c.custom /\ tr'.start = m.start
  BY <1>1 DEF Settles, Captured
<1>3. marked' = marked /\ tr.status = "ended"
  BY DEF Settle
<1>4. /\ marked \in Seq(Nat) /\ Len(tr.custom) = Len(marked)
      /\ \A i \in 1..Len(marked) : tr.start + tr.custom[i] = marked[i]
  BY <1>3 DEF InstantsKept
<1>5. tr.start \in Nat /\ tr.custom \in Seq(Nat)
  BY DEF TInv, Typed, Transactions
<1>6. PICK n \in Nat : n = Len(marked) /\ DOMAIN marked = 1..n
  BY <1>4, LenProperties
<1>7. \A i \in 1..n : tr.custom[i] \in Nat
  BY <1>4, <1>5, <1>6, ElementOfSeq
<1>8. ASSUME tr'.type = "page-load", tr'.sampled, NEW i \in 1..n
      PROVE  tr'.start + tr'.custom[i] = marked[i]
  <2>1. c.start = 0 /\ c.custom = [j \in 1..Len(tr.custom) |-> tr.custom[j] + tr.start]
    BY <1>2, <1>8 DEF Captured, IsPageLoad, CaptureTimings, Managed
  <2>2. tr'.start = 0
    <3>1. m.start \in Nat /\ m.start <= c.start
      BY <1>2 DEF Fitted, Covering, Transactions
    <3> QED BY <1>2, <2>1, <3>1
  <2>3. tr'.custom[i] = tr.custom[i] + tr.start
    BY <1>2, <1>4, <1>6, <2>1
  <2>4. tr.start + tr.custom[i] = marked[i]
    BY <1>4, <1>6
  <2> QED BY <1>5, <1>7, <2>2, <2>3, <2>4
<1> QED BY <1>2, <1>3, <1>4, <1>6, <1>8 DEF InstantsKept, MarksKeepInstant, IsPageLoad

LEMMA InstantsNext ==
    ASSUME TInv, InstantsKept, [Next]_vars
    PROVE  InstantsKept'
<1>0. tr \in Transactions
  BY DEF TInv, Typed
<1>1. CASE UNCHANGED vars
  BY <1>1 DEF vars, InstantsKept, MarksKeepInstant, Settled, IsPageLoad
<1>2. CASE \E start \in Starts : Start(start[1], start[2])
  <2>1. PICK start \in Starts : Start(start[1], start[2])
    BY <1>2
  <2>2. marked' = marked /\ tr'.custom = tr.custom /\ tr'.status = "running"
        /\ tr.status = "unstarted"
    BY <1>0, <2>1 DEF Start, Transactions
  <2>3. marked = <<>> /\ Len(tr.custom) = Len(marked)
    BY <2>2 DEF InstantsKept
  <2>4. \A i \in 1..Len(<<>>) : FALSE
    OBVIOUS
  <2> QED BY <2>2, <2>3, <2>4 DEF InstantsKept, MarksKeepInstant, Settled
<1>3. CASE Tick
  BY <1>3, InstantsSame DEF Tick, SameInstants
<1>4. CASE \E d \in 1 .. MaxTime, name \in {"self", "cross-origin"} : LongTask(d, name)
  BY <1>4, InstantsSame DEF LongTask, Entry, SameInstants
<1>5. CASE \E d \in 0 .. MaxTime, type \in {"paint", "largest-contentful-paint",
                                            "first-input", "layout-shift"} : Vital(type, d)
  BY <1>5, InstantsSame DEF Vital, Entry, SameInstants
<1>6. CASE \E i \in Initiators, s \in 0 .. MaxTime : \E f \in {s, s + 1} : Request(i, s, f)
  <2>1. PICK i \in Initiators, s \in 0 .. MaxTime : \E f \in {s, s + 1} : Request(i, s, f)
    BY <1>6
  <2>2. tr'.custom = tr.custom /\ tr'.start = tr.start /\ tr'.status = tr.status
    BY <1>0, <2>1 DEF Request, Transactions
  <2> QED BY <2>1, <2>2, InstantsSame DEF Request, Entry, SameInstants
<1>7. CASE \E s \in 0 .. MaxTime : Measure(s)
  BY <1>7, InstantsSame DEF Measure, Entry, SameInstants
<1>8. CASE \E kind \in {"app", "external"}, s \in 0 .. MaxTime :
             \E e \in {clock, clock + 1} : AppSpan(kind, s, e)
  <2>1. PICK kind \in {"app", "external"}, s \in 0 .. MaxTime :
          \E e \in {clock, clock + 1} : AppSpan(kind, s, e)
    BY <1>8
  <2>2. tr'.custom = tr.custom /\ tr'.start = tr.start /\ tr'.status = tr.status
    BY <1>0, <2>1 DEF AppSpan, Transactions
  <2> QED BY <2>1, <2>2, InstantsSame DEF AppSpan, Entry, SameInstants
<1>9. CASE Mark
  <2>1. /\ tr.status = "running" /\ tr'.status = "running" /\ tr'.start = tr.start
        /\ tr'.custom = Append(tr.custom, clock - tr.start) /\ marked' = Append(marked, clock)
    BY <1>0, <1>9 DEF Mark, Running, Transactions
  <2>2. /\ tr.start \in Nat /\ tr.custom \in Seq(Nat) /\ clock \in Nat /\ tr.start <= clock
        /\ marked \in Seq(Nat)
    BY <2>1, ReportAssumption DEF TInv, Typed, Timely, Running, Transactions, InstantsKept
  <2>3. PICK k \in Nat : k = clock - tr.start
    BY <2>2
  <2>4. PICK n \in Nat : n = Len(marked) /\ n = Len(tr.custom)
    BY <2>1, <2>2, LenProperties DEF InstantsKept
  <2>5. /\ Len(tr'.custom) = n + 1 /\ tr'.custom[n + 1] = k
        /\ \A i \in 1..n : tr'.custom[i] = tr.custom[i]
    BY <2>1, <2>2, <2>3, <2>4
  <2>6. /\ marked' \in Seq(Nat) /\ Len(marked') = n + 1 /\ marked'[n + 1] = clock
        /\ \A i \in 1..n : marked'[i] = marked[i]
    <3>1. PICK u \in Seq(Nat), c \in Nat : u = marked /\ c = clock /\ Len(u) = n
      BY <2>2, <2>4
    <3>2. PICK v : v = Append(u, c)
      OBVIOUS
    <3>3. u \in Seq(Nat) /\ c \in Nat /\ Len(u) = n
      BY <3>1
    <3>4. v \in Seq(Nat) /\ Len(v) = n + 1 /\ v[n + 1] = c /\ \A i \in 1..n : v[i] = u[i]
      BY <3>2, <3>3
    <3> QED BY <2>1, <3>1, <3>2, <3>4
  <2>7. \A i \in 1..n : tr.start + tr.custom[i] = marked[i]
    BY <2>1, <2>4 DEF InstantsKept
  <2>8. tr.start + k = clock
    BY <2>2, <2>3
  <2>9. \A i \in 1..(n + 1) : i \in 1..n \/ i = n + 1
    OBVIOUS
  <2>10. \A i \in 1..(n + 1) : tr'.start + tr'.custom[i] = marked'[i]
    BY <2>1, <2>5, <2>6, <2>7, <2>8, <2>9
  <2> QED BY <2>1, <2>5, <2>6, <2>10 DEF InstantsKept, MarksKeepInstant, Settled
<1>10. CASE Observe
  <2>1. tr'.custom = tr.custom /\ tr'.start = tr.start /\ tr'.status = tr.status
    BY <1>10, ObserveIs
  <2> QED BY <1>10, <2>1, InstantsSame DEF Observe, Running, SameInstants
<1>11. CASE \E endTime \in {clock - 1, clock, clock + 1} : End(endTime)
  <2>1. PICK endTime \in {clock - 1, clock, clock + 1} : End(endTime)
    BY <1>11
  <2>2. /\ tr'.custom = tr.custom /\ tr'.start = tr.start /\ tr'.status = "ended"
        /\ tr.status = "running"
    BY <1>0, <2>1 DEF End, Running, Transactions
  <2> QED BY <2>1, <2>2, InstantsSame DEF End, SameInstants
<1>12. CASE \E breakdownMetrics \in BOOLEAN : Settle(breakdownMetrics)
  BY <1>12, SettleInstants
<1>13. CASE \E from \in 0 .. MaxTime : EarlierObserve(from)
  BY <1>13, EarlierIs, InstantsSame DEF SameInstants
<1> QED BY <1>1, <1>2, <1>3, <1>4, <1>5, <1>6, <1>7, <1>8, <1>9, <1>10, <1>11, <1>12,
       <1>13, Zenon DEF Next

-----------------------------------------------------------------------------
(* What prolongs a transaction *)

(* The entries are over by hi, and the long tasks, which one thread runs,   *)
(* start from lo on and follow one another.                                 *)
InOrder(s, lo, hi) ==
    /\ lo \in Nat /\ hi \in Nat /\ lo <= hi
    /\ Within(s, hi)
    /\ \A i \in 1..Len(s) : s[i].type = "longtask" => lo <= s[i].start
    /\ \A i, j \in 1..Len(s) : i < j /\ s[i].type = "longtask" /\ s[j].type = "longtask"
                                 => s[i].start + s[i].duration <= s[j].start

LEMMA TasksInOrder ==
    ASSUME NEW s \in Seq(Observations), NEW T, NEW lo, NEW hi, InOrder(s, lo, hi),
           \A i \in 1..Len(Only(s, T)) : Only(s, T)[i].type = "longtask"
    PROVE  Sequential(Only(s, T), lo, hi)
<1>1. PICK t \in Seq(Observations) : t = Only(s, T)
  BY OnlyIn
<1>2. PICK m \in Nat : m = Len(t)
  BY LenProperties
<1>3. PICK n \in Nat : n = Len(s)
  BY LenProperties
<1>4. PICK f \in [1..m -> 1..n] : (\A j \in 1..m : t[j] = s[f[j]]) /\ Increasing(f, m)
  BY <1>1, <1>2, <1>3, OnlyIndices
<1>5. \A i \in 1..m : f[i] \in 1..n
  BY <1>4
<1>6. \A i \in 1..m : t[i].type = "longtask"
  BY <1>1, <1>2
<1>7. \A i \in 1..m : lo <= t[i].start /\ t[i].start + t[i].duration <= hi
  BY <1>3, <1>4, <1>5, <1>6 DEF InOrder, Within
<1>8. \A i, j \in 1..m : i < j => t[i].start + t[i].duration <= t[j].start
  BY <1>3, <1>4, <1>5, <1>6 DEF InOrder, Increasing
<1>9. lo \in Nat /\ hi \in Nat /\ lo <= hi
  BY DEF InOrder
<1> QED BY <1>1, <1>2, <1>7, <1>8, <1>9 DEF Sequential

(* One more entry, which lasts until now.                                   *)
LEMMA OneMoreInOrder ==
    ASSUME NEW s \in Seq(Observations), NEW lo, NEW hi \in Nat, InOrder(s, lo, hi),
           NEW e \in Observations, NEW h \in Nat, hi <= h, e.start + e.duration <= h,
           e.type = "longtask" => hi <= e.start
    PROVE  InOrder(Append(s, e), lo, h)
<1>1. PICK n \in Nat : n = Len(s) /\ \A i \in 1..n : s[i] \in Observations
  BY LenProperties, ElementOfSeq
<1>2. PICK v : v = Append(s, e)
  OBVIOUS
<1>3. Len(v) = n + 1 /\ v[n + 1] = e /\ \A i \in 1..n : v[i] = s[i]
  BY <1>1, <1>2
<1>4. lo \in Nat /\ lo <= hi
  BY DEF InOrder
<1>5. \A i \in 1..n : s[i].start \in Nat /\ s[i].duration \in Nat
  BY <1>1 DEF Observations
<1>6. e.start \in Nat /\ e.duration \in Nat
  BY DEF Observations
<1>7. \A i \in 1..n : s[i].start + s[i].duration <= hi
  BY <1>1 DEF InOrder, Within
<1>8. \A i \in 1..(n + 1) : i \in 1..n \/ i = n + 1
  OBVIOUS
<1>9. \A i \in 1..(n + 1) : v[i].start + v[i].duration <= h
  BY <1>3, <1>5, <1>7, <1>8
<1>10. \A i \in 1..(n + 1) : v[i].type = "longtask" => lo <= v[i].start
  <2>1. \A i \in 1..n : s[i].type = "longtask" => lo <= s[i].start
    BY <1>1 DEF InOrder
  <2> QED BY <1>3, <1>4, <1>6, <1>8, <2>1
<1>11. ASSUME NEW i \in 1..(n + 1), NEW j \in 1..(n + 1), i < j,
              v[i].type = "longtask", v[j].type = "longtask"
       PROVE  v[i].start + v[i].duration <= v[j].start
  <2>1. i \in 1..n /\ v[i] = s[i]
    BY <1>3, <1>8, <1>11
  <2>2. CASE j \in 1..n
    BY <1>1, <1>3, <1>11, <2>1, <2>2 DEF InOrder
  <2>3. CASE j = n + 1
    <3>1. v[j] = e /\ hi <= e.start
      BY <1>3, <1>11, <2>3
    <3>2. s[i].start + s[i].duration <= hi /\ s[i].start + s[i].duration \in Nat
      BY <1>5, <1>7, <2>1
    <3> QED BY <1>6, <2>1, <3>1, <3>2
  <2> QED BY <1>8, <2>2, <2>3
<1> QED BY <1>2, <1>3, <1>4, <1>9, <1>10, <1>11 DEF InOrder, Within

LEMMA InOrderLater ==
    ASSUME NEW s \in Seq(Observations), NEW lo, NEW hi, InOrder(s, lo, hi),
           NEW h \in Nat, hi <= h
    PROVE  InOrder(s, lo, h)
<1>1. \A i \in 1..Len(s) : s[i].start \in Nat /\ s[i].duration \in Nat
  <2>1. \A i \in 1..Len(s) : s[i] \in Observations
    BY ElementOfSeq
  <2> QED BY <2>1 DEF Observations
<1>2. lo \in Nat /\ hi \in Nat /\ lo <= hi
  BY DEF InOrder
<1>3. \A i \in 1..Len(s) : s[i].start + s[i].duration <= hi
  BY DEF InOrder, Within
<1>4. \A i \in 1..Len(s) : s[i].start + s[i].duration <= h
  BY <1>1, <1>2, <1>3
<1> QED BY <1>2, <1>4 DEF InOrder, Within

LEMMA NoneInOrder ==
    ASSUME NEW lo \in Nat, NEW hi \in Nat, lo <= hi
    PROVE  InOrder(<<>>, lo, hi)
<1>1. \A i \in 1..Len(<<>>) : FALSE
  OBVIOUS
<1> QED BY <1>1 DEF InOrder, Within

(* Spans that may not prolong what lasts to b: not taken into account, of   *)
(* the application, or over by then.                                        *)
Short(s, b) ==
    \A i \in 1..Len(s) : s[i].kind = "external" \/ s[i].name = "app" \/ s[i].end <= b

LEMMA ShortConcat ==
    ASSUME NEW a \in Seq(Spans), NEW s \in Seq(Spans), NEW b, Short(a, b), EndBy(s, b)
    PROVE  a \o s \in Seq(Spans) /\ Short(a \o s, b)
<1>1. PICK n \in Nat, m \in Nat : n = Len(a) /\ m = Len(s)
  BY LenProperties
<1>2. PICK c : c = a \o s
  OBVIOUS
<1>3. /\ a \o s \in Seq(Spans) /\ Len(a \o s) = Len(a) + Len(s)
      /\ \A i \in 1..Len(a) + Len(s) :
            (a \o s)[i] = IF i <= Len(a) THEN a[i] ELSE s[i - Len(a)]
  BY ConcatProperties
<1>4. /\ c \in Seq(Spans) /\ Len(c) = n + m
      /\ \A i \in 1..(n + m) : c[i] = IF i <= n THEN a[i] ELSE s[i - n]
  BY <1>1, <1>2, <1>3
<1>5. \A i \in 1..n : a[i].kind = "external" \/ a[i].name = "app" \/ a[i].end <= b
  BY <1>1 DEF Short
<1>6. \A i \in 1..m : s[i].end <= b
  BY <1>1 DEF EndBy
<1>7. ASSUME NEW i \in 1..(n + m)
      PROVE  c[i].kind = "external" \/ c[i].name = "app" \/ c[i].end <= b
  <2>1. CASE i <= n
    BY <1>4, <1>5, <2>1
  <2>2. CASE ~(i <= n)
    <3>1. i - n \in 1..m
      BY <2>2
    <3> QED BY <1>4, <1>6, <2>2, <3>1
  <2> QED BY <2>1, <2>2
<1> QED BY <1>2, <1>4, <1>7 DEF Short

(* The total blocking time is over before the long tasks still observed.    *)
Blocked == \E lo : BlockedBefore(metrics, lo) /\ InOrder(observed, lo, clock)

LEMMA BlockedInit == Init => Blocked
<1> SUFFICES ASSUME Init PROVE Blocked
  OBVIOUS
<1>1. observed = <<>> /\ clock = 0 /\ metrics.tbt = 0
  BY DEF Init, NoMetrics
<1>2. BlockedBefore(metrics, 0)
  BY <1>1 DEF BlockedBefore
<1>3. InOrder(<<>>, 0, 0)
  BY NoneInOrder
<1> QED BY <1>1, <1>2, <1>3 DEF Blocked

LEMMA BlockedNow ==
    ASSUME TInv, Blocked
    PROVE  BlockedBefore(metrics, clock)
<1>1. PICK lo : BlockedBefore(metrics, lo) /\ InOrder(observed, lo, clock)
  BY DEF Blocked
<1>2. lo \in Nat /\ clock \in Nat /\ lo <= clock
  BY <1>1 DEF InOrder
<1>3. metrics.tbt \in Nat /\ metrics.tbtStart \in Nat
  BY DEF TInv, Typed, Metrics
<1> QED BY <1>1, <1>2, <1>3 DEF BlockedBefore

(* What is made of the entries is over by now.                              *)
LEMMA DeliveredBlocked ==
    ASSUME TInv, Blocked, NEW tasks \in Seq(Observations), NEW f, Delivers(tasks, f)
    PROVE  /\ BlockedBefore(metrics', clock)
           /\ EndBy(createLongTaskSpans(tasks), clock) /\ EndBy(f, clock)
<1>1. PICK lo : BlockedBefore(metrics, lo) /\ InOrder(observed, lo, clock)
  BY DEF Blocked
<1>2. PICK T : tasks = Only(observed, T)
  BY DEF Delivers
<1>3. Sequential(tasks, lo, clock)
  <2>1. observed \in Seq(Observations)
    BY DEF TInv, Typed
  <2>2. PICK s \in Seq(Observations) : s = observed
    BY <2>1
  <2>3. \A i \in 1..Len(Only(s, T)) : Only(s, T)[i].type = "longtask"
    BY <1>2, <2>2 DEF Delivers
  <2>4. InOrder(s, lo, clock)
    BY <1>1, <2>2
  <2>5. Sequential(Only(s, T), lo, clock)
    BY <2>3, <2>4, TasksInOrder
  <2> QED BY <1>2, <2>2, <2>5
<1>4. BlockedBefore(metrics', clock)
  BY <1>1, <1>3 DEF Delivers, Blocks
<1>5. EndBy(createLongTaskSpans(tasks), clock)
  <2>1. Within(tasks, clock)
    BY <1>3 DEF Sequential, Within
  <2> QED BY <2>1, LongTaskSpansAre
<1>6. EndBy(f, clock)
  BY <1>1 DEF Delivers, InOrder
<1> QED BY <1>4, <1>5, <1>6

LEMMA BlockedNext ==
    ASSUME TInv, Blocked, [Next]_vars
    PROVE  Blocked'
<1>0. /\ observed \in Seq(Observations) /\ clock \in Nat
  BY ReportAssumption DEF TInv, Typed
<1>a. PICK lo : BlockedBefore(metrics, lo) /\ InOrder(observed, lo, clock)
  BY DEF Blocked
<1>b. PICK s \in Seq(Observations), c \in Nat : s = observed /\ c = clock /\ InOrder(s, lo, c)
  BY <1>0, <1>a
<1>c. lo \in Nat /\ lo <= c
  BY <1>b DEF InOrder
<1>1. CASE UNCHANGED <<metrics, observed, clock>>
  BY <1>1 DEF Blocked
<1>2. CASE Tick
  <2>1. metrics' = metrics /\ observed' = s /\ clock' = c + 1
    BY <1>2, <1>b DEF Tick
  <2>2. InOrder(s, lo, c + 1)
    BY <1>b, InOrderLater
  <2> QED BY <1>a, <2>1, <2>2 DEF Blocked
<1>3. CASE \E d \in 1 .. MaxTime, name \in {"self", "cross-origin"} : LongTask(d, name)
  <2>1. PICK d \in 1 .. MaxTime, name \in {"self", "cross-origin"} : LongTask(d, name)
    BY <1>3
  <2>2. PICK e : e = [type |-> "longtask", name |-> name, start |-> c, duration |-> d]
    OBVIOUS
  <2>3. e \in Observations /\ e.start + e.duration = c + d /\ c + d \in Nat
        /\ e.type = "longtask" /\ e.start = c
    BY ReportAssumption, <1>b, <2>1, <2>2 DEF Observations, Observed
  <2>4. metrics' = metrics /\ observed' = Append(s, e) /\ clock' = c + d
    BY <1>b, <2>1, <2>2 DEF LongTask
  <2>5. c <= c + d
    BY ReportAssumption, <1>b, <2>1
  <2>6. InOrder(Append(s, e), lo, c + d)
    BY <1>b, <2>3, <2>5, OneMoreInOrder
  <2> QED BY <1>a, <2>4, <2>6 DEF Blocked
<1>4. CASE \E d \in 0 .. MaxTime, type \in {"paint", "largest-contentful-paint",
                                            "first-input", "layout-shift"} : Vital(type, d)
  <2>1. PICK d \in 0 .. MaxTime, type \in {"paint", "largest-contentful-paint",
                                           "first-input", "layout-shift"} : Vital(type, d)
    BY <1>4
  <2>2. PICK e : e = [type |-> type, name |-> type, start |-> c - d, duration |-> d]
    OBVIOUS
  <2>3. d \in Nat /\ c - d \in Nat /\ (c - d) + d = c
    BY ReportAssumption, <1>b, <2>1 DEF Vital
  <2>4. e \in Observations /\ e.start + e.duration = c /\ e.type # "longtask"
    BY <2>1, <2>2, <2>3 DEF Observations, Observed
  <2>5. metrics' = metrics /\ observed' = Append(s, e) /\ clock' = c
    BY <1>b, <2>1, <2>2 DEF Vital
  <2>6. InOrder(Append(s, e), lo, c)
    BY <1>b, <2>4, OneMoreInOrder
  <2> QED BY <1>a, <2>5, <2>6 DEF Blocked
<1>5. CASE Observe
  <2>1. PICK tasks \in Seq(Observations), f \in Seq(TimelineSpans) : Delivers(tasks, f)
    BY <1>5, ObserveIs
  <2>2. BlockedBefore(metrics', clock)
    BY <2>1, DeliveredBlocked
  <2>3. observed' = <<>> /\ clock' = c /\ clock = c
    BY <1>5, <1>b DEF Observe
  <2>4. InOrder(<<>>, c, c)
    BY <1>b, NoneInOrder
  <2> QED BY <2>2, <2>3, <2>4 DEF Blocked
<1>6. CASE \E endTime \in {clock - 1, clock, clock + 1} : End(endTime)
  <2>1. observed' = <<>> /\ clock' = c /\ metrics' = metrics
    BY <1>6, <1>b DEF End
  <2>2. InOrder(<<>>, lo, c)
    BY <1>b, <1>c, NoneInOrder
  <2> QED BY <1>a, <2>1, <2>2 DEF Blocked
<1>7. ASSUME \/ UNCHANGED vars
             \/ \E start \in Starts : Start(start[1], start[2])
             \/ \E i \in Initiators, x \in 0 .. MaxTime : \E f \in {x, x + 1} : Request(i, x, f)
             \/ \E x \in 0 .. MaxTime : Measure(x)
             \/ \E kind \in {"app", "external"}, x \in 0 .. MaxTime :
                   \E e \in {clock, clock + 1} : AppSpan(kind, x, e)
             \/ Mark
             \/ \E breakdownMetrics \in BOOLEAN : Settle(breakdownMetrics)
      PROVE  UNCHANGED <<metrics, observed, clock>>
  BY <1>7 DEF vars, Start, Request, Measure, AppSpan, Mark, Settle
<1>8. CASE \E from \in 0 .. MaxTime : EarlierObserve(from)
  <2>1. /\ metrics'.tbt = metrics.tbt /\ metrics'.tbtStart = metrics.tbtStart
        /\ observed' = observed /\ clock' = clock
    BY <1>8, EarlierIs
  <2> QED BY <1>a, <2>1 DEF Blocked, BlockedBefore
<1> QED BY <1>1, <1>2, <1>3, <1>4, <1>5, <1>6, <1>7, <1>8, Zenon DEF Next

(* The spans that are of no request nor of the application are over by now. *)
Prolonged ==
    /\ tr.status = "unstarted" => tr.spans = <<>>
    /\ tr.status # "settled" => Short(tr.spans, clock)
    /\ tr.status = "ended" => tr.end = endedAt
    /\ OnlySpansProlong

LEMMA ProlongedInit == Init => Prolonged
<1> SUFFICES ASSUME Init PROVE Prolonged
  OBVIOUS
<1>1. tr.status = "unstarted" /\ tr.spans = <<>>
  BY DEF Init
<1>2. \A i \in 1..Len(<<>>) : FALSE
  OBVIOUS
<1> QED BY <1>1, <1>2 DEF Prolonged, Short, OnlySpansProlong, Settled

LEMMA ShortLater ==
    ASSUME NEW s \in Seq(Spans), NEW a \in Nat, NEW b \in Nat, a <= b, Short(s, a)
    PROVE  Short(s, b)
<1>1. \A i \in 1..Len(s) : s[i].end \in Nat
  <2>1. \A i \in 1..Len(s) : s[i] \in Spans
    BY ElementOfSeq
  <2> QED BY <2>1 DEF Spans, AnySpan
<1> QED BY <1>1 DEF Short

(* A request or the application adds a span.                                *)
LEMMA OneMoreProlonged ==
    ASSUME TInv, Prolonged, OneMore
    PROVE  Prolonged'
<1>1. /\ tr.status = "running" /\ tr'.status = "running" /\ tr'.type = tr.type /\ clock' = clock
      /\ tr.spans \in Seq(Spans)
  BY DEF OneMore, TInv, Typed, Transactions
<1>2. PICK x \in Spans :
        tr'.spans = Append(tr.spans, x) /\ (x.kind = "external" \/ x.name = "app")
  BY DEF OneMore
<1>3. PICK s \in Seq(Spans) : s = tr.spans
  BY <1>1
<1>4. PICK v : v = Append(s, x)
  OBVIOUS
<1>5. /\ Len(v) = Len(s) + 1 /\ Len(s) \in Nat
      /\ \A i \in 1..Len(v) : v[i] = IF i <= Len(s) THEN s[i] ELSE x
  BY <1>3, <1>4
<1>6. \A i \in 1..Len(v) : i \in 1..Len(s) \/ v[i] = x
  BY <1>5
<1>7. \A b : Short(s, b) => Short(v, b)
  BY <1>2, <1>5, <1>6 DEF Short
<1>8. tr'.spans = v
  BY <1>2, <1>3, <1>4
<1> QED BY <1>1, <1>3, <1>7, <1>8
    DEF Prolonged, OnlySpansProlong, Settled

LEMMA ObserveProlonged ==
    ASSUME TInv, Blocked, Prolonged, Observe
    PROVE  Prolonged'
<1>1. PICK tasks \in Seq(Observations), f \in Seq(TimelineSpans) : Delivers(tasks, f)
  BY ObserveIs
<1>2. /\ tr.status = "running" /\ tr'.status = "running" /\ tr'.type = tr.type /\ clock' = clock
      /\ tr.spans \in Seq(Spans)
  BY ObserveIs DEF Observe, Running, TInv, Typed, Transactions
<1>3. CASE ~CaptureTimings(tr)
  <2>1. tr'.spans = tr.spans
    BY <1>1, <1>3 DEF Delivers
  <2> QED BY <1>2, <2>1 DEF Prolonged, OnlySpansProlong, Settled
<1>4. CASE CaptureTimings(tr)
  <2>2. PICK a \in Seq(Spans) : a = tr.spans /\ Short(a, clock)
    BY <1>2 DEF Prolonged
  <2>3. PICK l : l = createLongTaskSpans(tasks)
    OBVIOUS
  <2>4. l \in Seq(Spans) /\ EndBy(l, clock)
    <3>1. createLongTaskSpans(tasks) \in Seq(UncalledSpans)
      BY LongTaskSpansAre
    <3>2. createLongTaskSpans(tasks) \in Seq(Spans)
      BY <3>1, SeqMonotonic DEF UncalledSpans
    <3> QED BY <1>1, <2>3, <3>2, DeliveredBlocked
  <2>5. f \in Seq(Spans) /\ EndBy(f, clock)
    <3>1. f \in Seq(Spans)
      BY SeqMonotonic DEF TimelineSpans, UncalledSpans
    <3> QED BY <1>1, <3>1, DeliveredBlocked
  <2>6. a \o l \in Seq(Spans) /\ Short(a \o l, clock)
    BY <2>2, <2>4, ShortConcat
  <2>7. Short((a \o l) \o f, clock)
    BY <2>5, <2>6, ShortConcat
  <2>8. tr'.spans = (a \o l) \o f
    BY <1>1, <2>2, <2>3 DEF Delivers
  <2> QED BY <1>2, <2>7, <2>8 DEF Prolonged, OnlySpansProlong, Settled
<1> QED BY <1>3, <1>4

(* What is captured at the end was over by then or by now, if it is not of  *)
(* the application.                                                         *)
LEMMA CapturedShort ==
    ASSUME TInv, Blocked, Prolonged, tr.status = "ended", NEW c, Captured(c)
    PROVE  Short(c.spans, MaxOf(tr.end, clock))
<1>1. tr.spans \in Seq(Spans) /\ tr.end \in Nat /\ clock \in Nat
  BY ReportAssumption DEF TInv, Typed, Transactions
<1>2. PICK h \in Nat : h = MaxOf(tr.end, clock) /\ clock <= h /\ tr.end <= h
  BY <1>1 DEF MaxOf
<1>3. PICK a \in Seq(Spans) : a = tr.spans /\ Short(a, h)
  <2>1. Short(tr.spans, clock)
    BY DEF Prolonged
  <2> QED BY <1>1, <1>2, <2>1, ShortLater
<1>4. CASE ~CaptureTimings(tr)
  <2>1. c = tr
    BY <1>4 DEF Captured
  <2> QED BY <1>2, <1>3, <2>1
<1>5. CASE CaptureTimings(tr)
  <2>1. PICK s \in Seq(TimelineSpans), u \in Seq(TimelineSpans),
             r \in Seq(Spans), v \in Seq(TimelineSpans) :
          /\ c.spans = (((tr.spans \o s) \o u) \o r) \o v
          /\ \A b : BlockedBefore(metrics, b) => EndBy(s, b)
          /\ EndBy(u, tr.end) /\ EndBy(r, tr.end) /\ EndBy(v, tr.end)
    BY DEF Captured
  <2>2. s \in Seq(Spans) /\ u \in Seq(Spans) /\ v \in Seq(Spans)
    BY SeqMonotonic DEF TimelineSpans, UncalledSpans
  <2>3. EndBy(s, clock)
    BY <2>1, BlockedNow
  <2>4. EndBy(s, h) /\ EndBy(u, h) /\ EndBy(r, h) /\ EndBy(v, h)
    <3>1. ASSUME NEW q \in Seq(Spans), NEW b \in Nat, b <= h, EndBy(q, b)
          PROVE  EndBy(q, h)
      <4>1. \A i \in 1..Len(q) : q[i].end \in Nat
        BY ElementOfSeq DEF Spans, AnySpan
      <4> QED BY <3>1, <4>1 DEF EndBy
    <3> QED BY <1>1, <1>2, <2>1, <2>2, <2>3, <3>1
  <2>5. PICK b : b = a \o s /\ b \in Seq(Spans) /\ Short(b, h)
    <3>1. a \o s \in Seq(Spans) /\ Short(a \o s, h)
      BY <1>3, <2>2, <2>4, ShortConcat
    <3> QED BY <3>1
  <2>6. PICK d : d = b \o u /\ d \in Seq(Spans) /\ Short(d, h)
    <3>1. b \o u \in Seq(Spans) /\ Short(b \o u, h)
      BY <2>2, <2>4, <2>5, ShortConcat
    <3> QED BY <3>1
  <2>7. PICK e : e = d \o r /\ e \in Seq(Spans) /\ Short(e, h)
    <3>1. d \o r \in Seq(Spans) /\ Short(d \o r, h)
      BY <2>4, <2>6, ShortConcat
    <3> QED BY <3>1
  <2>8. Short(e \o v, h)
    BY <2>2, <2>4, <2>7, ShortConcat
  <2> QED BY <1>2, <1>3, <2>1, <2>5, <2>6, <2>7, <2>8
<1> QED BY <1>4, <1>5

LEMMA SettleProlonged ==
    ASSUME TInv, Blocked, Prolonged, NEW breakdownMetrics \in BOOLEAN, Settle(breakdownMetrics)
    PROVE  Prolonged'
<1>1. PICK c \in Transactions, m \in Transactions, d \in Transactions, a \in Transactions :
        Settles(breakdownMetrics, c, m, d, a)
  BY SettleIs
<1>2. /\ tr'.status = "settled" /\ raw' = c.spans /\ Captured(c) /\ Fitted(m, c)
      /\ tr'.end = m.end /\ c.end = tr.end
  BY <1>1 DEF Settles, Captured
<1>3. tr.status = "ended" /\ endedAt' = endedAt /\ clock' = clock /\ clock \in Nat
  BY ReportAssumption DEF Settle, TInv, Typed
<1>4. tr.end = endedAt /\ Short(c.spans, MaxOf(tr.end, clock))
  BY <1>2, <1>3, CapturedShort DEF Prolonged
<1>5. PICK q \in Seq(Spans) : q = c.spans /\ raw' = q
  BY <1>1, <1>2 DEF Transactions
<1>6. c.end \in Nat /\ m.end \in Nat /\ c.end <= m.end
  BY <1>1, <1>2 DEF Transactions, Fitted
<1>7. CASE m.end = c.end
  BY <1>2, <1>3, <1>4, <1>7 DEF Prolonged, OnlySpansProlong
<1>8. CASE m.end # c.end
  <2>1. PICK i \in 1..Len(q) : q[i].kind # "external" /\ m.end = q[i].end
    BY <1>2, <1>5, <1>8 DEF Fitted
  <2>2. CASE q[i].name = "app"
    <3>1. q[i] \in Range(q)
      BY <2>1, LenProperties DEF Range
    <3>2. tr'.end \in {s.end : s \in {x \in Range(raw') : x.name = "app"}}
      BY <1>2, <1>5, <2>1, <2>2, <3>1
    <3> QED BY <1>2, <3>2 DEF Prolonged, OnlySpansProlong
  <2>3. CASE q[i].name # "app"
    <3>1. q[i].end <= MaxOf(tr.end, clock)
      BY <1>4, <1>5, <2>1, <2>3 DEF Short
    <3>2. c.end < m.end /\ m.end <= clock
      BY <1>2, <1>3, <1>6, <1>8, <2>1, <3>1 DEF MaxOf
    <3>3. endedAt' < tr'.end /\ tr'.end <= clock'
      BY <1>2, <1>3, <1>4, <3>2
    <3> QED BY <1>2, <3>3 DEF Prolonged, OnlySpansProlong
  <2> QED BY <2>2, <2>3
<1> QED BY <1>7, <1>8

(* A step that leaves the transaction alone.                                *)
LEMMA SameProlonged ==
    ASSUME TInv, Prolonged, TInv', clock <= clock', tr' = tr, raw' = raw, endedAt' = endedAt,
           tr.status \in {"unstarted", "running"}
    PROVE  Prolonged'
<1>1. clock \in Nat /\ clock' \in Nat /\ tr.spans \in Seq(Spans)
  BY ReportAssumption DEF TInv, Typed, Transactions
<1>2. Short(tr.spans, clock) => Short(tr.spans, clock')
  BY <1>1, ShortLater
<1> QED BY <1>2 DEF Prolonged, OnlySpansProlong, Settled

LEMMA ProlongedNext ==
    ASSUME TInv, TInv', Blocked, Prolonged, [Next]_vars
    PROVE  Prolonged'
<1>0. tr \in Transactions /\ clock \in Nat
  BY ReportAssumption DEF TInv, Typed
<1>1. CASE UNCHANGED vars
  BY <1>1 DEF vars, Prolonged, OnlySpansProlong, Settled, Managed
<1>2. CASE \E start \in Starts : Start(start[1], start[2])
  <2>1. PICK start \in Starts : Start(start[1], start[2])
    BY <1>2
  <2>2. tr'.spans = tr.spans /\ tr'.status = "running" /\ tr.status = "unstarted"
    BY <1>0, <2>1 DEF Start, Transactions
  <2>3. tr'.spans = <<>>
    BY <2>2 DEF Prolonged
  <2>4. \A i \in 1..Len(<<>>) : FALSE
    OBVIOUS
  <2> QED BY <2>2, <2>3, <2>4 DEF Prolonged, Short, OnlySpansProlong, Settled
<1>3. CASE Tick
  <2>1. clock <= clock'
    BY <1>0, <1>3 DEF Tick
  <2> QED BY <1>3, <2>1, SameProlonged DEF Tick
<1>4. CASE \E d \in 1 .. MaxTime, name \in {"self", "cross-origin"} : LongTask(d, name)
  <2>1. PICK d \in 1 .. MaxTime, name \in {"self", "cross-origin"} : LongTask(d, name)
    BY <1>4
  <2>2. clock <= clock'
    BY <1>0, <2>1, ReportAssumption DEF LongTask
  <2> QED BY <2>1, <2>2, SameProlonged DEF LongTask, Entry
<1>5. CASE \E d \in 0 .. MaxTime, type \in {"paint", "largest-contentful-paint",
                                            "first-input", "layout-shift"} : Vital(type, d)
  <2>1. clock <= clock'
    BY <1>0, <1>5 DEF Vital
  <2> QED BY <1>5, <2>1, SameProlonged DEF Vital, Entry
<1>6. CASE \E i \in Initiators, s \in 0 .. MaxTime : \E f \in {s, s + 1} : Request(i, s, f)
  <2>1. PICK i \in Initiators, s \in 0 .. MaxTime : \E f \in {s, s + 1} : Request(i, s, f)
    BY <1>6
  <2>2. PICK f \in {s, s + 1} : Request(i, s, f)
    BY <2>1
  <2>3. CASE tr' = tr
    <3>1. clock <= clock'
      BY <1>0, <2>2 DEF Request
    <3> QED BY <2>2, <2>3, <3>1, SameProlonged DEF Request, Entry
  <2>4. CASE tr' # tr
    <3>1. OneMore
      BY <2>2, <2>4, RequestIs
    <3> QED BY <3>1, OneMoreProlonged
  <2> QED BY <2>3, <2>4
<1>7. CASE \E s \in 0 .. MaxTime : Measure(s)
  <2>1. clock <= clock'
    BY <1>0, <1>7 DEF Measure
  <2> QED BY <1>7, <2>1, SameProlonged DEF Measure, Entry
<1>8. CASE \E kind \in {"app", "external"}, s \in 0 .. MaxTime :
             \E e \in {clock, clock + 1} : AppSpan(kind, s, e)
  BY <1>8, AppSpanIs, OneMoreProlonged
<1>9. CASE Mark
  <2>1. /\ tr'.spans = tr.spans /\ tr'.status = "running" /\ tr.status = "running"
        /\ tr'.type = tr.type /\ clock' = clock
    BY <1>0, <1>9 DEF Mark, Running, Transactions
  <2> QED BY <2>1 DEF Prolonged, OnlySpansProlong, Settled
<1>10. CASE Observe
  BY <1>10, ObserveProlonged
<1>11. CASE \E endTime \in {clock - 1, clock, clock + 1} : End(endTime)
  <2>1. PICK endTime \in {clock - 1, clock, clock + 1} : End(endTime)
    BY <1>11
  <2>2. /\ tr'.spans = tr.spans /\ tr'.status = "ended" /\ tr'.end = endTime
        /\ endedAt' = endTime /\ tr'.type = tr.type /\ clock' = clock
        /\ tr.status = "running"
    BY <1>0, <2>1 DEF End, Running, Transactions
  <2> QED BY <2>2 DEF Prolonged, OnlySpansProlong, Settled
<1>12. CASE \E breakdownMetrics \in BOOLEAN : Settle(breakdownMetrics)
  BY <1>12, SettleProlonged
<1>13. CASE \E from \in 0 .. MaxTime : EarlierObserve(from)
  <2>1. clock <= clock'
    BY <1>0, <1>13, EarlierIs
  <2> QED BY <1>13, <2>1, EarlierIs, SameProlonged
<1> QED BY <1>1, <1>2, <1>3, <1>4, <1>5, <1>6, <1>7, <1>8, <1>9, <1>10, <1>11, <1>12,
       <1>13, Zenon DEF Next

-----------------------------------------------------------------------------
(* The breakdown accounts for the time *)

(* The self time of a transaction its spans lie within is the instants that *)
(* none of them covers.                                                     *)
LEMMA SelfTimeSpent ==
    ASSUME NEW t, Covering(t), \A i \in 1..Len(t.spans) : t.spans[i].end <= t.end
    PROVE  calculateSelfTime(t) = Cardinality(Free(Range(t.spans), t.start, t.end))
<1>1. PICK a \in Nat, b \in Nat : a = t.start /\ b = t.end /\ a <= b
  BY DEF Covering, Transactions
<1>2. PICK p \in Seq(Spans) : p = t.spans
  BY DEF Covering, Transactions
<1>3. PICK n \in Nat : n = Len(p) /\ DOMAIN p = 1..n /\ \A i \in 1..n : p[i] \in Spans
  BY LenProperties, ElementOfSeq
<1>4. \A i \in 1..n : a <= p[i].start /\ p[i].end <= b
  <2>1. \A i \in 1..n : p[i].start \in Nat
    BY <1>3 DEF Spans, AnySpan
  <2> QED BY <1>1, <1>2, <1>3, <2>1 DEF Covering
<1>5. CASE n = 0
  <2>1. t.spans = <<>>
    BY <1>2, <1>3, <1>5, EmptySeq
  <2>2. calculateSelfTime(t) = b - a
    BY <1>1, <2>1 DEF calculateSelfTime, Duration
  <2>3. Range(t.spans) = {}
    BY <2>1 DEF Range
  <2>4. Free({}, a, b) = a .. b - 1
    BY DEF Free
  <2> QED BY <1>1, <2>2, <2>3, <2>4, Interval
<1>6. CASE n # 0
  <2>1. PICK E : E = {x \in Spans : a <= x.start}
    OBVIOUS
  <2>2. p \in Seq(E)
    BY <1>3, <1>4, <2>1
  <2>3. PICK s : s = SortByStart(p) /\ s \in Seq(E) /\ Sorted(s) /\ Len(s) = n
    <3>1. E \subseteq Spans
      BY <2>1
    <3>2. SortByStart(p) \in Seq(E) /\ Sorted(SortByStart(p)) /\ Len(SortByStart(p)) = n
      BY <1>3, <2>2, <3>1, SortIs
    <3> QED BY <3>2
  <2>4. Range(s) = Range(p)
    <3>1. E \subseteq Spans
      BY <2>1
    <3> QED BY <2>2, <2>3, <3>1, SortRange
  <2>5. DOMAIN s = 1..n /\ \A i \in 1..n : s[i] \in E
    BY <2>3, LenProperties, ElementOfSeq
  <2>6. PICK h \in E : h = s[1]
    BY <1>6, <2>5
  <2>7. h \in Spans /\ a <= h.start /\ h.start \in Nat /\ h.end \in Nat /\ h.start <= h.end
    BY <2>1 DEF Spans, AnySpan
  <2>8. PICK u : u = Tail(s) /\ u \in Seq(E) /\ Len(u) = n - 1 /\ \A i \in 1..(n - 1) : u[i] = s[i + 1]
    <3>1. s # <<>>
      BY <1>6, <2>3
    <3>2. Tail(s) \in Seq(E) /\ Len(Tail(s)) = n - 1 /\ \A i \in 1..(n - 1) : Tail(s)[i] = s[i + 1]
      BY <2>3, <3>1, HeadTailProperties
    <3> QED BY <3>2
  <2>9. PICK base \in Covers : base = [self |-> h.start - a, end |-> h.end]
    <3>1. h.start - a \in Nat
      BY <2>7
    <3> QED BY <2>7, <3>1 DEF Covers
  <2>10. Seen(base, {h}, a)
    <3>1. Free({h}, a, h.end) = a .. h.start - 1
      <4>1. \A i : i \in Free({h}, a, h.end) <=> i \in a .. h.end - 1 /\ ~(h.start <= i /\ i < h.end)
        BY DEF Free
      <4>2. \A i : i \in a .. h.end - 1 /\ ~(h.start <= i /\ i < h.end) <=> i \in a .. h.start - 1
        BY <2>7
      <4> QED BY <4>1, <4>2
    <3>2. Cardinality(a .. h.start - 1) = h.start - a
      BY <2>7, Interval
    <3>3. base.self = Cardinality(Free({h}, a, base.end)) /\ base.end = h.end
      BY <2>9, <3>1, <3>2
    <3>4. h.end >= a
      BY <2>7
    <3> QED BY <2>7, <3>3, <3>4 DEF Seen
  <2>11. Follow(h, u)
    <3>1. \A i, j \in 1..n : i <= j => s[i].start <= s[j].start
      BY <2>3 DEF Sorted
    <3>2. \A i \in 1..(n - 1) : i + 1 \in 1..n /\ 1 <= i + 1 /\ 1 \in 1..n
      OBVIOUS
    <3>3. \A i \in 1..(n - 1) : h.start <= u[i].start
      BY <2>6, <2>8, <3>1, <3>2
    <3>4. \A i, j \in 1..(n - 1) : i <= j => u[i].start <= u[j].start
      <4>1. \A i, j \in 1..(n - 1) : i <= j => i + 1 <= j + 1
        OBVIOUS
      <4> QED BY <2>8, <3>1, <3>2, <4>1
    <3> QED BY <2>8, <3>3, <3>4 DEF Follow, Sorted
  <2>12. {h} \cup Range(u) = Range(s)
    <3>1. DOMAIN u = 1..(n - 1)
      BY <2>8, LenProperties
    <3>2. Range(u) = {u[i] : i \in 1..(n - 1)} /\ Range(s) = {s[i] : i \in 1..n}
      BY <2>5, <3>1 DEF Range
    <3>3. ASSUME NEW i \in 1..n PROVE s[i] \in {h} \cup Range(u)
      <4>1. CASE i = 1
        BY <2>6, <4>1
      <4>2. CASE i # 1
        <5>1. i - 1 \in 1..(n - 1) /\ (i - 1) + 1 = i
          BY <4>2
        <5> QED BY <2>8, <3>2, <5>1
      <4> QED BY <4>1, <4>2
    <3>4. ASSUME NEW i \in 1..(n - 1) PROVE u[i] \in Range(s)
      <4>1. i + 1 \in 1..n
        OBVIOUS
      <4> QED BY <2>8, <3>2, <4>1
    <3>5. h \in Range(s)
      <4>1. 1 \in 1..n
        BY <1>6
      <4> QED BY <2>6, <3>2, <4>1
    <3> QED BY <3>2, <3>3, <3>4, <3>5
  <2>13. PICK r \in Covers : r = Cover(base, u) /\ Seen(r, Range(p), a)
    <3>1. Seen(Cover(base, u), {h} \cup Range(u), a)
      BY <2>1, <2>7, <2>8, <2>10, <2>11, CoverSeen
    <3>2. Seen(Cover(base, u), Range(p), a)
      BY <2>4, <2>12, <3>1
    <3> QED BY <3>2 DEF Seen
  <2>14. calculateSelfTime(t) = r.self + MaxOf(0, b - r.end)
    <3>1. t.spans # <<>>
      BY <1>2, <1>3, <1>6
    <3> QED BY <1>1, <1>2, <2>3, <2>6, <2>8, <2>9, <2>13, <3>1 DEF calculateSelfTime, Cover
  <2>15. PICK C : C = Range(p)
    OBVIOUS
  <2>16. /\ r.self \in Nat /\ r.end \in Nat /\ a <= r.end /\ r.end <= b
         /\ \A y \in C : y.end \in Nat /\ y.end <= r.end
    <3>1. \A y \in C : y.end \in Nat /\ y.end <= b
      BY <1>3, <1>4, <2>15 DEF Range, Spans, AnySpan
    <3> QED BY <2>13, <2>15, <3>1 DEF Seen, Covers
  <2>17. Free(C, a, b) = Free(C, a, r.end) \cup (r.end .. b - 1)
    <3>1. \A i : i \in a .. b - 1 <=> i \in a .. r.end - 1 \/ i \in r.end .. b - 1
      BY <1>1, <2>16
    <3>2. \A i \in r.end .. b - 1 : \A y \in C : ~(y.start <= i /\ i < y.end)
      BY <2>16
    <3> QED BY <3>1, <3>2 DEF Free
  <2>18. Free(C, a, r.end) \cap (r.end .. b - 1) = {}
    <3>1. \A i \in Free(C, a, r.end) : i < r.end
      BY <2>16 DEF Free
    <3>2. \A i \in r.end .. b - 1 : ~(i < r.end)
      BY <2>16
    <3> QED BY <3>1, <3>2
  <2>19. IsFiniteSet(r.end .. b - 1) /\ Cardinality(r.end .. b - 1) = b - r.end
    BY <2>16, Interval
  <2>20. IsFiniteSet(Free(C, a, r.end)) /\ Cardinality(Free(C, a, r.end)) = r.self
    <3>1. IsFiniteSet(Free(C, a, r.end))
      BY <2>16, FreeFinite
    <3> QED BY <2>13, <2>15, <3>1 DEF Seen
  <2>21. Cardinality(Free(C, a, b)) = r.self + (b - r.end)
    <3>1. PICK S : S = Free(C, a, r.end)
      OBVIOUS
    <3>2. PICK T : T = r.end .. b - 1
      OBVIOUS
    <3>3. Cardinality(S \cup T) = Cardinality(S) + Cardinality(T)
      BY <2>18, <2>19, <2>20, <3>1, <3>2, CardinalityOfUnion
    <3> QED BY <2>17, <2>19, <2>20, <3>1, <3>2, <3>3
  <2>22. MaxOf(0, b - r.end) = b - r.end
    BY <2>16 DEF MaxOf
  <2> QED BY <1>1, <1>2, <2>14, <2>15, <2>21, <2>22
<1> QED BY <1>5, <1>6

(* The time of each sample of a breakdown                                   *)
LEMMA SamplesSpent ==
    ASSUME NEW t, Covering(t), \A i \in 1..Len(t.spans) : t.spans[i].end <= t.end,
           NEW d \in groupSpans(t)
    PROVE  d.duration =
             Cardinality(Instants(t.spans, d.type, t.start, t.end)) +
               (IF d.type = "app" THEN Cardinality(Free(Range(t.spans), t.start, t.end))
                ELSE 0)
<1>1. PICK a \in Nat, b \in Nat : a = t.start /\ b = t.end
  BY DEF Covering, Transactions
<1>2. PICK p \in Seq(Spans) : p = t.spans
  BY DEF Covering, Transactions
<1>3. p \in Seq({x \in Spans : a <= x.start /\ x.end <= b})
  <2>1. PICK n \in Nat : n = Len(p) /\ \A i \in 1..n : p[i] \in Spans
    BY LenProperties, ElementOfSeq
  <2>2. \A i \in 1..n : p[i].start \in Nat
    BY <2>1 DEF Spans, AnySpan
  <2>3. \A i \in 1..n : a <= p[i].start /\ p[i].end <= b
    BY <1>1, <1>2, <2>1, <2>2 DEF Covering
  <2> QED BY <2>1, <2>3
<1> DEFINE Timed(k) == Only(p, {s \in Range(p) : s.kind = k /\ Duration(s) # 0})
           Self(k) == IF k = "app" THEN [count |-> 1, duration |-> calculateSelfTime(t)]
                      ELSE [count |-> 0, duration |-> 0]
<1>4. PICK k \in Kinds :
        d = [type |-> k, count |-> Self(k).count + Len(Timed(k)),
             duration |-> Self(k).duration + Sum(Map(Duration, Timed(k)))]
  BY <1>2 DEF groupSpans
<1>5. Timed(k) = Only(p, OfKind(k))
  <2>1. PICK R : R = Range(p) /\ p \in Seq(R) /\ R \subseteq Spans
    BY SeqOfRange, RangeOfSeq
  <2>2. PICK T : T = {s \in Range(p) : s.kind = k /\ Duration(s) # 0}
    OBVIOUS
  <2>3. \A x \in R : x \in T <=> x \in OfKind(k)
    BY <2>1, <2>2 DEF OfKind
  <2>4. Only(p, T) = Only(p, OfKind(k))
    BY <2>1, <2>3, OnlySame
  <2> QED BY <2>2, <2>4
<1>6. Took(Only(p, OfKind(k))) = Cardinality(Instants(p, k, a, b))
  BY <1>3, KindsTake
<1>7. PICK w \in Nat : w = Took(Only(p, OfKind(k)))
  BY <1>2, OnlyIn, TookIs
<1>8. PICK self \in Nat : self = calculateSelfTime(t)
  BY SelfTimeIs
<1>9. self = Cardinality(Free(Range(p), a, b))
  BY <1>1, <1>2, <1>8, SelfTimeSpent
<1>10. d.type = k /\ d.duration = (IF k = "app" THEN self ELSE 0) + w
  <2>1. Sum(Map(Duration, Timed(k))) = w
    BY <1>5, <1>7 DEF Took
  <2>2. Self(k).duration = IF k = "app" THEN self ELSE 0
    BY <1>8
  <2> HIDE DEF Timed, Self
  <2> QED BY <1>4, <2>1, <2>2
<1>11. (IF k = "app" THEN self ELSE 0) + w = w + (IF k = "app" THEN self ELSE 0)
  BY <1>7, <1>8
<1> QED BY <1>1, <1>2, <1>6, <1>7, <1>9, <1>10, <1>11

(* The samples of B have the time from a to b, by the spans of q.           *)
Divided(B, q, a, b) ==
    /\ q \in Seq(Spans)
    /\ \A d \in B :
          d.duration = Cardinality(Instants(q, d.type, a, b)) +
                         (IF d.type = "app" THEN Cardinality(Free(Range(q), a, b))
                          ELSE 0)

TimeDivided ==
    (Settled /\ tr.breakdown # {} /\ ~IsPageLoad(tr)) =>
      Divided(tr.breakdown, raw, tr.start, tr.end)

LEMMA TimeDividedIs == TimeDivided => TimeAccounted
<1> SUFFICES ASSUME Settled, tr.breakdown # {}, ~IsPageLoad(tr),
                    Divided(tr.breakdown, raw, tr.start, tr.end), NEW d \in tr.breakdown
             PROVE  d.duration =
                      Cardinality({p \in (tr.start .. tr.end - 1) \X DOMAIN raw :
                         /\ raw[p[2]].kind = d.type
                         /\ raw[p[2]].start <= p[1] /\ p[1] < raw[p[2]].end}) +
                      (IF d.type = "app"
                       THEN Cardinality({i \in tr.start .. tr.end - 1 :
                              ~ \E s \in Range(raw) : s.start <= i /\ i < s.end})
                       ELSE 0)
  BY DEF TimeDivided, TimeAccounted
<1>1. DOMAIN raw = 1..Len(raw)
  BY LenProperties DEF Divided
<1>2. PICK N : N = {p \in (tr.start .. tr.end - 1) \X DOMAIN raw :
                      /\ raw[p[2]].kind = d.type
                      /\ raw[p[2]].start <= p[1] /\ p[1] < raw[p[2]].end}
  OBVIOUS
<1>3. N = Instants(raw, d.type, tr.start, tr.end)
  BY <1>1, <1>2 DEF Instants
<1>4. PICK F : F = {i \in tr.start .. tr.end - 1 :
                      ~ \E s \in Range(raw) : s.start <= i /\ i < s.end}
  OBVIOUS
<1>5. F = Free(Range(raw), tr.start, tr.end)
  BY <1>4 DEF Free
<1>6. d.duration = Cardinality(N) + (IF d.type = "app" THEN Cardinality(F) ELSE 0)
  BY <1>3, <1>5 DEF Divided
<1> QED BY <1>2, <1>4, <1>6

(* Fitting the spans to their transaction changes no instant of it.         *)
LEMMA FittedInstants ==
    ASSUME NEW c \in Transactions, NEW m, Covering(m), Fitted(m, c)
    PROVE  /\ \A k : Instants(m.spans, k, m.start, m.end) =
                       Instants(c.spans, k, m.start, m.end)
           /\ Free(Range(m.spans), m.start, m.end) = Free(Range(c.spans), m.start, m.end)
           /\ \A i \in 1..Len(m.spans) : m.spans[i].end <= m.end
<1>1. PICK s : s = c.spans /\ s \in Seq(Spans)
  BY DEF Transactions
<1>2. PICK n \in Nat : n = Len(s) /\ DOMAIN s = 1..n /\ \A i \in 1..n : s[i] \in Spans
  BY <1>1, LenProperties, ElementOfSeq
<1>3. PICK a \in Nat, b \in Nat : a = m.start /\ b = m.end
  BY DEF Covering, Transactions
<1>4. PICK t : t = m.spans /\ t \in Seq(Spans) /\ Len(t) = n /\ DOMAIN t = 1..n
  <2>1. m.spans \in Seq(Spans) /\ Len(m.spans) = n
    BY <1>1, <1>2 DEF Fitted, Covering, Transactions
  <2> QED BY <2>1, LenProperties
<1>5. ASSUME NEW x \in Spans
      PROVE  /\ TruncateAt(x, b).kind = x.kind
             /\ TruncateAt(x, b).start = MinOf(x.start, b)
             /\ TruncateAt(x, b).end = MinOf(x.end, b)
  BY DEF TruncateAt, Spans, AnySpan
<1>6. \A i \in 1..n : t[i] = TruncateAt(s[i], b)
  BY <1>1, <1>2, <1>3, <1>4 DEF Fitted
<1>7. \A i \in 1..n : /\ t[i].kind = s[i].kind
                      /\ t[i].start = MinOf(s[i].start, b)
                      /\ t[i].end = MinOf(s[i].end, b)
                      /\ s[i].start \in Nat /\ s[i].end \in Nat
  BY <1>2, <1>5, <1>6 DEF Spans, AnySpan
<1>8. ASSUME NEW i \in 1..n, NEW j \in a .. b - 1
      PROVE  t[i].start <= j /\ j < t[i].end <=> s[i].start <= j /\ j < s[i].end
  <2>1. j \in Int /\ j < b
    OBVIOUS
  <2> QED BY <1>7, <2>1 DEF MinOf
<1>9. ASSUME NEW k PROVE Instants(t, k, a, b) = Instants(s, k, a, b)
  <2>1. ASSUME NEW p \in (a .. b - 1) \X (1..n)
        PROVE  (t[p[2]].kind = k /\ t[p[2]].start <= p[1] /\ p[1] < t[p[2]].end) <=>
               (s[p[2]].kind = k /\ s[p[2]].start <= p[1] /\ p[1] < s[p[2]].end)
    <3>1. p[1] \in a .. b - 1 /\ p[2] \in 1..n
      OBVIOUS
    <3> QED BY <1>7, <1>8, <3>1
  <2> QED BY <1>2, <1>4, <2>1 DEF Instants
<1>10. Free(Range(t), a, b) = Free(Range(s), a, b)
  <2>1. Range(t) = {t[i] : i \in 1..n} /\ Range(s) = {s[i] : i \in 1..n}
    BY <1>2, <1>4 DEF Range
  <2>2. ASSUME NEW j \in a .. b - 1
        PROVE  (\A y \in Range(t) : ~(y.start <= j /\ j < y.end)) <=>
               (\A y \in Range(s) : ~(y.start <= j /\ j < y.end))
    BY <1>8, <2>1
  <2> QED BY <2>2 DEF Free
<1>11. \A i \in 1..n : t[i].end <= b
  BY <1>7 DEF MinOf
<1> QED BY <1>1, <1>3, <1>4, <1>9, <1>10, <1>11

LEMMA SettleDivided ==
    ASSUME TInv, NEW breakdownMetrics \in BOOLEAN, Settle(breakdownMetrics)
    PROVE  TimeDivided'
<1> SUFFICES ASSUME tr'.breakdown # {}, tr'.type # "page-load"
             PROVE  Divided(tr'.breakdown, raw', tr'.start, tr'.end)
  BY DEF TimeDivided, IsPageLoad
<1>1. PICK c \in Transactions, m \in Transactions, d \in Transactions, a \in Transactions :
        Settles(breakdownMetrics, c, m, d, a)
  BY SettleIs
<1>2. /\ raw' = c.spans /\ Covering(m) /\ Fitted(m, c)
      /\ tr'.start = m.start /\ tr'.end = m.end /\ tr'.type = m.type
      /\ tr'.breakdown = d.breakdown /\ m.breakdown = {}
      /\ d = IF breakdownMetrics THEN captureBreakdown(m) ELSE m
  BY <1>1 DEF Settles
<1>3. d = captureBreakdown(m) /\ m.sampled
  <2>1. d # m
    BY <1>2
  <2> QED BY <1>2, <2>1 DEF captureBreakdown
<1>4. d.breakdown = groupSpans(m)
  <2>1. PICK s : s = SortByStart(m.spans)
    OBVIOUS
  <2>2. PICK B : B = groupSpans(m)
    OBVIOUS
  <2>3. PICK h : h = [m EXCEPT !.breakdown = B, !.spans = s]
    OBVIOUS
  <2>4. captureBreakdown(m) = h
    BY <1>2, <1>3, <2>1, <2>2, <2>3 DEF captureBreakdown, Transactions, IsPageLoad
  <2> QED BY <1>3, <2>2, <2>3, <2>4 DEF Transactions
<1>5. /\ \A k : Instants(m.spans, k, m.start, m.end) = Instants(c.spans, k, m.start, m.end)
      /\ Free(Range(m.spans), m.start, m.end) = Free(Range(c.spans), m.start, m.end)
      /\ \A i \in 1..Len(m.spans) : m.spans[i].end <= m.end
  BY <1>2, FittedInstants
<1>6. ASSUME NEW e \in groupSpans(m)
      PROVE  e.duration =
               Cardinality(Instants(c.spans, e.type, m.start, m.end)) +
                 (IF e.type = "app" THEN Cardinality(Free(Range(c.spans), m.start, m.end))
                  ELSE 0)
  BY <1>2, <1>5, SamplesSpent
<1>7. c.spans \in Seq(Spans)
  BY DEF Transactions
<1> QED BY <1>2, <1>4, <1>6, <1>7 DEF Divided

LEMMA DividedNext ==
    ASSUME TInv, TimeDivided, [Next]_vars
    PROVE  TimeDivided'
<1>1. CASE Quiet
  BY <1>1 DEF Quiet, TimeDivided, Settled, IsPageLoad, vars
<1>2. CASE OneMore
  BY <1>2 DEF OneMore, TimeDivided, Settled
<1>3. CASE Observe
  BY <1>3, ObserveIs DEF Observe, Running, TimeDivided, Settled
<1>4. CASE \E from \in 0 .. MaxTime : EarlierObserve(from)
  BY <1>4, EarlierIs DEF TimeDivided, Settled, IsPageLoad
<1> QED BY <1>1, <1>2, <1>3, <1>4, StepIs, SettleDivided

(* The times agree: the breakdown of a soft navigation gives each kind of   *)
(* span what its spans took, and "app" the time that none covers            *)
(* (breakdown.js), whatever the thresholds; the marks of a page load stay   *)
(* at their instants; and only a span of the application prolongs a         *)
(* transaction beyond the instant it was ended at, be it managed or not and *)
(* whichever end was given (transaction-service.js: handleTransactionEnd,   *)
(* adjustTransactionTime).                                                  *)
THEOREM TimesAgreeHolds == Spec => []TimesAgree
<1> DEFINE Times == InstantsKept /\ Blocked /\ Prolonged /\ TimeDivided
<1>1. Init => TInv /\ Times
  <2>1. Init => TimeDivided
    BY DEF Init, TimeDivided, Settled
  <2> QED BY <2>1, TInvInit, InstantsInit, BlockedInit, ProlongedInit
<1>2. TInv /\ Times /\ [Next]_vars => (TInv /\ Times)'
  BY TInvNext, InstantsNext, BlockedNext, ProlongedNext, DividedNext
<1>3. Times => TimesAgree
  BY TimeDividedIs DEF TimesAgree, InstantsKept, Prolonged
<1> HIDE DEF Times
<1>4. Spec => [](TInv /\ Times)
  BY <1>1, <1>2, PTL DEF Spec
<1> QED BY <1>3, <1>4, PTL
=============================================================================
