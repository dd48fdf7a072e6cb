---------------------------- MODULE Agent_proof ----------------------------
(***************************************************************************)
(* Invariants of Agent, for every number of tabs, every configuration and  *)
(* every sequence of published rates.                                      *)
(*                                                                         *)
(* One predicate speaks of a page, one of a stored configuration and one   *)
(* of the log; every action replaces one page, one stored configuration at *)
(* most, or appends to the log.                                            *)
(***************************************************************************)
EXTENDS Agent, TLAPS

Genuine(c) ==
    /\ c.rate \in RatesOut \cup {NoRate}
    /\ c.etag # 0 =>
          c.etag \in 1 .. server /\ Published[c.etag] \in {NoRate, c.rate}

(* The rate was published, and v sets no other *)
Sampled(rate, v) ==
    \E out \in RatesOut : rate = Normalise(out) /\ Published[v] \in {NoRate, out}

(* What a page is before init and after an inactive one *)
Idle(r) ==
    /\ r.started = 0 /\ r.request = "none" /\ r.pageLoad = "none"

PageInv(r) ==
    /\ r \in Page
    /\ Genuine(r.localConfig)
    /\ r.request = "answered" => r.answer \in 1 .. server
    /\ ~r.initialized => Idle(r) /\ r.listeners = 0 /\ ~r.disabled
    /\ r.disabled => Idle(r) /\ r.listeners = 0 /\ r.initialized
    /\ r.request \in {"pending", "answered"} => r.started = 0 /\ r.initialized
    /\ r.started <= 1 /\ r.listeners <= 1
    /\ r.applied # 0 => Sampled(r.rate, r.applied)

StoredInv(c) == c \in Stored /\ Genuine(c)

IInv ==
    /\ page \in [Tabs -> Page] /\ \A p \in Tabs : PageInv(page[p])
    /\ storage \in [Tabs \cup {LocalStorage} -> Stored]
    /\ \A k \in Tabs \cup {LocalStorage} : StoredInv(storage[k])
    /\ server \in Versions /\ clock \in Nat /\ loads \in Nat
    /\ log \in Seq([session : Sessions, behind : Nat])

-----------------------------------------------------------------------------
(* Values *)

(* What was published so far are rates (the order in which central          *)
(* configurations are published).                                           *)
LEMMA OutAreRates ==
    ASSUME server \in Versions
    PROVE  /\ server \in Nat /\ 1 .. server \subseteq Versions
           /\ \A v \in 1 .. server : v # 0 /\ v \in Nat
                                   /\ Published[v] \in RatesOut \cup {NoRate}
           /\ RatesOut \subseteq Rates
<1>1. Published \in Seq(Rates \cup {NoRate})
  BY AgentAssumption
<1>2. server \in Nat /\ 1 .. server \subseteq Versions
  BY <1>1 DEF Versions
<1>3. \A v \in 1 .. server : Published[v] \in Rates \cup {NoRate}
  BY <1>1, <1>2 DEF Versions
<1> QED BY <1>2, <1>3 DEF RatesOut

(* What was good stays so when more is published. *)
LEMMA OutGrows ==
    ASSUME server \in Versions, server' \in Versions, server' >= server
    PROVE  /\ RatesOut \subseteq RatesOut'
           /\ \A c : Genuine(c) => Genuine(c)'
           /\ \A rate, v : Sampled(rate, v) => Sampled(rate, v)'
           /\ \A r : PageInv(r) => PageInv(r)'
           /\ \A c : StoredInv(c) => StoredInv(c)'
<1>1. server \in Nat /\ server' \in Nat
  <2>1. Published \in Seq(Rates \cup {NoRate})
    BY AgentAssumption
  <2> QED BY <2>1 DEF Versions
<1>2. 1 .. server \subseteq 1 .. server'
  BY <1>1
<1>3. RatesOut \subseteq RatesOut'
  BY <1>2 DEF RatesOut
<1>4. \A c : Genuine(c) => Genuine(c)'
  BY <1>2, <1>3 DEF Genuine
<1>5. \A rate, v : Sampled(rate, v) => Sampled(rate, v)'
  BY <1>3 DEF Sampled
<1>6. \A r : PageInv(r) => PageInv(r)'
  BY <1>2, <1>4, <1>5 DEF PageInv, Idle
<1> QED BY <1>3, <1>4, <1>5, <1>6 DEF StoredInv

(* setConfig leaves four digits of a rate, and nothing of 0 only            *)
(* (config-service.js:182).                                                 *)
LEMMA NormaliseIs ==
    ASSUME NEW rate \in Rates
    PROVE  /\ Normalise(rate) \in FourDigits
           /\ Normalise(rate) = 0 => rate = 0
<1>1. rate \in Nat /\ rate <= 100000
  BY AgentAssumption
<1>2. CASE rate > 0 /\ rate < 10
  BY <1>2 DEF Normalise, FourDigits
<1>3. CASE ~(rate > 0 /\ rate < 10)
  <2> DEFINE n == (rate + 5) \div 10
  <2>1. Normalise(rate) = 10 * n
    BY <1>3 DEF Normalise
  <2>2. n \in Nat /\ n <= 10000 /\ (n = 0 => rate = 0)
    BY <1>1, <1>3
  <2> HIDE DEF n
  <2> QED BY <2>1, <2>2 DEF FourDigits
<1> QED BY <1>2, <1>3

LEMMA OutSame ==
    ASSUME server \in Versions, UNCHANGED server
    PROVE  /\ \A r : PageInv(r) => PageInv(r)'
           /\ \A c : StoredInv(c) => StoredInv(c)'
<1>1. server \in Nat
  BY OutAreRates
<1>2. server' >= server /\ server' \in Versions
  BY <1>1
<1> QED BY <1>2, OutGrows

-----------------------------------------------------------------------------
(* Pages *)

(* A document that was just opened has an agent that did nothing            *)
(* (bootstrap.js:31).                                                       *)
LEMMA NewPageOK ==
    ASSUME NEW l \in Nat
    PROVE  PageInv(NewPage(l))
<1>1. NoSession \in Sessions /\ NoRate \in Rates \cup {NoRate}
  BY DEF NoSession, Sessions
<1>2. NothingStored \in Stored
  BY <1>1 DEF NothingStored, Stored
<1>3. 100000 \in FourDigits
  BY DEF FourDigits
<1>4. NewPage(l) \in Page
  BY <1>1, <1>2, <1>3 DEF NewPage, Page
<1> QED BY <1>4 DEF NewPage, PageInv, Idle, Genuine, NothingStored

(* The page-load transaction is started at most once                        *)
(* (apm-base.js:161).                                                       *)
LEMMA SendPageLoadOK ==
    ASSUME NEW r, PageInv(r), r.started = 0, r.initialized, ~r.disabled,
           r.request \notin {"pending", "answered"}
    PROVE  PageInv(SendPageLoad(r))
<1>1. SendPageLoad(r) \in Page
  <2>1. r \in Page
    BY DEF PageInv
  <2>2. CASE ~r.flag
    BY <2>1, <2>2 DEF SendPageLoad
  <2>3. CASE r.flag
    <3>1. (r.ready # "loading") \in BOOLEAN /\ (r.ready = "loading") \in BOOLEAN
      OBVIOUS
    <3>2. r.started + 1 \in Nat
      BY <2>1 DEF Page
    <3> QED BY <2>1, <2>3, <3>1, <3>2 DEF SendPageLoad, Page
  <2> QED BY <2>2, <2>3
<1> QED BY <1>1 DEF PageInv, SendPageLoad, Page

(* A rate that is applied was published, and its version sets no other      *)
(* (apm-base.js:139).                                                       *)
LEMMA ApplyRateOK ==
    ASSUME server \in Versions, NEW r, PageInv(r), NEW v \in 1 .. server,
           NEW rate \in RatesOut \cup {NoRate}, Published[v] \in {NoRate, rate}
    PROVE  LET q == ApplyRate(r, rate, v)
           IN  /\ PageInv(q)
               /\ q.started = r.started /\ q.initialized = r.initialized
               /\ q.disabled = r.disabled /\ q.request = r.request
<1>1. v \in Nat /\ RatesOut \subseteq Rates
  BY OutAreRates
<1>3. CASE rate = NoRate
  BY <1>3 DEF ApplyRate
<1>4. CASE rate # NoRate
  <2> DEFINE q == [r EXCEPT !.rate = Normalise(rate), !.applied = v]
  <2>1. ApplyRate(r, rate, v) = q
    BY <1>4 DEF ApplyRate
  <2>2. rate \in RatesOut /\ Normalise(rate) \in FourDigits
    BY <1>1, <1>4, NormaliseIs
  <2>3. Sampled(Normalise(rate), v)
    BY <2>2 DEF Sampled
  <2>4. q \in Page /\ q.rate = Normalise(rate) /\ q.applied = v
    BY <1>1, <2>2 DEF PageInv, Page
  <2>5. PageInv(q)
    BY <2>3, <2>4 DEF PageInv, Page, Idle
  <2> QED BY <2>1, <2>5 DEF PageInv, Page
<1> QED BY <1>3, <1>4

(* When the request is settled nothing of it is left (apm-server.js:189).   *)
LEMMA SettledOK ==
    ASSUME NEW r, PageInv(r), r.request \in {"pending", "answered"}
    PROVE  LET q == Settled(r)
           IN  /\ PageInv(q)
               /\ q.started = 0 /\ q.initialized /\ ~q.disabled
               /\ q.request \notin {"pending", "answered"}
<1>1. NoSession \in Sessions /\ NoRate \in Rates \cup {NoRate}
  BY DEF NoSession, Sessions
<1>2. NothingStored \in Stored
  BY <1>1 DEF NothingStored, Stored
<1>3. Settled(r) \in Page
  BY <1>2 DEF PageInv, Settled, Page
<1> QED BY <1>3 DEF PageInv, Settled, Page, Idle, Genuine, NothingStored

(* An action that replaces one page by one as good keeps the pages good.    *)
LEMMA PagePut ==
    ASSUME IInv, NEW p \in Tabs, NEW r, PageInv(r),
           page' = [page EXCEPT ![p] = r]
    PROVE  /\ page' \in [Tabs -> Page]
           /\ \A q \in Tabs : PageInv(page'[q])
<1>1. r \in Page
  BY DEF PageInv
<1>2. page' \in [Tabs -> Page]
  BY <1>1 DEF IInv
<1>3. ASSUME NEW q \in Tabs PROVE PageInv(page'[q])
  <2>1. CASE q = p
    BY <2>1 DEF IInv
  <2>2. CASE q # p
    BY <2>2 DEF IInv
  <2> QED BY <2>1, <2>2
<1> QED BY <1>2, <1>3

(* The same for what is stored. *)
LEMMA StoragePut ==
    ASSUME IInv, NEW k \in Tabs \cup {LocalStorage}, NEW c, StoredInv(c),
           storage' = [storage EXCEPT ![k] = c]
    PROVE  /\ storage' \in [Tabs \cup {LocalStorage} -> Stored]
           /\ \A q \in Tabs \cup {LocalStorage} : StoredInv(storage'[q])
<1>1. c \in Stored
  BY DEF StoredInv
<1>2. storage' \in [Tabs \cup {LocalStorage} -> Stored]
  BY <1>1 DEF IInv
<1>3. ASSUME NEW q \in Tabs \cup {LocalStorage} PROVE StoredInv(storage'[q])
  <2>1. CASE q = k
    BY <2>1 DEF IInv
  <2>2. CASE q # k
    BY <2>2 DEF IInv
  <2> QED BY <2>1, <2>2
<1> QED BY <1>2, <1>3

(* An action that changes one page only keeps the invariant. *)
LEMMA PageStep ==
    ASSUME IInv, NEW p \in Tabs, NEW r, PageInv(r),
           page' = [page EXCEPT ![p] = r],
           UNCHANGED <<storage, server, clock, log>>, loads' \in Nat
    PROVE  IInv'
<1>1. /\ page' \in [Tabs -> Page]
      /\ \A q \in Tabs : PageInv(page'[q])
  BY PagePut
<1>2. /\ \A r1 : PageInv(r1) => PageInv(r1)'
      /\ \A c : StoredInv(c) => StoredInv(c)'
  BY OutSame DEF IInv
<1> QED BY <1>1, <1>2 DEF IInv

-----------------------------------------------------------------------------
(* The initial state and the actions *)

LEMMA InitInv == Init => IInv
<1> SUFFICES ASSUME Init PROVE IInv
  OBVIOUS
<1>1. /\ PageInv(NewPage(0)) /\ NewPage(0) \in Page
  BY NewPageOK DEF PageInv
<1>2. StoredInv(NothingStored) /\ NothingStored \in Stored
  BY DEF StoredInv, NothingStored, Stored, NoSession, Sessions, Genuine
<1>3. Published \in Seq(Rates \cup {NoRate}) /\ Published # <<>>
  BY AgentAssumption
<1>4. 1 \in Versions
  BY <1>3 DEF Versions
<1> QED BY <1>1, <1>2, <1>4 DEF Init, IInv

(* The browser and the server: pages are opened and loaded, answers come    *)
(* with the version the server holds.                                       *)
LEMMA BrowserStep ==
    ASSUME IInv, NEW p \in Tabs, Open(p) \/ LoadEvent(p) \/ Answer(p)
    PROVE  IInv'
<1>0. loads \in Nat /\ server \in Versions /\ PageInv(page[p]) /\ page[p] \in Page
  BY DEF IInv, PageInv
<1>v. server \in Nat /\ server \in 1 .. server
  <2>1. Published \in Seq(Rates \cup {NoRate})
    BY AgentAssumption
  <2> QED BY <1>0, <2>1 DEF Versions
<1>1. CASE Open(p)
  <2>1. PageInv(NewPage(loads + 1))
    BY <1>0, NewPageOK
  <2>2. loads' \in Nat
    BY <1>0, <1>1 DEF Open
  <2> QED BY <1>1, <2>1, <2>2, PageStep DEF Open
<1>2. CASE LoadEvent(p)
  <2> DEFINE r == [page[p] EXCEPT !.ready = "complete",
                                  !.timer = @ \/ page[p].onLoad, !.onLoad = FALSE]
  <2>0. (page[p].timer \/ page[p].onLoad) \in BOOLEAN
    OBVIOUS
  <2>1. r \in Page
    <3>1. PICK b \in BOOLEAN : b = (page[p].timer \/ page[p].onLoad)
      BY <2>0
    <3>2. [page[p] EXCEPT !.ready = "complete", !.timer = b, !.onLoad = FALSE] \in Page
      BY <1>0 DEF Page
    <3> QED BY <3>1, <3>2
  <2>2. PageInv(r)
    BY <1>0, <2>1 DEF PageInv, Page, Idle, Genuine
  <2>3. page' = [page EXCEPT ![p] = r]
    BY <1>0, <1>2 DEF LoadEvent, IInv, Page
  <2> HIDE DEF r
  <2> QED BY <1>0, <1>2, <2>2, <2>3, PageStep DEF LoadEvent
<1>3. CASE Answer(p)
  <2> DEFINE r == [page[p] EXCEPT !.request = "answered", !.answer = server]
  <2>1. r \in Page
    BY <1>0, <1>v DEF Page
  <2>2. PageInv(r)
    BY <1>0, <1>v, <1>3, <2>1 DEF Answer, PageInv, Page, Idle, Genuine
  <2>3. page' = [page EXCEPT ![p] = r]
    BY <1>0, <1>3 DEF Answer, IInv, Page
  <2> HIDE DEF r
  <2> QED BY <1>0, <1>3, <2>2, <2>3, PageStep DEF Answer
<1> QED BY <1>1, <1>2, <1>3

LEMMA ClockStep ==
    ASSUME IInv, Publish \/ Tick
    PROVE  IInv'
<1>1. server \in Nat
  BY OutAreRates DEF IInv
<1>2. server' \in Versions /\ server' >= server /\ clock' \in Nat
  BY <1>1 DEF IInv, Publish, Tick
<1>3. /\ \A r : PageInv(r) => PageInv(r)'
      /\ \A c : StoredInv(c) => StoredInv(c)'
  BY <1>2, OutGrows DEF IInv
<1> QED BY <1>2, <1>3 DEF IInv, Publish, Tick

(* init does its work once, and only for a configuration that is valid and  *)
(* active (apm-base.js:51).                                                 *)
LEMMA InitStep ==
    ASSUME IInv, NEW p \in Tabs, NEW c \in InitConfigs, InitAgent(p, c)
    PROVE  IInv'
<1> DEFINE r == page[p]
           configured == [r EXCEPT !.initialized = TRUE,
                                   !.active = c.valid /\ c.active,
                                   !.on = c.valid /\ c.session,
                                   !.behind = Len(log)]
           local == storage[Key(p, configured)]
           active == [configured EXCEPT !.listeners = @ + 1, !.flag = c.pageLoad,
                                        !.session = IF c.session THEN local.session
                                                    ELSE @]
           inactive == [configured EXCEPT !.disabled = TRUE]
           fetching == [active EXCEPT !.request = "pending", !.localConfig = local]
<1>1. PageInv(r) /\ r \in Page /\ ~r.disabled /\ ~r.initialized
  BY DEF IInv, PageInv, InitAgent, MayInit
<1>2. c \in [valid : BOOLEAN, active : BOOLEAN, session : BOOLEAN,
             centralConfig : BOOLEAN, pageLoad : BOOLEAN]
  BY AgentAssumption
<1>3. Len(log) \in Nat
  BY DEF IInv
<1>4. (c.valid /\ c.active) \in BOOLEAN /\ (c.valid /\ c.session) \in BOOLEAN
  OBVIOUS
<1>5. /\ configured \in Page /\ configured.initialized /\ ~configured.disabled
      /\ configured.listeners = 0 /\ Idle(configured)
  <2>1. configured \in Page
    BY <1>1, <1>3, <1>4 DEF Page
  <2> QED BY <1>1, <2>1 DEF Page, PageInv, Idle
<1>c. PageInv(configured)
  BY <1>1, <1>5 DEF Page, PageInv, Idle, Genuine
<1>6. StoredInv(local) /\ local \in Stored /\ local.session \in Sessions
  BY DEF IInv, Key, Stored
<1>9. PageInv(inactive)
  <2> HIDE DEF configured
  <2>1. inactive \in Page
    BY <1>5 DEF Page
  <2> QED BY <1>5, <1>c, <2>1 DEF PageInv, Page, Idle, Genuine
<1>7. active \in Page
  <2> HIDE DEF configured, local
  <2>1. (IF c.session THEN local.session ELSE configured.session) \in Sessions
    BY <1>5, <1>6 DEF Page
  <2>2. configured.listeners + 1 \in Nat
    BY <1>5
  <2> QED BY <1>2, <1>5, <2>1, <2>2 DEF Page
<1>8. PageInv(active) /\ Idle(active) /\ active.initialized /\ ~active.disabled
  <2> HIDE DEF configured, local
  <2> QED BY <1>5, <1>c, <1>7 DEF PageInv, Page, Idle, Genuine
<1>10. PageInv(fetching)
  <2> HIDE DEF active, local
  <2>1. fetching \in Page
    BY <1>6, <1>7 DEF Page
  <2> QED BY <1>6, <1>7, <1>8, <2>1 DEF PageInv, Page, Idle, Genuine, StoredInv
<1>11. PageInv(SendPageLoad(active))
  <2> HIDE DEF active
  <2> QED BY <1>8, SendPageLoadOK DEF Idle
<1>12. /\ page' = [page EXCEPT ![p] =
                     IF ~configured.active THEN inactive
                     ELSE IF c.centralConfig THEN fetching
                     ELSE SendPageLoad(active)]
       /\ UNCHANGED <<storage, server, clock, loads, log>>
  BY DEF InitAgent
<1>13. loads' \in Nat
  BY <1>12 DEF IInv
<1> HIDE DEF configured, active, inactive, fetching
<1>14. PageInv(IF ~configured.active THEN inactive
               ELSE IF c.centralConfig THEN fetching ELSE SendPageLoad(active))
  BY <1>9, <1>10, <1>11
<1> QED BY <1>12, <1>13, <1>14, PageStep

LEMMA ConfigureStep ==
    ASSUME IInv, NEW p \in Tabs, NEW valid \in BOOLEAN, NEW rate \in Rates,
           Configure(p, valid, rate)
    PROVE  IInv'
<1> DEFINE r == IF valid
                THEN [page[p] EXCEPT !.rate = Normalise(rate), !.applied = 0]
                ELSE [page[p] EXCEPT !.active = FALSE]
<1>1. PageInv(page[p]) /\ page[p] \in Page /\ Normalise(rate) \in FourDigits
  BY NormaliseIs DEF IInv, PageInv
<1>2. r \in Page
  BY <1>1 DEF Page
<1>3. PageInv(r)
  BY <1>1, <1>2 DEF PageInv, Page, Idle, Genuine
<1>4. page' = [page EXCEPT ![p] = r]
  BY DEF Configure, IInv
<1> HIDE DEF r
<1> QED BY <1>3, <1>4, PageStep DEF Configure, IInv

(* "not modified": the rate that was stored when the request was made       *)
(* (apm-server.js:200).                                                     *)
LEMMA NotModifiedStep ==
    ASSUME IInv, NEW p \in Tabs, NotModified(p)
    PROVE  IInv'
<1> DEFINE r == page[p]
           v == r.answer
           applied == ApplyRate(Settled(r), Known(p).rate, v)
<1>0. server \in Versions
  BY DEF IInv
<1>1. PageInv(r) /\ r.request = "answered" /\ v \in 1 .. server /\ v # 0
      /\ r.localConfig.etag = v
  BY OutAreRates DEF IInv, PageInv, NotModified
<1>2. /\ Known(p).rate \in RatesOut \cup {NoRate}
      /\ Published[v] \in {NoRate, Known(p).rate}
  BY <1>1 DEF PageInv, Genuine, Known
<1>3. PageInv(Settled(r)) /\ Settled(r).started = 0 /\ Settled(r).initialized
      /\ ~Settled(r).disabled /\ Settled(r).request \notin {"pending", "answered"}
  BY <1>1, SettledOK
<1>4. page' = [page EXCEPT ![p] = SendPageLoad(applied)]
  BY DEF NotModified
<1> HIDE DEF v
<1>5. PageInv(applied) /\ applied.started = 0 /\ applied.initialized
      /\ ~applied.disabled /\ applied.request \notin {"pending", "answered"}
  BY <1>0, <1>1, <1>2, <1>3, ApplyRateOK
<1> HIDE DEF applied
<1>6. PageInv(SendPageLoad(applied))
  BY <1>5, SendPageLoadOK
<1> QED BY <1>4, <1>6, PageStep DEF NotModified, IInv

(* A new configuration is stored under its etag and applied                 *)
(* (apm-server.js:204).                                                     *)
LEMMA FetchedStep ==
    ASSUME IInv, NEW p \in Tabs, Fetched(p)
    PROVE  IInv'
<1> DEFINE r == page[p]
           v == r.answer
           k == Key(p, r)
           applied == ApplyRate(Settled(r), Published[v], v)
<1>0. server \in Versions
  BY DEF IInv
<1>1. PageInv(r) /\ r.request = "answered" /\ v \in 1 .. server /\ v \in Nat
      /\ Published[v] \in RatesOut \cup {NoRate}
  BY <1>0, OutAreRates DEF IInv, PageInv, Fetched
<1>2. k \in Tabs \cup {LocalStorage}
  BY DEF Key
<1>3. PageInv(Settled(r)) /\ Settled(r).started = 0 /\ Settled(r).initialized
      /\ ~Settled(r).disabled /\ Settled(r).request \notin {"pending", "answered"}
  BY <1>1, SettledOK
<1>4. /\ page' = [page EXCEPT ![p] = SendPageLoad(applied)]
      /\ storage' = [storage EXCEPT ![k] = Merge(storage[k], v, Published[v])]
      /\ UNCHANGED <<server, clock, loads, log>>
  BY <1>2 DEF Fetched, IInv
<1>5. StoredInv(Merge(storage[k], v, Published[v]))
  <2>1. StoredInv(storage[k])
    BY <1>2 DEF IInv
  <2>2. RatesOut \subseteq Rates
    BY <1>0, OutAreRates
  <2>3. ASSUME NEW c, StoredInv(c), NEW rate \in RatesOut \cup {NoRate},
               rate = Published[v]
        PROVE  StoredInv(Merge(c, v, rate))
    <3> DEFINE m == IF rate = NoRate THEN c.rate ELSE rate
    <3>1. m \in RatesOut \cup {NoRate} /\ m \in Rates \cup {NoRate}
      BY <2>2, <2>3 DEF StoredInv, Genuine
    <3>2. Published[v] \in {NoRate, m}
      BY <2>3
    <3>3. Merge(c, v, rate) = [c EXCEPT !.etag = v, !.rate = m]
      BY <2>3 DEF Merge, StoredInv, Stored
    <3> HIDE DEF m, v
    <3>4. [c EXCEPT !.etag = v, !.rate = m] \in Stored
      BY <1>1, <2>3, <3>1 DEF StoredInv, Stored
    <3>5. /\ Merge(c, v, rate).etag = v /\ Merge(c, v, rate).rate = m
      BY <2>3, <3>3 DEF StoredInv, Stored
    <3> QED BY <1>1, <3>1, <3>2, <3>3, <3>4, <3>5 DEF StoredInv, Genuine
  <2> HIDE DEF v
  <2> QED BY <1>1, <2>1, <2>3
<1> HIDE DEF v, k
<1>6. PageInv(applied) /\ applied.started = 0 /\ applied.initialized
      /\ ~applied.disabled /\ applied.request \notin {"pending", "answered"}
  BY <1>0, <1>1, <1>3, ApplyRateOK
<1> HIDE DEF applied
<1>7. PageInv(SendPageLoad(applied))
  BY <1>6, SendPageLoadOK
<1>8. /\ page' \in [Tabs -> Page]
      /\ \A q \in Tabs : PageInv(page'[q])
  BY <1>4, <1>7, PagePut
<1>9. /\ storage' \in [Tabs \cup {LocalStorage} -> Stored]
      /\ \A q \in Tabs \cup {LocalStorage} : StoredInv(storage'[q])
  BY <1>2, <1>4, <1>5, StoragePut
<1>10. /\ \A q : PageInv(q) => PageInv(q)'
       /\ \A c : StoredInv(c) => StoredInv(c)'
  BY <1>0, <1>4, OutSame
<1> QED BY <1>4, <1>8, <1>9, <1>10 DEF IInv

LEMMA FetchFailsStep ==
    ASSUME IInv, NEW p \in Tabs, FetchFails(p)
    PROVE  IInv'
<1>1. PageInv(page[p]) /\ page[p].request \in {"pending", "answered"}
  BY DEF IInv, FetchFails
<1>2. PageInv(SendPageLoad(Settled(page[p])))
  BY <1>1, SettledOK, SendPageLoadOK
<1> QED BY <1>2, PageStep DEF FetchFails, IInv

LEMMA RemoveTaskStep ==
    ASSUME IInv, NEW p \in Tabs, RemoveTask(p)
    PROVE  IInv'
<1> DEFINE r == [page[p] EXCEPT !.timer = FALSE,
                                !.pageLoad = IF @ = "running" THEN "ended" ELSE @]
<1>1. PageInv(page[p]) /\ page[p] \in Page
  BY DEF IInv, PageInv
<1>2. r \in Page
  BY <1>1 DEF Page
<1>3. PageInv(r)
  BY <1>1, <1>2 DEF PageInv, Page, Idle, Genuine
<1>4. page' = [page EXCEPT ![p] = r]
  BY <1>1 DEF RemoveTask, IInv, Page
<1> HIDE DEF r
<1> QED BY <1>3, <1>4, PageStep DEF RemoveTask, IInv

(* The next session is a session (transaction-service.js:361). *)
LEMMA NextSessionIs ==
    ASSUME IInv, NEW s \in Sessions
    PROVE  NextSession(s) \in Sessions
<1>1. Len(log) + 1 \in Nat /\ s.sequence + 1 \in Nat /\ clock \in Nat
  BY DEF IInv, Sessions
<1> QED BY <1>1 DEF NextSession, Sessions

LEMMA SettleStep ==
    ASSUME IInv, NEW p \in Tabs, NEW hidden \in BOOLEAN, Settle(p, hidden)
    PROVE  IInv'
<1> DEFINE next == NextSession(page[p].session)
           written == ~hidden /\ page[p].on
           r == [page[p] EXCEPT !.pageLoad = "settled",
                                !.session = IF written THEN next ELSE @]
           c == [storage[LocalStorage] EXCEPT !.session = next]
<1>1. PageInv(page[p]) /\ page[p] \in Page /\ page[p].session \in Sessions
      /\ page[p].pageLoad = "ended"
  BY DEF IInv, PageInv, Page, Settle
<1>2. next \in Sessions
  BY <1>1, NextSessionIs
<1>3. PageInv(r)
  <2> HIDE DEF next, written
  <2>1. (IF written THEN next ELSE page[p].session) \in Sessions
    BY <1>1, <1>2
  <2>2. r \in Page
    BY <1>1, <2>1 DEF Page
  <2> QED BY <1>1, <2>2 DEF PageInv, Page, Idle, Genuine
<1>4. /\ page' = [page EXCEPT ![p] = r]
      /\ storage' = IF written THEN [storage EXCEPT ![LocalStorage] = c]
                               ELSE storage
      /\ log' = IF written
                THEN Append(log, [session |-> next, behind |-> page[p].behind])
                ELSE log
      /\ UNCHANGED <<server, clock, loads>>
  BY DEF Settle, IInv
<1>5. StoredInv(c)
  <2>1. StoredInv(storage[LocalStorage])
    BY DEF IInv
  <2> HIDE DEF next
  <2>2. c \in Stored
    BY <1>2, <2>1 DEF StoredInv, Stored
  <2> QED BY <2>1, <2>2 DEF StoredInv, Stored, Genuine
<1>6. log' \in Seq([session : Sessions, behind : Nat])
  <2>1. [session |-> next, behind |-> page[p].behind]
          \in [session : Sessions, behind : Nat]
    BY <1>1, <1>2 DEF Page
  <2>2. log \in Seq([session : Sessions, behind : Nat])
    BY DEF IInv
  <2>3. ASSUME NEW S, log \in Seq(S), NEW e \in S PROVE Append(log, e) \in Seq(S)
    BY <2>3
  <2>4. Append(log, [session |-> next, behind |-> page[p].behind])
          \in Seq([session : Sessions, behind : Nat])
    BY <2>1, <2>2, <2>3
  <2> HIDE DEF next, written
  <2> QED BY <1>4, <2>2, <2>4
<1> HIDE DEF next, written, r, c
<1>7. /\ page' \in [Tabs -> Page]
      /\ \A q \in Tabs : PageInv(page'[q])
  BY <1>3, <1>4, PagePut
<1>8. /\ storage' \in [Tabs \cup {LocalStorage} -> Stored]
      /\ \A q \in Tabs \cup {LocalStorage} : StoredInv(storage'[q])
  <2>1. CASE written
    BY <1>4, <1>5, <2>1, StoragePut
  <2>2. CASE ~written
    BY <1>4, <2>2 DEF IInv
  <2> QED BY <2>1, <2>2
<1>9. /\ \A q : PageInv(q) => PageInv(q)'
      /\ \A q : StoredInv(q) => StoredInv(q)'
  BY <1>4, OutSame DEF IInv
<1> QED BY <1>4, <1>6, <1>7, <1>8, <1>9 DEF IInv

-----------------------------------------------------------------------------
(* Theorems *)

(* The invariant the other theorems rest on: pages, stored configurations   *)
(* and the log are good whatever the tabs do in whatever order.             *)
THEOREM Invariance == Spec => []IInv
<1>1. Init => IInv
  BY InitInv
<1>2. IInv /\ [Next]_vars => IInv'
  <2> SUFFICES ASSUME IInv, [Next]_vars PROVE IInv'
    OBVIOUS
  <2>1. ASSUME NEW p \in Tabs, Open(p) \/ LoadEvent(p) \/ Answer(p) PROVE IInv'
    BY <2>1, BrowserStep
  <2>2. CASE Publish \/ Tick
    BY <2>2, ClockStep
  <2>3. ASSUME NEW p \in Tabs, NEW c \in InitConfigs, InitAgent(p, c) PROVE IInv'
    BY <2>3, InitStep
  <2>4. ASSUME NEW p \in Tabs, NEW valid \in BOOLEAN, NEW rate \in Rates,
               Configure(p, valid, rate)
        PROVE IInv'
    BY <2>4, ConfigureStep
  <2>5. ASSUME NEW p \in Tabs, NotModified(p) \/ Fetched(p) \/ FetchFails(p)
        PROVE IInv'
    BY <2>5, NotModifiedStep, FetchedStep, FetchFailsStep
  <2>6. ASSUME NEW p \in Tabs, RemoveTask(p) PROVE IInv'
    BY <2>6, RemoveTaskStep
  <2>7. ASSUME NEW p \in Tabs, NEW hidden \in BOOLEAN, Settle(p, hidden) PROVE IInv'
    BY <2>7, SettleStep
  <2>8. CASE UNCHANGED vars
    <3>1. /\ \A q : PageInv(q) => PageInv(q)'
          /\ \A q : StoredInv(q) => StoredInv(q)'
      BY <2>8, OutSame DEF IInv, vars
    <3> QED BY <2>8, <3>1 DEF vars, IInv
  <2> QED BY <2>1, <2>2, <2>3, <2>4, <2>5, <2>6, <2>7, <2>8 DEF Next
<1> QED BY <1>1, <1>2, PTL DEF Spec

(* Pages, stored configurations and the log keep their shapes, and every    *)
(* sample rate has four digits (config-service.js:182).                     *)
THEOREM TypeCorrect == Spec => []AgentTypeOK
<1>1. IInv => AgentTypeOK
  BY DEF IInv, AgentTypeOK
<1> QED BY <1>1, Invariance, PTL

(* A page starts one page load and listens once, an inactive agent never    *)
(* (apm-base.js:51).                                                        *)
THEOREM InitialisedOnceHolds == Spec => []InitialisedOnce
<1>1. IInv => InitialisedOnce
  BY DEF IInv, InitialisedOnce, PageInv, Idle
<1> QED BY <1>1, Invariance, PTL

(* What is stored or sent under an etag was published under it; what a      *)
(* version without a rate is merged into was published with another         *)
(* (config-service.js:261).                                                 *)
THEOREM StoredAsPublishedHolds == Spec => []StoredAsPublished
<1>1. IInv => StoredAsPublished
  BY DEF IInv, StoredAsPublished, PageInv, StoredInv, Genuine
<1> QED BY <1>1, Invariance, PTL

(* A page samples at a published rate, at no other than that of the version *)
(* the server answered with if it has one, and a positive rate stays        *)
(* positive (apm-server.js:189).                                            *)
THEOREM SamplesAsPublishedHolds == Spec => []SamplesAsPublished
<1>1. IInv => SamplesAsPublished
  <2> SUFFICES ASSUME IInv, NEW p \in Tabs, page[p].applied # 0
               PROVE  \E rate \in RatesOut :
                         /\ page[p].rate = Normalise(rate)
                         /\ Published[page[p].applied] \in {NoRate, rate}
                         /\ page[p].rate = 0 => rate = 0
    BY DEF SamplesAsPublished
  <2>1. Sampled(page[p].rate, page[p].applied)
    BY DEF IInv, PageInv
  <2>2. PICK rate \in RatesOut : /\ page[p].rate = Normalise(rate)
                                /\ Published[page[p].applied] \in {NoRate, rate}
    BY <2>1 DEF Sampled
  <2>3. rate \in Rates
    BY OutAreRates DEF IInv
  <2> QED BY <2>2, <2>3, NormaliseIs
<1> QED BY <1>1, Invariance, PTL

-----------------------------------------------------------------------------
(* The order of the page loads *)

(* A page that no page load has overtaken knows the session of the last one *)
Numbered(r) ==
    (/\ r.initialized /\ ~r.disabled /\ r.on
     /\ log # <<>> /\ r.behind = Len(log)) => r.session = log[Len(log)].session

(* What a page knows of sessions is not from the future *)
Followed(r) == r.behind <= Len(log) /\ r.session.id <= Len(log)

Order ==
    /\ clock # 0
    /\ \A i \in 1 .. Len(log) :
          /\ log[i].session.id # 0 /\ log[i].session.id <= i
          /\ log[i].session.timestamp # 0
    /\ log # <<>> => storage[LocalStorage].session = log[Len(log)].session
    /\ storage[LocalStorage].session.id <= Len(log)
    /\ \A p \in Tabs : Followed(page[p]) /\ Numbered(page[p])
    /\ NumberedInOrder

SameSession(q, r) ==
    /\ q.initialized = r.initialized /\ q.disabled = r.disabled
    /\ q.on = r.on /\ q.behind = r.behind /\ q.session = r.session

(* Starting the page load and settling a request leave the session alone    *)
(* (apm-base.js:139-186).                                                   *)
LEMMA SessionUntouched ==
    ASSUME NEW r \in Page, NEW rate, NEW v
    PROVE  /\ SameSession(SendPageLoad(r), r)
           /\ SameSession(SendPageLoad(Settled(r)), r)
           /\ SameSession(SendPageLoad(ApplyRate(Settled(r), rate, v)), r)
BY DEF SameSession, SendPageLoad, ApplyRate, Settled, Page

(* A step that changes no session keeps the order. *)
LEMMA OrderKept ==
    ASSUME IInv, Order, UNCHANGED log, clock' # 0,
           storage'[LocalStorage].session = storage[LocalStorage].session,
           NEW p \in Tabs, NEW r, SameSession(r, page[p]),
           page' = [page EXCEPT ![p] = r]
    PROVE  Order'
<1>1. ASSUME NEW q \in Tabs PROVE SameSession(page'[q], page[q])
  <2>1. CASE q = p
    BY <2>1 DEF IInv
  <2>2. CASE q # p
    BY <2>2 DEF IInv, SameSession
  <2> QED BY <2>1, <2>2
<1>2. ASSUME NEW q \in Tabs
      PROVE  Followed(page[q])' /\ Numbered(page[q])'
  BY <1>1 DEF Order, Followed, Numbered, SameSession
<1> QED BY <1>2 DEF Order, NumberedInOrder

LEMMA OrderInit == Init => Order
BY DEF Init, Order, NewPage, Followed, Numbered, NumberedInOrder,
       NothingStored, NoSession

(* A page that is opened has no session yet (bootstrap.js:31). *)
LEMMA OpenOrder ==
    ASSUME IInv, Order, NEW p \in Tabs, Open(p)
    PROVE  Order'
<1>1. page' = [page EXCEPT ![p] = NewPage(loads + 1)]
      /\ UNCHANGED <<storage, clock, log>>
  BY DEF Open
<1>2. ASSUME NEW q \in Tabs
      PROVE  Followed(page[q])' /\ Numbered(page[q])'
  <2>1. CASE q = p
    <3>1. page'[q] = NewPage(loads + 1)
      BY <1>1, <2>1 DEF IInv
    <3> QED BY <1>1, <3>1 DEF NewPage, NoSession, Followed, Numbered, IInv
  <2>2. CASE q # p
    BY <1>1, <2>2 DEF IInv, Order, Followed, Numbered
  <2> QED BY <2>1, <2>2
<1> QED BY <1>1, <1>2 DEF Order, NumberedInOrder

(* init reads the session that is stored (config-service.js:250): the one   *)
(* of the last page load.                                                   *)
LEMMA InitAgentOrder ==
    ASSUME IInv, Order, NEW p \in Tabs, NEW c \in InitConfigs, InitAgent(p, c)
    PROVE  Order'
<1> DEFINE configured == [page[p] EXCEPT !.initialized = TRUE,
                                         !.active = c.valid /\ c.active,
                                         !.on = c.valid /\ c.session,
                                         !.behind = Len(log)]
           local == storage[Key(p, configured)]
           active == [configured EXCEPT !.listeners = @ + 1, !.flag = c.pageLoad,
                                        !.session = IF c.session THEN local.session
                                                    ELSE @]
           r == IF ~configured.active THEN [configured EXCEPT !.disabled = TRUE]
                ELSE IF c.centralConfig
                THEN [active EXCEPT !.request = "pending", !.localConfig = local]
                ELSE SendPageLoad(active)
<1>1. page' = [page EXCEPT ![p] = r] /\ UNCHANGED <<storage, clock, log>>
  BY DEF InitAgent
<1>2. page[p] \in Page
  BY DEF IInv
<1>3. c.valid \in BOOLEAN /\ c.session \in BOOLEAN
  <2>1. c \in [valid : BOOLEAN, active : BOOLEAN, session : BOOLEAN,
               centralConfig : BOOLEAN, pageLoad : BOOLEAN]
    BY AgentAssumption
  <2> QED BY <2>1
<1>4. r.behind = Len(log)
  BY <1>2 DEF Page, SendPageLoad
<1>5. /\ (~r.disabled /\ r.on) => r.session = storage[LocalStorage].session
      /\ r.session \in {page[p].session, storage[LocalStorage].session}
  BY <1>2, <1>3 DEF Page, SendPageLoad, Key
<1> HIDE DEF r
<1>6. ASSUME NEW q \in Tabs
      PROVE  Followed(page[q])' /\ Numbered(page[q])'
  <2>1. CASE q = p
    <3>1. page'[q] = r
      BY <1>1, <2>1 DEF IInv
    <3> QED BY <1>1, <1>4, <1>5, <3>1 DEF Followed, Numbered, Order, IInv
  <2>2. CASE q # p
    BY <1>1, <2>2 DEF IInv, Order, Followed, Numbered
  <2> QED BY <2>1, <2>2
<1> QED BY <1>1, <1>6 DEF Order, NumberedInOrder

(* The end of a page load numbers it (transaction-service.js:358). *)
LEMMA SettleOrder ==
    ASSUME IInv, Order, NEW p \in Tabs, NEW hidden \in BOOLEAN, Settle(p, hidden)
    PROVE  Order'
<1> DEFINE s == page[p].session
           next == NextSession(s)
           written == ~hidden /\ page[p].on
           n == Len(log)
           e == [session |-> next, behind |-> page[p].behind]
<1>1. page[p] \in Page /\ page[p].initialized /\ ~page[p].disabled
      /\ s \in Sessions /\ s.id <= n /\ page[p].behind \in Nat
      /\ page[p].behind <= n
  BY DEF IInv, PageInv, Page, Settle, Idle, Order, Followed
<1>2. log \in Seq([session : Sessions, behind : Nat]) /\ n \in Nat /\ clock \in Nat
      /\ SessionTimeout \in Nat
  BY AgentAssumption DEF IInv
<1>3. CASE ~written
  <2> DEFINE r == [page[p] EXCEPT !.pageLoad = "settled"]
  <2>1. page' = [page EXCEPT ![p] = r] /\ UNCHANGED <<storage, clock, log>>
    BY <1>1, <1>3 DEF Settle, Page
  <2>2. SameSession(r, page[p])
    BY <1>1 DEF SameSession, Page
  <2> HIDE DEF r
  <2> QED BY <2>1, <2>2, OrderKept DEF Order
<1>4. CASE written
  <2> DEFINE r == [page[p] EXCEPT !.pageLoad = "settled", !.session = next]
  <2>1. /\ page' = [page EXCEPT ![p] = r]
        /\ storage' = [storage EXCEPT ![LocalStorage].session = next]
        /\ log' = Append(log, e)
        /\ clock' = clock
    BY <1>4 DEF Settle
  <2>2. /\ next \in Sessions /\ next.id # 0 /\ next.id <= n + 1
        /\ next.timestamp = clock
    BY <1>1, <1>2, NextSessionIs DEF NextSession, Sessions
  <2>3. /\ Len(log') = n + 1 /\ log'[n + 1] = e
        /\ \A i \in 1 .. n : log'[i] = log[i]
    BY <1>2, <2>1
  <2>4. log # <<>> /\ page[p].behind = n => s = log[n].session
    BY <1>1, <1>4 DEF Order, Numbered
  <2>5. \A i \in 1 .. Len(log') :
           /\ log'[i].session.id # 0 /\ log'[i].session.id <= i
           /\ log'[i].session.timestamp # 0
    BY <1>2, <2>2, <2>3 DEF Order
  <2>6. storage'[LocalStorage].session = next
    BY <2>1 DEF IInv, Stored
  <2>7. ASSUME NEW q \in Tabs
        PROVE  Followed(page[q])' /\ Numbered(page[q])'
    <3>1. CASE q = p
      <4>1. page'[q] = r
        BY <2>1, <3>1 DEF IInv
      <4> QED BY <1>1, <1>2, <2>2, <2>3, <4>1 DEF Page, Followed, Numbered
    <3>2. CASE q # p
      <4>1. page'[q] = page[q] /\ page[q] \in Page
        BY <2>1, <3>2 DEF IInv
      <4>2. page[q].behind <= n /\ page[q].session.id <= n
            /\ page[q].behind \in Nat /\ page[q].session.id \in Nat
        BY <4>1 DEF Order, Followed, Page, Sessions
      <4> QED BY <1>2, <2>3, <4>1, <4>2 DEF Followed, Numbered
    <3> QED BY <3>1, <3>2
  <2>8. NumberedInOrder'
    <3> SUFFICES ASSUME NEW i \in 2 .. Len(log'), log'[i].behind = i - 1
                 PROVE  LET before == log'[i - 1].session
                            this == log'[i].session
                        IN  IF this.timestamp - before.timestamp > SessionTimeout
                            THEN this.id # before.id /\ this.sequence = 1
                            ELSE this.id = before.id
                                 /\ this.sequence = before.sequence + 1
      BY DEF NumberedInOrder
    <3>1. CASE i <= n
      <4>1. log'[i] = log[i] /\ log'[i - 1] = log[i - 1] /\ i \in 2 .. Len(log)
        BY <1>2, <2>3, <3>1
      <4> QED BY <4>1 DEF Order, NumberedInOrder
    <3>2. CASE i = n + 1
      <4>1. n # 0 /\ page[p].behind = n /\ log'[i].session = next
            /\ log'[i - 1] = log[n]
        BY <1>2, <2>3, <3>2
      <4>2. s = log[n].session /\ s.id # 0 /\ s.id <= n /\ s.timestamp # 0
        BY <1>2, <2>4, <4>1 DEF Order
      <4> HIDE DEF s
      <4>3. Expired(s) <=> next.timestamp - s.timestamp > SessionTimeout
        BY <2>2, <4>2 DEF Expired
      <4>4. IF Expired(s) THEN next.id # s.id /\ next.sequence = 1
            ELSE next.id = s.id /\ next.sequence = s.sequence + 1
        BY <1>1, <1>2, <4>2 DEF NextSession, Sessions
      <4> HIDE DEF next
      <4> QED BY <4>1, <4>2, <4>3, <4>4
    <3> QED BY <1>2, <2>3, <3>1, <3>2
  <2> HIDE DEF next
  <2> QED BY <1>2, <2>1, <2>2, <2>3, <2>5, <2>6, <2>7, <2>8 DEF Order
<1> QED BY <1>3, <1>4

(* Every other action leaves the sessions alone. *)
LEMMA OrderStep ==
    ASSUME IInv, Order,
           NEW p \in Tabs,
           \/ LoadEvent(p) \/ Answer(p) \/ RemoveTask(p)
           \/ \E valid \in BOOLEAN, rate \in Rates : Configure(p, valid, rate)
           \/ NotModified(p) \/ Fetched(p) \/ FetchFails(p)
    PROVE  Order'
<1>1. page[p] \in Page /\ clock # 0
  BY DEF IInv, Order
<1>2. CASE LoadEvent(p)
  <2> DEFINE r == [page[p] EXCEPT !.ready = "complete",
                                  !.timer = @ \/ page[p].onLoad, !.onLoad = FALSE]
  <2>1. page' = [page EXCEPT ![p] = r]
    BY <1>1, <1>2 DEF LoadEvent, IInv, Page
  <2>2. SameSession(r, page[p])
    BY <1>1 DEF SameSession, Page
  <2> HIDE DEF r
  <2> QED BY <1>1, <1>2, <2>1, <2>2, OrderKept DEF LoadEvent
<1>3. CASE Answer(p)
  <2> DEFINE r == [page[p] EXCEPT !.request = "answered", !.answer = server]
  <2>1. page' = [page EXCEPT ![p] = r]
    BY <1>1, <1>3 DEF Answer, IInv, Page
  <2>2. SameSession(r, page[p])
    BY <1>1 DEF SameSession, Page
  <2> HIDE DEF r
  <2> QED BY <1>1, <1>3, <2>1, <2>2, OrderKept DEF Answer
<1>4. CASE RemoveTask(p)
  <2> DEFINE r == [page[p] EXCEPT !.timer = FALSE,
                                  !.pageLoad = IF @ = "running" THEN "ended" ELSE @]
  <2>1. page' = [page EXCEPT ![p] = r]
    BY <1>1, <1>4 DEF RemoveTask, IInv, Page
  <2>2. SameSession(r, page[p])
    BY <1>1 DEF SameSession, Page
  <2> HIDE DEF r
  <2> QED BY <1>1, <1>4, <2>1, <2>2, OrderKept DEF RemoveTask
<1>5. ASSUME NEW valid \in BOOLEAN, NEW rate \in Rates, Configure(p, valid, rate)
      PROVE  Order'
  <2> DEFINE r == IF valid
                  THEN [page[p] EXCEPT !.rate = Normalise(rate), !.applied = 0]
                  ELSE [page[p] EXCEPT !.active = FALSE]
  <2>1. page' = [page EXCEPT ![p] = r]
    BY <1>5 DEF Configure, IInv
  <2>2. SameSession(r, page[p])
    BY <1>1 DEF SameSession, Page
  <2> HIDE DEF r
  <2> QED BY <1>1, <1>5, <2>1, <2>2, OrderKept DEF Configure
<1>6. CASE NotModified(p)
  <2> DEFINE r == SendPageLoad(ApplyRate(Settled(page[p]), Known(p).rate,
                                         page[p].answer))
  <2>1. page' = [page EXCEPT ![p] = r] /\ UNCHANGED <<storage, clock, log>>
    BY <1>6 DEF NotModified
  <2>2. SameSession(r, page[p])
    BY <1>1, SessionUntouched
  <2> HIDE DEF r
  <2> QED BY <1>1, <2>1, <2>2, OrderKept
<1>7. CASE Fetched(p)
  <2> DEFINE v == page[p].answer
             r == SendPageLoad(ApplyRate(Settled(page[p]), Published[v], v))
             k == Key(p, page[p])
  <2>1. /\ page' = [page EXCEPT ![p] = r] /\ UNCHANGED <<clock, log>>
        /\ storage' = [storage EXCEPT ![k] = Merge(@, v, Published[v])]
    BY <1>7 DEF Fetched
  <2>2. SameSession(r, page[p])
    BY <1>1, SessionUntouched
  <2>3. storage'[LocalStorage].session = storage[LocalStorage].session
    BY <2>1 DEF IInv, Merge, Stored
  <2> HIDE DEF r
  <2> QED BY <1>1, <2>1, <2>2, <2>3, OrderKept
<1>8. CASE FetchFails(p)
  <2>1. /\ page' = [page EXCEPT ![p] = SendPageLoad(Settled(page[p]))]
        /\ UNCHANGED <<storage, clock, log>>
    BY <1>8 DEF FetchFails
  <2>2. SameSession(SendPageLoad(Settled(page[p])), page[p])
    BY <1>1, SessionUntouched
  <2> QED BY <1>1, <2>1, <2>2, OrderKept
<1> QED BY <1>2, <1>3, <1>4, <1>5, <1>6, <1>7, <1>8

(* The page loads of a session that do not overlap are numbered one after   *)
(* the other, in any number of tabs, and expired sessions are replaced      *)
(* (transaction-service.js:358).                                            *)
THEOREM NumberedInOrderHolds == Spec => []NumberedInOrder
<1>1. Init => Order
  BY OrderInit
<1>2. IInv /\ Order /\ [Next]_vars => Order'
  <2> SUFFICES ASSUME IInv, Order, [Next]_vars PROVE Order'
    OBVIOUS
  <2>1. CASE Publish \/ Tick
    <3>1. UNCHANGED <<page, storage, log>> /\ clock' # 0
      BY <2>1 DEF Publish, Tick, Order, IInv
    <3> QED BY <3>1 DEF Order, Followed, Numbered, NumberedInOrder
  <2>2. ASSUME NEW p \in Tabs, Open(p) PROVE Order'
    BY <2>2, OpenOrder
  <2>3. ASSUME NEW p \in Tabs, NEW c \in InitConfigs, InitAgent(p, c) PROVE Order'
    BY <2>3, InitAgentOrder
  <2>4. ASSUME NEW p \in Tabs, NEW hidden \in BOOLEAN, Settle(p, hidden) PROVE Order'
    BY <2>4, SettleOrder
  <2>5. ASSUME NEW p \in Tabs,
               \/ LoadEvent(p) \/ Answer(p) \/ RemoveTask(p)
               \/ \E valid \in BOOLEAN, rate \in Rates : Configure(p, valid, rate)
               \/ NotModified(p) \/ Fetched(p) \/ FetchFails(p)
        PROVE Order'
    BY <2>5, OrderStep
  <2>6. CASE UNCHANGED vars
    BY <2>6 DEF vars, Order, Followed, Numbered, NumberedInOrder
  <2> QED BY <2>1, <2>2, <2>3, <2>4, <2>5, <2>6 DEF Next
<1>3. Order => NumberedInOrder
  BY DEF Order
<1> QED BY <1>1, <1>2, <1>3, Invariance, PTL DEF Spec
=============================================================================
