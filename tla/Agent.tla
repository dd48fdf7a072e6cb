------------------------------- MODULE Agent -------------------------------
(***************************************************************************)
(* The agent of each page: its initialisation, its configuration with the  *)
(* central one, its session and its page-load transaction (rum/src:        *)
(* apm-base.js; rum-core/src: bootstrap.js, common/service-factory.js,     *)
(* common/config-service.js, common/apm-server.js: fetchConfig,            *)
(* error-logging, performance-monitoring/transaction-service.js:           *)
(* setSession).                                                            *)
(*                                                                         *)
(* Tabs of one origin share localStorage, each has its sessionStorage; a   *)
(* page that is left takes its agent with it, at any moment.  The APM      *)
(* Server that answers the request for the central configuration and the   *)
(* browser's load events are external.                                     *)
(***************************************************************************)
EXTENDS Integers, Sequences

CONSTANTS
    Tabs,           \* browser tabs of the application
    LocalStorage,   \* the key of the storage the tabs share
    InitConfigs,    \* what apm.init may be called with
    Rates,          \* published or configured values of transaction_sample_rate, in 1/100000
    NoRate,         \* JavaScript's undefined, for a rate
    Published,      \* rates of the central configurations, as they are published
    SessionTimeout, \* SESSION_TIMEOUT
    MaxClock,       \* bound of the clock
    MaxLoads        \* bound of the page loads

Versions == DOMAIN Published

ASSUME AgentAssumption ==
    /\ LocalStorage \notin Tabs
    /\ Rates \subseteq {n \in Nat : n <= 100000} /\ NoRate \notin Nat
    /\ Published \in Seq(Rates \cup {NoRate}) /\ Published # <<>>
    /\ SessionTimeout \in Nat /\ MaxClock \in Nat /\ MaxLoads \in Nat
    /\ \A c \in InitConfigs :
          c \in [valid : BOOLEAN, active : BOOLEAN, session : BOOLEAN,
                 centralConfig : BOOLEAN, pageLoad : BOOLEAN]

VARIABLES
    page,       \* the page of each tab, with its agent
    storage,    \* what is stored under LOCAL_CONFIG_KEY
    server,     \* version of the configuration the server holds
    clock,      \* Date.now()
    loads,      \* pages opened so far
    log         \* history: the sessions page-load transactions got, in order

vars == <<page, storage, server, clock, loads, log>>

(* A session; id 0 when there is none yet (config.session is just true)     *)
NoSession == [id |-> 0, sequence |-> 0, timestamp |-> 0]
Sessions == [id : Nat, sequence : Nat, timestamp : Nat]

(* A stored configuration; etag 0 and the others unset when it lacks them   *)
Stored == [etag : Nat, rate : Rates \cup {NoRate}, session : Sessions]
NothingStored == [etag |-> 0, rate |-> NoRate, session |-> NoSession]

(* What setConfig leaves: a share of 1 with four digits                     *)
FourDigits == {n \in Nat : n <= 100000 /\ n % 10 = 0}

\* Mutant of Normalise: taken as it is
Unrounded(rate) == rate

(* setConfig: small rates are raised to 0.0001, others rounded to 4 digits  *)
Normalise(rate) ==
    IF rate > 0 /\ rate < 10 THEN 10 ELSE 10 * ((rate + 5) \div 10)

Page ==
    [load : Nat,                   \* which page load it is, 0 before any
     ready : {"loading", "complete"},            \* document.readyState
     initialized : BOOLEAN, disabled : BOOLEAN, active : BOOLEAN,
     rate : FourDigits,            \* config.transactionSampleRate
     on : BOOLEAN,                 \* config.session is set
     session : Sessions,           \* its value
     flag : BOOLEAN,               \* flags[PAGE_LOAD]
     request : {"none", "pending", "answered", "done"},
     answer : Nat,                 \* version the server answers with
     localConfig : Stored,         \* fetchConfig's local variable
     listeners : Nat,              \* error listeners of the agent on window
     started : Nat,                \* page-load transactions started
     pageLoad : {"none", "running", "ended", "settled"},
     onLoad : BOOLEAN,             \* sendPageLoadMetrics listens to load
     timer : BOOLEAN,              \* its setTimeout is pending
     applied : Nat,                \* history: the answer that set it, 0: none
     behind : Nat]                 \* history: Len(log) at initialisation

(* bootstrap: what can be patched is, and nothing else happens              *)
NewPage(l) ==
    [load |-> l, ready |-> "loading", initialized |-> FALSE, disabled |-> FALSE,
     active |-> TRUE, rate |-> 100000, on |-> FALSE, session |-> NoSession,
     flag |-> FALSE, request |-> "none", answer |-> 0, localConfig |-> NothingStored,
     listeners |-> 0, started |-> 0, pageLoad |-> "none", onLoad |-> FALSE,
     timer |-> FALSE, applied |-> 0, behind |-> 0]

Init ==
    /\ page = [p \in Tabs |-> NewPage(0)]
    /\ storage = [k \in Tabs \cup {LocalStorage} |-> NothingStored]
    /\ server = 1
    /\ clock = 1
    /\ loads = 0
    /\ log = <<>>

(* getLocalConfig, setLocalConfig *)
Key(p, r) == IF r.on THEN LocalStorage ELSE p

-----------------------------------------------------------------------------
(* The browser and the server *)

Open(p) ==
    /\ loads < MaxLoads
    /\ loads' = loads + 1
    /\ page' = [page EXCEPT ![p] = NewPage(loads + 1)]
    /\ UNCHANGED <<storage, server, clock, log>>

(* The document is complete and the load event fires, in one task           *)
LoadEvent(p) ==
    /\ page[p].load > 0 /\ page[p].ready = "loading"
    /\ page' = [page EXCEPT ![p].ready = "complete",
                            ![p].timer = @ \/ page[p].onLoad,
                            ![p].onLoad = FALSE]
    /\ UNCHANGED <<storage, server, clock, loads, log>>

(* The server's answer is on its way: what it holds now                     *)
Answer(p) ==
    /\ page[p].request = "pending"
    /\ page' = [page EXCEPT ![p].request = "answered", ![p].answer = server]
    /\ UNCHANGED <<storage, server, clock, loads, log>>

Publish ==
    /\ server + 1 \in Versions
    /\ server' = server + 1
    /\ UNCHANGED <<page, storage, clock, loads, log>>

(* Bound: not before a session has a timestamp to be compared with          *)
Tick ==
    /\ clock < MaxClock /\ log # <<>>
    /\ clock' = clock + 1
    /\ UNCHANGED <<page, storage, server, loads, log>>

-----------------------------------------------------------------------------
(* apm-base.js *)

\* Mutant of SendPageLoad: it always waits for the load event
SendOnLoad(r) ==
    IF ~r.flag THEN r
    ELSE [r EXCEPT !.started = @ + 1, !.pageLoad = "running", !.onLoad = TRUE]

(* _sendPageLoadMetrics: the transaction holds a task until the load event  *)
(* is over                                                                  *)
SendPageLoad(r) ==
    IF ~r.flag THEN r
    ELSE [r EXCEPT !.started = @ + 1, !.pageLoad = "running",
                   !.timer = r.ready # "loading", !.onLoad = r.ready = "loading"]

\* Mutant of MayInit: init does its work every time it is called
MayInitAgain(r) == ~r.disabled

MayInit(r) == ~r.disabled /\ ~r.initialized

(* init(config): validate, activate, and fetch the central configuration or *)
(* start the page load at once                                              *)
InitAgent(p, c) ==
    LET r == page[p]
        configured == [r EXCEPT !.initialized = TRUE,
                                !.active = c.valid /\ c.active,
                                !.on = c.valid /\ c.session,
                                !.behind = Len(log)]
        local == storage[Key(p, configured)]
        active == [configured EXCEPT !.listeners = @ + 1, !.flag = c.pageLoad,
                                     !.session = IF c.session THEN local.session
                                                 ELSE @]
    IN  /\ r.load > 0 /\ MayInit(r)
        /\ page' = [page EXCEPT ![p] =
              IF ~configured.active THEN [configured EXCEPT !.disabled = TRUE]
              ELSE IF c.centralConfig
              THEN [active EXCEPT !.request = "pending", !.localConfig = local]
              ELSE SendPageLoad(active)]
        /\ UNCHANGED <<storage, server, clock, loads, log>>

(* config(): an invalid one sets active to false and nothing more.  Bound:  *)
(* called on the first page, while the central configuration is awaited.    *)
Configure(p, valid, rate) ==
    /\ page[p].load = 1 /\ page[p].request = "pending"
    /\ page' = [page EXCEPT
         ![p] = IF valid THEN [@ EXCEPT !.rate = Normalise(rate), !.applied = 0]
                ELSE [@ EXCEPT !.active = FALSE]]
    /\ UNCHANGED <<storage, server, clock, loads, log>>

(* The rate of a configuration is set when it has one                       *)
ApplyRate(r, rate, version) ==
    IF rate = NoRate THEN r
    ELSE [r EXCEPT !.rate = Normalise(rate), !.applied = version]

\* Mutants of Merge: what is stored already wins; the session is lost
MergeUnder(prev, etag, rate) ==
    [prev EXCEPT !.etag = etag, !.rate = IF @ = NoRate THEN rate ELSE @]
MergeAnew(prev, etag, rate) ==
    [etag |-> etag, rate |-> rate, session |-> NoSession]

(* setLocalConfig(remoteConfig, true): a configuration that sets no rate    *)
(* leaves the rate that is stored                                           *)
Merge(prev, etag, rate) ==
    [prev EXCEPT !.etag = etag, !.rate = IF rate = NoRate THEN @ ELSE rate]

(* The promise of the request is settled, its closure is gone               *)
Settled(r) == [r EXCEPT !.request = "done", !.answer = 0,
                        !.localConfig = NothingStored]

\* Mutant of Known: the configuration is read when the answer comes
KnownNow(p) == storage[Key(p, page[p])]

(* The configuration read when the request was made, whose etag it carried  *)
Known(p) == page[p].localConfig

(* 304: what is known has the version the server held when it answered,     *)
(* whatever other tabs have stored since                                    *)
NotModified(p) ==
    LET r == page[p]
    IN  /\ r.request = "answered" /\ r.localConfig.etag = r.answer
        /\ page' = [page EXCEPT ![p] =
              SendPageLoad(ApplyRate(Settled(r), Known(p).rate, r.answer))]
        /\ UNCHANGED <<storage, server, clock, loads, log>>

(* 200: stored with its etag, then used                                     *)
Fetched(p) ==
    LET r == page[p]
        k == Key(p, r)
        rate == Published[r.answer]
    IN  /\ r.request = "answered" /\ r.localConfig.etag # r.answer
        /\ storage' = [storage EXCEPT ![k] = Merge(@, r.answer, rate)]
        /\ page' = [page EXCEPT ![p] =
              SendPageLoad(ApplyRate(Settled(r), rate, r.answer))]
        /\ UNCHANGED <<server, clock, loads, log>>

(* The request is rejected (no service name), fails, takes 5 s or has an    *)
(* answer that cannot be parsed: a warning, and the page load is sent       *)
FetchFails(p) ==
    /\ page[p].request \in {"pending", "answered"}
    /\ page' = [page EXCEPT ![p] = SendPageLoad(Settled(page[p]))]
    /\ UNCHANGED <<storage, server, clock, loads, log>>

(* The setTimeout of sendPageLoadMetrics: the last task is removed          *)
RemoveTask(p) ==
    /\ page[p].timer
    /\ page' = [page EXCEPT ![p].timer = FALSE,
                            ![p].pageLoad = IF @ = "running" THEN "ended" ELSE @]
    /\ UNCHANGED <<storage, server, clock, loads, log>>

-----------------------------------------------------------------------------
(* transaction-service.js: setSession, from handleTransactionEnd *)

Expired(s) == s.timestamp # 0 /\ clock - s.timestamp > SessionTimeout

(* Len(log) + 1 is a fresh random id *)
NextSession(s) ==
    IF s.id = 0 \/ Expired(s)
    THEN [id |-> Len(log) + 1, sequence |-> 1, timestamp |-> clock]
    ELSE [id |-> s.id, sequence |-> s.sequence + 1, timestamp |-> clock]

(* The end of the page load is handled; a page that was hidden meanwhile    *)
(* discards it before                                                       *)
Settle(p, hidden) ==
    LET r == page[p]
        next == NextSession(r.session)
        written == ~hidden /\ r.on
    IN  /\ r.pageLoad = "ended"
        /\ page' = [page EXCEPT
              ![p] = [r EXCEPT !.pageLoad = "settled",
                               !.session = IF written THEN next ELSE @]]
        /\ storage' = IF written
                      THEN [storage EXCEPT ![LocalStorage].session = next]
                      ELSE storage
        /\ log' = IF written
                  THEN Append(log, [session |-> next, behind |-> r.behind])
                  ELSE log
        /\ UNCHANGED <<server, clock, loads>>

Next ==
    \/ Publish \/ Tick
    \/ \E p \in Tabs :
          \/ Open(p) \/ LoadEvent(p) \/ Answer(p)
          \/ \E c \in InitConfigs : InitAgent(p, c)
          \/ \E valid \in BOOLEAN, rate \in Rates : Configure(p, valid, rate)
          \/ NotModified(p) \/ Fetched(p) \/ FetchFails(p)
          \/ RemoveTask(p)
          \/ \E hidden \in BOOLEAN : Settle(p, hidden)

(* A request ends, if only by its timeout; timers and microtasks run, and   *)
(* every page that stays open has loaded some day                           *)
Fairness ==
    \A p \in Tabs :
       /\ WF_vars(NotModified(p) \/ Fetched(p) \/ FetchFails(p))
       /\ WF_vars(LoadEvent(p))
       /\ WF_vars(RemoveTask(p))
       /\ WF_vars(Settle(p, TRUE) \/ Settle(p, FALSE))

Spec == Init /\ [][Next]_vars /\ Fairness

-----------------------------------------------------------------------------
(* Properties *)

(* The shapes of the variables; a rate has four digits after the point.     *)
AgentTypeOK ==
    /\ page \in [Tabs -> Page]
    /\ storage \in [Tabs \cup {LocalStorage} -> Stored]
    /\ server \in Versions /\ clock \in Nat /\ loads \in Nat
    /\ log \in Seq([session : Sessions, behind : Nat])

(* However often and whenever init is called, a page starts one page-load   *)
(* transaction and registers its listeners once; an agent that is inactive  *)
(* when it is initialised never starts, listens or fetches, although its    *)
(* configuration may change later.                                          *)
InitialisedOnce ==
    \A p \in Tabs :
       /\ page[p].started <= 1 /\ page[p].listeners <= 1
       /\ page[p].disabled =>
            /\ page[p].started = 0 /\ page[p].listeners = 0
            /\ page[p].request = "none" /\ page[p].pageLoad = "none"

(* The rates the server has published so far                                *)
RatesOut == {Published[v] : v \in 1 .. server} \ {NoRate}

(* Whatever is stored under an etag, and whatever a request was made with,  *)
(* is what was published under it.  A version that sets no rate is merged   *)
(* into what was stored: under its etag there may be a rate of any other    *)
(* published version, a later one as well when its answer was overtaken,    *)
(* but never one that nobody published.                                     *)
StoredAsPublished ==
    LET Genuine(c) ==
          /\ c.rate \in RatesOut \cup {NoRate}
          /\ c.etag # 0 =>
                c.etag \in 1 .. server /\ Published[c.etag] \in {NoRate, c.rate}
    IN  /\ \A k \in DOMAIN storage : Genuine(storage[k])
        /\ \A p \in Tabs : Genuine(page[p].localConfig)

(* A page whose rate comes from the server samples at the rate of the       *)
(* version the server answered with: when it answers "not modified", at the *)
(* rate that was stored before the request, which other tabs may have       *)
(* replaced meanwhile.  If that version sets no rate, at one that was       *)
(* published and stored with another.  A rate above 0 stays above 0.        *)
SamplesAsPublished ==
    \A p \in Tabs : page[p].applied # 0 =>
       \E rate \in RatesOut :
          /\ page[p].rate = Normalise(rate)
          /\ Published[page[p].applied] \in {NoRate, rate}
          /\ page[p].rate = 0 => rate = 0

(* Page loads that do not overlap are numbered one after the other: if none *)
(* ended between the initialisation of a page and the end of its page load, *)
(* it has the next number of the session, or, exactly when that session has *)
(* expired, is the first of a new one.  What other tabs store meanwhile     *)
(* makes no difference.                                                     *)
NumberedInOrder ==
    \A i \in 2 .. Len(log) :
       LET before == log[i - 1].session
           this == log[i].session
       IN  log[i].behind = i - 1 =>
             IF this.timestamp - before.timestamp > SessionTimeout
             THEN this.id # before.id /\ this.sequence = 1
             ELSE this.id = before.id /\ this.sequence = before.sequence + 1

(* A page that starts its page load, or waits for the central configuration *)
(* to start it, settles it: whether the request is answered, fails or takes *)
(* too long, and whether the page is complete before or after, unless the   *)
(* page is left: the next one has no flags yet.                             *)
PageLoadSettles ==
    \A p \in Tabs :
       []<>(page[p].flag => page[p].pageLoad = "settled")
=============================================================================
