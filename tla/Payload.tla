------------------------------- MODULE Payload -------------------------------
(***************************************************************************)
(* What becomes of the data of one event on its way to the server: the     *)
(* contexts put together for it (common/context.js), the data models of    *)
(* transactions, spans and errors (performance-monitoring.js,              *)
(* error-logging.js), truncation (common/truncate.js), and the short names *)
(* of the third version of the intake (common/compress.js).                *)
(*                                                                         *)
(* An object is the paths of the objects in it and a function from the     *)
(* paths of its other values to what is there.                             *)
(***************************************************************************)
EXTENDS Naturals, SequencesExt

CONSTANTS
    KeywordLimit,    \* KEYWORD_LIMIT
    Lengths          \* lengths of strings

ASSUME PayloadAssumption == KeywordLimit \in Nat \ {0} /\ Lengths \subseteq Nat

VARIABLES
    kind,        \* the sort of event
    stage,       \* how far it is
    data,        \* the object that is queued
    captured,    \* history: the object before it was truncated
    wire         \* the compressed object that is posted

vars == <<kind, stage, data, captured, wire>>

NoObject == [objects |-> {}, values |-> <<>>]

(* of: the path where a value was captured, by which values are told apart.  *)
(* Numbers, dates and booleans are of length 0 if they are falsy.            *)
Value(p, is, n) == [of |-> p, is |-> is, len |-> n]
Undefined(p) == Value(p, "undefined", 0)
Placeholder == Value(<<"N/A">>, "string", 3)

isEmpty(v) == v.is # "number" /\ v.len = 0
Truthy(v) == v.len > 0

-----------------------------------------------------------------------------
(* What is captured: the paths of the values *)

Keys(at, keys) == {Append(at, k) : k \in keys}
Context(k) == <<"context", k>>

getPageContext == Keys(Context("page"), {"referer", "url"})

Sizes == {"transfer_size", "encoded_body_size", "decoded_body_size"}
getResponseContext(at) ==
    {Keys(at, Sizes), Keys(at, Sizes) \cup {at \o <<"headers", "server-timing">>}}

getDestination ==
    Keys(Context("destination"), {"address", "port"})
      \cup Keys(Context("destination") \o <<"service">>, {"name", "resource", "type"})

(* The contexts of spans of each type *)
addSpanContext ==
    {{}, getDestination,
     Keys(Context("http"), {"method", "url", "status_code"}) \cup getDestination}
    \cup {Keys(Context("http"), {"url"}) \cup r \cup getDestination :
            r \in getResponseContext(Context("http") \o <<"response">>)}

(* addLabels, setUserContext, setCustomContext *)
Labels == Keys(Context("tags"), {"label"})
User == Keys(Context("user"), {"id", "email", "username"})
Custom == Keys(Context("custom"), {"key"})

(* The page, on page loads the response, and what the application added;    *)
(* errors take over the context of the current transaction                  *)
addTransactionContext ==
    {getPageContext \cup r \cup UNION a :
       r \in {{}} \cup getResponseContext(Context("response")),
       a \in SUBSET {Labels, User, Custom}}

CompressedMarks ==
    [fetchStart |-> "fs", domainLookupStart |-> "ls", domainLookupEnd |-> "le",
     connectStart |-> "cs", connectEnd |-> "ce", requestStart |-> "qs",
     responseStart |-> "rs", responseEnd |-> "re", domLoading |-> "dl",
     domInteractive |-> "di", domContentLoadedEventStart |-> "ds",
     domContentLoadedEventEnd |-> "de", domComplete |-> "dc",
     loadEventStart |-> "es", loadEventEnd |-> "ee"]
Timing(k) == <<"marks", "navigationTiming", k>>
AgentMark(k) == <<"marks", "agent", k>>
Paints == {"firstContentfulPaint", "largestContentfulPaint"}

(* What a page load measures of the page, and its session *)
Experience ==
    Keys(<<"experience">>, {"cls", "fid", "tbt"})
      \cup Keys(<<"experience", "longtask">>, {"count", "sum", "max"})
Session == Keys(<<"session">>, {"id", "sequence"})

(* No marks, those of a page load, those of mark(), or both *)
Marks ==
    LET page == {Timing(k) : k \in DOMAIN CompressedMarks}
                  \cup {AgentMark(k) : k \in Paints \cup {"timeToFirstByte",
                                         "domInteractive", "domComplete"}}
                  \cup Experience \cup Session
        own == {<<"marks", "custom", "mark">>}
    IN  {{}, page, own, page \cup own}

(* A metricset of a span type, or of the transaction itself *)
Sample(k) == <<"breakdown", "samples", k, "value">>
Breakdown ==
    {{<<"breakdown", "span", "type">>, Sample("span.self_time.count"),
      Sample("span.self_time.sum.us")},
     {Sample("transaction.duration.count"), Sample("transaction.duration.sum.us"),
      Sample("transaction.breakdown.count")}}

SpanKeys == {"id", "transaction_id", "parent_id", "trace_id", "name", "type",
             "subtype", "action", "sync", "start", "duration", "outcome",
             "sample_rate"}
TransactionKeys == {"id", "trace_id", "name", "type", "duration", "sampled",
                    "sample_rate", "outcome"}
Frame == Keys(<<"exception", "stacktrace">>,
              {"abs_path", "filename", "function", "lineno", "colno"})

(* The error, and the transaction that is current when it happens *)
createErrorDataModel ==
    {Keys(<<>>, {"id", "culprit"}) \cup Keys(<<"exception">>, {"message", "type"})
       \cup Frame \cup c \cup t :
       c \in addTransactionContext,
       t \in {{}, Keys(<<>>, {"trace_id", "parent_id", "transaction_id"})
                    \cup Keys(<<"transaction">>, {"type", "sampled"})}}

createTransactionDataModel ==
    {Keys(<<>>, TransactionKeys) \cup {<<"span_count", "started">>}
       \cup c \cup m \cup b : c \in addTransactionContext, m \in Marks, b \in Breakdown}

createMetaData ==
    {Keys(<<"service">>, {"name", "version", "environment"})
       \cup Keys(<<"service", "agent">>, {"name", "version"})
       \cup {<<"service", "language", "name">>, <<"labels", "label">>}}

Captured == [span |-> {Keys(<<>>, SpanKeys) \cup c \cup l :
                          c \in addSpanContext, l \in {{}, Labels}},
             transaction |-> createTransactionDataModel,
             error |-> createErrorDataModel,
             metadata |-> createMetaData]

IsNumber(p) ==
    \/ p[1] \in {"marks", "experience"}
    \/ Last(p) \in Sizes \cup {"sequence", "port", "status_code", "sync", "start",
                     "duration", "sample_rate", "sampled", "started", "lineno", "colno", "value"}

(* What one value may be; ids are generated, the agent's names are fixed *)
Fixed == {<<"id">>, <<"session", "id">>, <<"trace_id">>, <<"transaction_id">>,
          <<"parent_id">>,
          <<"service", "agent", "name">>, <<"service", "language", "name">>}
Odd(p) == {Undefined(p)} \cup
          (IF IsNumber(p) THEN {Value(p, "number", 0)}
                          ELSE {Value(p, "string", n) : n \in Lengths})

(* Values that are the same: the parent of a span that is a child of its     *)
(* transaction, and the agent's marks of the navigation                      *)
SameAs(p, isChild) ==
    IF p = <<"parent_id">> /\ isChild THEN <<"transaction_id">>
    ELSE IF p = AgentMark("timeToFirstByte") THEN Timing("responseStart")
    ELSE IF p[1] = "marks" /\ Last(p) \in DOMAIN CompressedMarks
    THEN Timing(Last(p)) ELSE p

(* An object with these values, one of which is odd *)
Object(paths, p, odd, isChild) ==
    [objects |-> UNION {{SubSeq(q, 1, n) : n \in 0 .. Len(q) - 1} : q \in paths},
     values |-> [q \in paths |->
        LET s == SameAs(q, isChild)
        IN  IF s = p THEN odd
            ELSE Value(s, IF IsNumber(s) THEN "number" ELSE "string", 1)]]

-----------------------------------------------------------------------------
(* truncate.js *)

Rules(at, keys, required) ==
    [i \in DOMAIN keys |-> [at |-> at, key |-> keys[i], required |-> required]]

RESPONSE_MODEL(at) ==
    Rules(at, <<"*">>, FALSE) \o Rules(Append(at, "headers"), <<"*">>, FALSE)

CONTEXT_MODEL ==
    Rules(Context("user"), <<"id", "email", "username">>, FALSE)
      \o Rules(Context("tags"), <<"*">>, FALSE)
      \o RESPONSE_MODEL(Context("http") \o <<"response">>)
      \o Rules(Context("destination"), <<"address">>, FALSE)
      \o Rules(Context("destination") \o <<"service">>, <<"*">>, TRUE)
      \o RESPONSE_MODEL(Context("response"))

SPAN_MODEL ==
    Rules(<<>>, <<"name", "type", "id", "trace_id", "parent_id",
                  "transaction_id">>, TRUE)
      \o Rules(<<>>, <<"subtype", "action">>, FALSE) \o CONTEXT_MODEL

TRANSACTION_MODEL ==
    Rules(<<>>, <<"name", "parent_id">>, FALSE)
      \o Rules(<<>>, <<"type", "id", "trace_id">>, TRUE)
      \o Rules(<<"span_count">>, <<"started">>, TRUE) \o CONTEXT_MODEL

ERROR_MODEL ==
    Rules(<<>>, <<"id">>, TRUE)
      \o Rules(<<>>, <<"trace_id", "transaction_id", "parent_id", "culprit">>, FALSE)
      \o Rules(<<"exception">>, <<"type">>, FALSE)
      \o Rules(<<"transaction">>, <<"type">>, FALSE) \o CONTEXT_MODEL

METADATA_MODEL ==
    Rules(<<"service">>, <<"name">>, TRUE) \o Rules(<<"service">>, <<"version">>, FALSE)
      \o Rules(<<"service", "agent">>, <<"version">>, TRUE)
      \o Rules(<<"service">>, <<"environment">>, FALSE)
      \o Rules(<<"labels">>, <<"*">>, FALSE)

Model == [span |-> SPAN_MODEL, transaction |-> TRANSACTION_MODEL,
          error |-> ERROR_MODEL, metadata |-> METADATA_MODEL]

Shorten(v) ==
    IF v.is = "string" /\ v.len > KeywordLimit THEN [v EXCEPT !.len = KeywordLimit]
    ELSE v

\* Mutant of truncate: the placeholder goes wherever nothing is
truncateAlways(v, required) == Shorten(IF isEmpty(v) THEN Placeholder ELSE v)

truncate(v, required) ==
    Shorten(IF required /\ isEmpty(v) THEN Placeholder ELSE v)

(* The object a nested model is applied to.  For one that is missing the    *)
(* default of the parameter makes it the whole object again.                *)
childTarget(d, at) ==
    FoldLeft(LAMBDA o, k : IF Append(o, k) \in d.objects THEN Append(o, k) ELSE <<>>,
             <<>>, at)

(* The keys a rule is about; "*" are all of the object *)
Targets(d, rule) ==
    LET o == childTarget(d, rule.at)
    IN  IF rule.key = "*" THEN {p \in DOMAIN d.values : Front(p) = o}
        ELSE {Append(o, rule.key)}

ValueAt(d, p) == IF p \in DOMAIN d.values THEN d.values[p] ELSE Undefined(p)

replaceValue(d, rule) ==
    LET targets == Targets(d, rule)
        New(p) == IF p \in targets THEN truncate(ValueAt(d, p), rule.required)
                  ELSE d.values[p]
        kept == {p \in DOMAIN d.values \cup targets :
                   p \in targets => ~isEmpty(New(p))}
    IN  [d EXCEPT !.values = [p \in kept |-> New(p)]]

truncateModel(model, d) == FoldLeft(replaceValue, d, model)

-----------------------------------------------------------------------------
(* compress.js: the names each value gets; a condition is that it is truthy *)

Renamed(at, to, names) ==
    {<<Append(at, k), Append(to, names[k])>> : k \in DOMAIN names}

\* Mutant of compressResponse: two of the sizes change places
compressResponseSwapped(at, to) ==
    Renamed(at, to, [transfer_size |-> "ts", encoded_body_size |-> "dbs",
                     decoded_body_size |-> "ebs"])

compressResponse(at, to) ==
    Renamed(at, to, [transfer_size |-> "ts", encoded_body_size |-> "ebs",
                     decoded_body_size |-> "dbs"])

compressHTTP ==
    Renamed(Context("http"), <<"c", "h">>,
            [url |-> "url", method |-> "mt", status_code |-> "sc"])
      \cup compressResponse(Context("http") \o <<"response">>, <<"c", "h", "r">>)

compressContext ==
    compressHTTP
      \cup Renamed(Context("page"), <<"c", "p">>, [referer |-> "rf", url |-> "url"])
      \cup compressResponse(Context("response"), <<"c", "r">>)
      \cup Renamed(Context("destination"), <<"c", "dt">>,
                   [address |-> "ad", port |-> "po"])
      \cup Renamed(Context("destination") \o <<"service">>, <<"c", "dt", "se">>,
                   [name |-> "n", type |-> "t", resource |-> "rc"])
      \cup Renamed(Context("user"), <<"c", "u">>,
                   [id |-> "id", username |-> "un", email |-> "em"])
      \cup {<<p, <<"c", "cu", "key">> >> : p \in Custom}

compressMarks ==
    {<<Timing(k), <<"k", "nt", CompressedMarks[k]>> >> : k \in DOMAIN CompressedMarks}
      \cup {<<Timing("responseStart"), <<"k", "a", "fb">> >>,
            <<Timing("domInteractive"), <<"k", "a", "di">> >>,
            <<Timing("domComplete"), <<"k", "a", "dc">> >>,
            <<AgentMark("firstContentfulPaint"), <<"k", "a", "fp">> >>,
            <<AgentMark("largestContentfulPaint"), <<"k", "a", "lp">> >>}

compressMetricsets ==
    {<<<<"breakdown", "span", "type">>, <<"me", "y", "t">> >>}
      \cup {<<Sample(s[1]), <<"me", "sa", s[2], "v">> >> :
              s \in {<<"span.self_time.count", "ysc">>, <<"span.self_time.sum.us", "yss">>,
                     <<"transaction.duration.count", "xdc">>,
                     <<"transaction.duration.sum.us", "xds">>,
                     <<"transaction.breakdown.count", "xbc">>}}

compressSpan ==
    Renamed(<<>>, <<>>, [id |-> "id", name |-> "n", type |-> "t", start |-> "s",
                         duration |-> "d", outcome |-> "o", sample_rate |-> "sr",
                         parent_id |-> "pid", sync |-> "sy", subtype |-> "su",
                         action |-> "ac"]) \cup compressContext

compressTransaction ==
    Renamed(<<>>, <<>>, [id |-> "id", trace_id |-> "tid", name |-> "n", type |-> "t",
                         duration |-> "d", sampled |-> "sm", sample_rate |-> "sr",
                         outcome |-> "o"])
      \cup {<<<<"span_count", "started">>, <<"yc", "sd">> >>}
      \cup Renamed(<<"experience">>, <<"exp">>,
                   [cls |-> "cls", fid |-> "fid", tbt |-> "tbt"])
      \cup Renamed(<<"experience", "longtask">>, <<"exp", "lt">>,
                   [count |-> "count", sum |-> "sum", max |-> "max"])
      \cup Renamed(<<"session">>, <<"ses">>, [id |-> "id", sequence |-> "seq"])
      \cup compressContext \cup compressMarks \cup compressMetricsets

compressError ==
    Renamed(<<>>, <<>>, [id |-> "id", culprit |-> "cl", trace_id |-> "tid",
                         parent_id |-> "pid", transaction_id |-> "xid"])
      \cup Renamed(<<"transaction">>, <<"x">>, [type |-> "t", sampled |-> "sm"])
      \cup {<<<<"exception", "message">>, <<"ex", "mg">> >>,
            <<<<"type">>, <<"ex", "t">> >>}
      \cup Renamed(<<"exception", "stacktrace">>, <<"ex", "st">>,
                   [abs_path |-> "ap", filename |-> "f", function |-> "fn",
                    lineno |-> "li", colno |-> "co"])
      \cup compressContext

compressMetadata ==
    Renamed(<<"service">>, <<"se">>, [name |-> "n", version |-> "ve", environment |-> "en"])
      \cup Renamed(<<"service", "agent">>, <<"se", "a">>, [name |-> "n", version |-> "ve"])
      \cup {<<<<"service", "language", "name">>, <<"se", "la", "n">> >>,
            <<<<"labels", "label">>, <<"l", "label">> >>}

Names == [span |-> compressSpan, transaction |-> compressTransaction,
          error |-> compressError, metadata |-> compressMetadata]

OnlyTruthy == {Context("http") \o <<"method">>, Context("http") \o <<"status_code">>,
               <<"sync">>, <<"subtype">>, <<"action">>}
                \cup {AgentMark(k) : k \in Paints}

(* Whether a value is copied; JSON leaves out what is undefined *)
Copied(p) ==
    LET v == ValueAt(data, p)
    IN  /\ v.is # "undefined"
        /\ p \in OnlyTruthy => Truthy(v)
        /\ (kind = "span" /\ p = <<"parent_id">>) =>
              v # ValueAt(data, <<"transaction_id">>)

(* compressMarks reads the marks of the navigation and of the agent *)
Throws == /\ <<"marks">> \in data.objects
          /\ ~({<<"marks", "navigationTiming">>, <<"marks", "agent">>} \subseteq data.objects)

Compressed ==
    LET names == {n \in Names[kind] : Copied(n[1])}
    IN  [q \in {n[2] : n \in names} |->
           ValueAt(data, (CHOOSE n \in names : n[2] = q)[1])]

-----------------------------------------------------------------------------

Init ==
    /\ kind \in DOMAIN Captured
    /\ stage = "none"
    /\ data = NoObject /\ captured = NoObject
    /\ wire = <<>>

(* An event is captured: its data model is truncated, and queued unless it  *)
(* is an error without a message                                            *)
Capture ==
    /\ stage = "none"
    /\ \E paths \in Captured[kind], isChild \in BOOLEAN :
         \E p \in paths \ Fixed : \E odd \in Odd(p) :
            captured' = Object(paths, p, odd, isChild)
    /\ data' = truncateModel(Model[kind], captured')
    /\ stage' = IF /\ kind = "error"
                   /\ ValueAt(data', <<"exception", "message">>).is = "undefined"
                THEN "dropped" ELSE "queued"
    /\ UNCHANGED <<kind, wire>>

(* sendEvents with apiVersion 3 *)
Send ==
    /\ stage = "queued"
    /\ IF Throws THEN stage' = "threw" /\ wire' = <<>>
       ELSE stage' = "sent" /\ wire' = Compressed
    /\ UNCHANGED <<kind, data, captured>>

Next == Capture \/ Send

Spec == Init /\ [][Next]_vars

-----------------------------------------------------------------------------
(* Properties *)

(* The values a model names, by the paths it means *)
Named(k, required) ==
    {Append(r.at, r.key) : r \in {x \in Range(Model[k]) :
                                    x.key # "*" /\ x.required = required}}
Starred(k, before, required) ==
    {p \in DOMAIN before.values : \E r \in Range(Model[k]) :
       r.key = "*" /\ r.required = required /\ Front(p) = r.at}

(* What truncation makes of an object, although a nested model whose object *)
(* is missing is applied to the whole event: a required value is there, the *)
(* placeholder stands only for required ones, what the models name is       *)
(* within the limit, no value but an empty one disappears or changes        *)
(* otherwise.                                                               *)
Fits(k, before, after) ==
    LET required == {p \in Named(k, TRUE) : Front(p) \in after.objects}
                      \cup Starred(k, before, TRUE)
        listed == required \cup Named(k, FALSE) \cup Starred(k, before, FALSE)
    IN  /\ required \subseteq DOMAIN after.values
        /\ \A p \in DOMAIN after.values :
             LET v == after.values[p]
             IN  IF v = Shorten(Placeholder)
                 THEN p \in required /\ isEmpty(before.values[p])
                 ELSE /\ p \in listed => v = Shorten(before.values[p])
                      /\ v \in {before.values[p], Shorten(before.values[p])}
        /\ \A p \in DOMAIN before.values \ DOMAIN after.values :
             isEmpty(before.values[p])

(* Truncation does what the models say of the event (truncateModel).        *)
TruncationFits == stage # "none" => Fits(kind, captured, data)

(* The names of the intake, as compress.spec.js lists them, and those of    *)
(* experience and session, which it leaves out                              *)
V3_MAPPING ==
    [abs_path |-> "ap", action |-> "ac", address |-> "ad", agent |-> "a",
     breakdown |-> "me", colno |-> "co", connectEnd |-> "ce", connectStart |-> "cs",
     context |-> "c", culprit |-> "cl", custom |-> "cu", decoded_body_size |-> "dbs",
     destination |-> "dt", domComplete |-> "dc", domContentLoadedEventEnd |-> "de",
     domContentLoadedEventStart |-> "ds", domInteractive |-> "di", domLoading |-> "dl",
     domainLookupEnd |-> "le", domainLookupStart |-> "ls", duration |-> "d",
     email |-> "em", encoded_body_size |-> "ebs", environment |-> "en",
     exception |-> "ex", experience |-> "exp", fetchStart |-> "fs", filename |-> "f",
     firstContentfulPaint |-> "fp", function |-> "fn", headers |-> "he", http |-> "h",
     labels |-> "l", language |-> "la", largestContentfulPaint |-> "lp",
     lineno |-> "li", longtask |-> "lt", loadEventEnd |-> "ee",
     loadEventStart |-> "es", marks |-> "k",
     message |-> "mg", method |-> "mt", name |-> "n", navigationTiming |-> "nt",
     outcome |-> "o", page |-> "p", parent_id |-> "pid", port |-> "po",
     referer |-> "rf", requestStart |-> "qs", resource |-> "rc", response |-> "r",
     responseEnd |-> "re", responseStart |-> "rs", sampled |-> "sm",
     sample_rate |-> "sr", samples |-> "sa", sequence |-> "seq", service |-> "se",
     session |-> "ses", span |-> "y",
     span_count |-> "yc", stacktrace |-> "st", start |-> "s", started |-> "sd",
     status_code |-> "sc", subtype |-> "su", sync |-> "sy", tags |-> "g",
     timeToFirstByte |-> "fb", trace_id |-> "tid", transaction |-> "x",
     transaction_id |-> "xid", transfer_size |-> "ts", type |-> "t", url |-> "url",
     user |-> "u", username |-> "un", value |-> "v", version |-> "ve"]
V3_SAMPLES ==
    {<<"span.self_time.count", "ysc">>, <<"span.self_time.sum.us", "yss">>,
     <<"transaction.duration.count", "xdc">>, <<"transaction.duration.sum.us", "xds">>,
     <<"transaction.breakdown.count", "xbc">>}
V3Key(k) ==
    IF k \in DOMAIN V3_MAPPING THEN V3_MAPPING[k]
    ELSE IF \E s \in V3_SAMPLES : s[1] = k
    THEN (CHOOSE s \in V3_SAMPLES : s[1] = k)[2] ELSE k
V3(p) == [i \in DOMAIN p |-> V3Key(p[i])]

(* What compression leaves out: labels, server timing, the marks of the     *)
(* application, the type of an exception, the ids of spans that follow from *)
(* their transaction, and falsy values of some keys                         *)
LeftOut(p) ==
    \/ \E k \in {"tags", "headers"} : k \in Range(p)
    \/ Len(p) > 1 /\ SubSeq(p, 1, 2) \in {<<"marks", "custom">>, <<"exception", "type">>}
    \/ kind = "span" /\ p \in Keys(<<>>, {"trace_id", "transaction_id", "parent_id"})
    \/ p \in OnlyTruthy /\ ~Truthy(data.values[p])
    \/ data.values[p].is = "undefined"

(* What is posted can be read back with the names of the intake: every      *)
(* value is under its own name, and none but those above is left out.       *)
WireReadsBack ==
    stage = "sent" =>
      /\ \A q \in DOMAIN wire : \E p \in DOMAIN data.values :
            V3(p) = q /\ data.values[p] = wire[q]
      /\ \A p \in DOMAIN data.values : LeftOut(p) \/ V3(p) \in DOMAIN wire

(* A property a test states and the code does not have *)

(* "should compress error model": the type of an exception that was        *)
(* captured is in the compressed error.                                     *)
ErrorKeepsType ==
    (stage = "sent" /\ <<"exception", "type">> \in DOMAIN data.values) =>
      <<"ex", "t">> \in DOMAIN wire
=============================================================================
