-------------------------- MODULE UpstreamClients --------------------------
(***************************************************************************)
(* internal/api: StationClient.SearchZone and GetServiceArea (client.go)   *)
(* and NominatimClient.Geocode (geocode.go), which answer from a cache or  *)
(* through one shared upstream call per key; only the geocoder's calls     *)
(* must also be admitted by a rate limiter.  A request is a handler        *)
(* goroutine with a context that may be cancelled at any time; the call    *)
(* runs in a goroutine of its own, started by the first request for the    *)
(* key (its leader) and outliving that request's context.  Around it: the  *)
(* singleflight groups (external), the timing tracker of internal/obs, and *)
(* the logging middleware that reads it.                                   *)
(*                                                                         *)
(* The caches appear here as what a caller may rely on: they may forget    *)
(* any key at any moment (expiry, eviction), and otherwise return what was *)
(* set last.  Module Cache says how.                                       *)
(***************************************************************************)
EXTENDS Naturals, FiniteSets

CONSTANTS
    Requests,     \* handler goroutines, each serving one request after another
    Points,       \* raw coordinates
    Cells,        \* coordinates rounded to four decimals
    Quantize,     \* the rounding: Points -> Cells
    Radii,        \* search radii
    Ids,          \* station ids
    Texts,        \* what a geocoding request asks for
    Languages,    \* the Accept-Language headers it may come with
    FirstTwo,     \* the first two characters of each
    GeocodeBurst, \* nominatimRateBurst
    MaxVersion    \* bound: how often the upstream data of a key changes

ASSUME QuantizeAssumption == Quantize \in [Points -> Cells]
ASSUME LanguagesAssumption == FirstTwo \in [Languages -> STRING]
ASSUME GeocodeBurstAssumption == GeocodeBurst \in Nat \ {0}
ASSUME MaxVersionAssumption == MaxVersion \in Nat

VARIABLES
    phase,        \* where each request is
    query,        \* what it asks for
    cancelled,    \* requests whose context was cancelled before the handler
                  \*   returned, until the next one of the same name
    reply,        \* what the handler got back
    chan,         \* the buffered channel DoChan gave the request
    joined,       \* the leader of the call whose result it waits for, if any
    flight,       \* the upstream call each request leads, if any
    group,        \* the sfGroups: key -> leader of the call in flight
    cached,       \* Stations, Details and Cache: key -> result
    tokens,       \* the geocoder's limiter: calls it would admit now
    version,      \* the upstream's data, as a version per key
    timing,       \* obs.Timing of each request: round trips recorded on it
                  \*   that no log line has reported
    floor,        \* history: newest version answered for the request's key
                  \*   before the request began
    newest        \* history: newest version answered so far, per key

requestVars == <<phase, query, cancelled, reply, joined>>
callVars == <<flight, group, cached, chan>>
historyVars == <<floor, newest>>
world == <<version, tokens>>
vars == <<requestVars, callVars, historyVars, timing, world>>

-----------------------------------------------------------------------------
Zone(p, r) == [kind |-> "zone", point |-> p, radius |-> r]
Area(i) == [kind |-> "area", id |-> i]
Place(t, l) == [kind |-> "place", text |-> t, lang |-> l]
Queries ==
    {Zone(p, r) : p \in Points, r \in Radii}
        \cup {Area(i) : i \in Ids}
        \cup {Place(t, l) : t \in Texts, l \in Languages}

\* The language the geocoder is asked for: Italian, English or none.
safeLang(l) == IF FirstTwo[l] \in {"it", "en"} THEN FirstTwo[l] ELSE ""

\* Definitions named slip_ are plausible mistakes in the definition that
\* follows them; no action uses one.  Each breaks a property.
slip_KeyWithoutLanguage(q) ==
    CASE q.kind = "zone"  -> <<Quantize[q.point], q.radius>>
      [] q.kind = "area"  -> <<q.id>>
      [] q.kind = "place" -> <<"place", q.text>>

\* cacheKey: "lat:lng:radius" of the rounded point, or the bare id, in one
\* group, where the colon keeps them apart; "text NUL lang" in the geocoder's
\* own.
cacheKey(q) ==
    CASE q.kind = "zone"  -> <<Quantize[q.point], q.radius>>
      [] q.kind = "area"  -> <<q.id>>
      [] q.kind = "place" -> <<"place", q.text, safeLang(q.lang)>>

Keys == {cacheKey(q) : q \in Queries}
KeyOf(r) == cacheKey(query[r])
CallKey(f) == cacheKey(flight[f].query)

NoQuery == [kind |-> "none"]
Empty == [kind |-> "empty"]
Success(q, n) == [kind |-> "value", about |-> q, version |-> n]
Failure(why) == [kind |-> "error", error |-> why]
Values == {Success(q, n) : q \in Queries, n \in 0 .. MaxVersion}
Results ==
    Values \cup {Failure("upstream"), Failure("context"), Failure("limited")}
NoCall == [at |-> "none", query |-> NoQuery, result |-> Empty]

Active(f) == flight[f].at # "none"

TypeOK ==
    /\ phase \in [Requests -> {"idle", "begun", "missed", "waiting", "answered"}]
    /\ query \in [Requests -> Queries \cup {NoQuery}]
    /\ cancelled \subseteq Requests
    /\ reply \in [Requests -> Results \cup {Empty}]
    /\ chan \in [Requests -> Results \cup {Empty}]
    /\ joined \in [Requests -> SUBSET Requests]
    /\ flight \in [Requests -> [at : {"none", "admitting", "calling",
                                      "answered", "done"},
                                query : Queries \cup {NoQuery},
                                result : Results \cup {Empty}]]
    /\ DOMAIN group \subseteq Keys
    /\ group \in [DOMAIN group -> Requests]
    /\ DOMAIN cached \subseteq Keys
    /\ cached \in [DOMAIN cached -> Values]
    /\ tokens \in 0 .. GeocodeBurst
    /\ version \in [Keys -> 0 .. MaxVersion]
    /\ timing \in [Requests -> 0 .. 1]
    /\ floor \in [Requests -> 0 .. MaxVersion]
    /\ newest \in [Keys -> 0 .. MaxVersion]

Init ==
    /\ phase = [r \in Requests |-> "idle"]
    /\ query = [r \in Requests |-> NoQuery]
    /\ cancelled = {}
    /\ reply = [r \in Requests |-> Empty]
    /\ chan = [r \in Requests |-> Empty]
    /\ joined = [r \in Requests |-> {}]
    /\ flight = [r \in Requests |-> NoCall]
    /\ group = [k \in {} |-> NoCall]
    /\ cached = [k \in {} |-> NoCall]
    /\ tokens = GeocodeBurst
    /\ version = [k \in Keys |-> 0]
    /\ timing = [r \in Requests |-> 0]
    /\ floor = [r \in Requests |-> 0]
    /\ newest = [k \in Keys |-> 0]

-----------------------------------------------------------------------------
\* The logging middleware attaches a fresh Timing and calls the handler.  A
\* goroutine's name is free for a new request once no call it led is left.
Begin(r, q) ==
    /\ phase[r] = "idle"
    /\ ~Active(r)
    /\ phase' = [phase EXCEPT ![r] = "begun"]
    /\ query' = [query EXCEPT ![r] = q]
    /\ timing' = [timing EXCEPT ![r] = 0]
    /\ floor' = [floor EXCEPT ![r] = newest[cacheKey(q)]]
    /\ cancelled' = cancelled \ {r}
    /\ UNCHANGED <<reply, joined, world, newest>>
    /\ UNCHANGED callVars

\* The client hangs up: net/http cancels the request's context.
Cancel(r) ==
    /\ phase[r] \in {"begun", "missed", "waiting"}
    /\ r \notin cancelled
    /\ cancelled' = cancelled \cup {r}
    /\ UNCHANGED <<phase, query, reply, joined, world>>
    /\ UNCHANGED <<callVars, timing, historyVars>>

Later(m, n) == IF m > n THEN m ELSE n

\* The handler has its result: what every return path comes to.  Its channel
\* is garbage from here on; a result sent to it later goes nowhere.
Answer(r, result) ==
    /\ phase' = [phase EXCEPT ![r] = "answered"]
    /\ reply' = [reply EXCEPT ![r] = result]
    /\ newest' = IF result.kind = "value"
                 THEN [newest EXCEPT ![KeyOf(r)] = Later(@, result.version)]
                 ELSE newest
    /\ joined' = [joined EXCEPT ![r] = {}]
    /\ chan' = [chan EXCEPT ![r] = Empty]
    /\ UNCHANGED <<query, cancelled, floor, world, timing, flight, group, cached>>

CacheHit(r) ==
    /\ phase[r] = "begun"
    /\ KeyOf(r) \in DOMAIN cached
    /\ Answer(r, cached[KeyOf(r)])

CacheMiss(r) ==
    /\ phase[r] = "begun"
    /\ KeyOf(r) \notin DOMAIN cached
    /\ phase' = [phase EXCEPT ![r] = "missed"]
    /\ UNCHANGED <<query, cancelled, reply, joined, world>>
    /\ UNCHANGED <<callVars, timing, historyVars>>

\* DoChan with a call for the key in flight: wait for that one.
JoinFlight(r) ==
    /\ phase[r] = "missed"
    /\ KeyOf(r) \in DOMAIN group
    /\ phase' = [phase EXCEPT ![r] = "waiting"]
    /\ joined' = [joined EXCEPT ![r] = {group[KeyOf(r)]}]
    /\ UNCHANGED <<query, cancelled, reply, world>>
    /\ UNCHANGED <<callVars, timing, historyVars>>

\* Only a call of the geocoder has to be admitted first.
FirstStep(q) == IF q.kind = "place" THEN "admitting" ELSE "calling"

slip_CallsAlone(r) ==
    /\ phase[r] = "missed"
    /\ phase' = [phase EXCEPT ![r] = "waiting"]
    /\ joined' = [joined EXCEPT ![r] = {r}]
    /\ group' = [k \in DOMAIN group \cup {KeyOf(r)} |->
                    IF k = KeyOf(r) THEN r ELSE group[k]]
    /\ flight' = [flight EXCEPT ![r] =
            [at |-> FirstStep(query[r]), query |-> query[r], result |-> Empty]]
    /\ UNCHANGED <<query, cancelled, reply, cached, chan, world>>
    /\ UNCHANGED <<timing, historyVars>>

\* DoChan with none: the request becomes the leader of a new one.
StartFlight(r) ==
    /\ phase[r] = "missed"
    /\ KeyOf(r) \notin DOMAIN group
    /\ phase' = [phase EXCEPT ![r] = "waiting"]
    /\ joined' = [joined EXCEPT ![r] = {r}]
    /\ group' = [k \in DOMAIN group \cup {KeyOf(r)} |->
                    IF k = KeyOf(r) THEN r ELSE group[k]]
    /\ flight' = [flight EXCEPT ![r] =
            [at |-> FirstStep(query[r]), query |-> query[r], result |-> Empty]]
    /\ UNCHANGED <<query, cancelled, reply, cached, chan, world>>
    /\ UNCHANGED <<timing, historyVars>>

-----------------------------------------------------------------------------
\* limiter.Allow(), inside the shared call: the requests that join it are
\* admitted, or refused, with its leader.
Admit(f) ==
    /\ flight[f].at = "admitting"
    /\ tokens > 0
    /\ tokens' = tokens - 1
    /\ flight' = [flight EXCEPT ![f].at = "calling"]
    /\ UNCHANGED <<group, cached, chan, version>>
    /\ UNCHANGED <<requestVars, timing, historyVars>>

OverBudget(f) ==
    /\ flight[f].at = "admitting"
    /\ tokens = 0
    /\ flight' = [flight EXCEPT ![f] =
            [@ EXCEPT !.at = "done", !.result = Failure("limited")]]
    /\ UNCHANGED <<group, cached, chan, world>>
    /\ UNCHANGED <<requestVars, timing, historyVars>>

\* obs.Record on the Timing that the call's context took over from its leader.
Record(r) == timing' = [timing EXCEPT ![r] = @ + 1]

\* doRequest and its like in Geocode: the round trip ends and is recorded on the leader's Timing,
\* whatever its outcome and whether or not the leader is still there.
RoundTripSucceeds(f) ==
    /\ flight[f].at = "calling"
    /\ flight' = [flight EXCEPT ![f] =
            [@ EXCEPT !.at = "answered",
                      !.result = Success(flight[f].query, version[CallKey(f)])]]
    /\ Record(f)
    /\ UNCHANGED <<group, cached, chan, world>>
    /\ UNCHANGED <<requestVars, historyVars>>

slip_LeaderContext(f) ==
    /\ flight[f].at = "calling"
    /\ flight' = [flight EXCEPT ![f] =
            [@ EXCEPT !.at = "done",
                      !.result = Failure(IF f \in cancelled THEN "context"
                                                            ELSE "upstream")]]
    /\ Record(f)
    /\ UNCHANGED <<group, cached, chan, world>>
    /\ UNCHANGED <<requestVars, historyVars>>

\* A refused connection or HTTPClient.Timeout.  The call's context is detached
\* from the leader's, so the leader's cancellation is never the reason.
RoundTripFails(f) ==
    /\ flight[f].at = "calling"
    /\ flight' = [flight EXCEPT ![f] =
            [@ EXCEPT !.at = "done", !.result = Failure("upstream")]]
    /\ Record(f)
    /\ UNCHANGED <<group, cached, chan, world>>
    /\ UNCHANGED <<requestVars, historyVars>>

slip_ErrorCached(f) ==
    /\ flight[f].at = "answered"
    /\ flight' = [flight EXCEPT ![f] =
            [@ EXCEPT !.at = "done", !.result = Failure("upstream")]]
    /\ cached' = [k \in DOMAIN cached \cup {CallKey(f)} |->
                    IF k = CallKey(f) THEN Failure("upstream") ELSE cached[k]]
    /\ UNCHANGED <<group, chan, world>>
    /\ UNCHANGED <<requestVars, timing, historyVars>>

\* A status other than 200, a body cut short, or a body that is not JSON.
BodyRejected(f) ==
    /\ flight[f].at = "answered"
    /\ flight' = [flight EXCEPT ![f] =
            [@ EXCEPT !.at = "done", !.result = Failure("upstream")]]
    /\ UNCHANGED <<group, cached, chan, world>>
    /\ UNCHANGED <<requestVars, timing, historyVars>>

\* The body is decoded and the result set in the cache before the call returns.
StoreResult(f) ==
    /\ flight[f].at = "answered"
    /\ flight' = [flight EXCEPT ![f].at = "done"]
    /\ cached' = [k \in DOMAIN cached \cup {CallKey(f)} |->
                    IF k = CallKey(f) THEN flight[f].result ELSE cached[k]]
    /\ UNCHANGED <<group, chan, world>>
    /\ UNCHANGED <<requestVars, timing, historyVars>>

slip_LeaderOnly(f) ==
    /\ flight[f].at = "done"
    /\ chan' = [chan EXCEPT ![f] = flight[f].result]
    /\ joined' = [joined EXCEPT ![f] = @ \ {f}]
    /\ group' = [k \in DOMAIN group \ {CallKey(f)} |-> group[k]]
    /\ flight' = [flight EXCEPT ![f] = NoCall]
    /\ UNCHANGED <<phase, query, cancelled, reply, cached, world>>
    /\ UNCHANGED <<timing, historyVars>>

\* singleflight: under the group's mutex the key is released and the result
\* sent to the channel of every request that joined.
Deliver(f) ==
    /\ flight[f].at = "done"
    /\ chan' = [r \in Requests |-> IF f \in joined[r] THEN flight[f].result
                                                     ELSE chan[r]]
    /\ joined' = [r \in Requests |-> joined[r] \ {f}]
    /\ group' = [k \in DOMAIN group \ {CallKey(f)} |-> group[k]]
    /\ flight' = [flight EXCEPT ![f] = NoCall]
    /\ UNCHANGED <<phase, query, cancelled, reply, cached, world>>
    /\ UNCHANGED <<timing, historyVars>>

\* The select at the end of each of the three: with both cases ready either
\* may be taken.
Receive(r) ==
    /\ phase[r] = "waiting"
    /\ chan[r] # Empty
    /\ Answer(r, chan[r])

ContextDone(r) ==
    /\ phase[r] = "waiting"
    /\ r \in cancelled
    /\ Answer(r, Failure("context"))

\* loggingMiddleware, after the handler has returned: snapshot and log.
Log(r) ==
    /\ phase[r] = "answered"
    /\ phase' = [phase EXCEPT ![r] = "idle"]
    /\ query' = [query EXCEPT ![r] = NoQuery]
    /\ reply' = [reply EXCEPT ![r] = Empty]
    /\ timing' = [timing EXCEPT ![r] = 0]
    /\ floor' = [floor EXCEPT ![r] = 0]
    /\ UNCHANGED <<cancelled, joined, newest, world>>
    /\ UNCHANGED callVars

-----------------------------------------------------------------------------
\* The cache drops a key: expired, or evicted to make room.
CacheForgets(k) ==
    /\ k \in DOMAIN cached
    /\ cached' = [other \in DOMAIN cached \ {k} |-> cached[other]]
    /\ UNCHANGED <<flight, group, chan, world>>
    /\ UNCHANGED <<requestVars, timing, historyVars>>

\* The upstream's prices change.
UpstreamChanges(k) ==
    /\ version[k] < MaxVersion
    /\ version' = [version EXCEPT ![k] = @ + 1]
    /\ UNCHANGED <<requestVars, callVars, timing, historyVars, tokens>>

\* A second passes, and the limiter earns a call.
TokenEarned ==
    /\ tokens < GeocodeBurst
    /\ tokens' = tokens + 1
    /\ UNCHANGED <<requestVars, callVars, timing, historyVars, version>>

RequestStep(r) ==
    \/ CacheHit(r)
    \/ CacheMiss(r)
    \/ JoinFlight(r)
    \/ StartFlight(r)
    \/ Receive(r)
    \/ ContextDone(r)
    \/ Log(r)

CallStep(f) ==
    \/ Admit(f)
    \/ OverBudget(f)
    \/ RoundTripSucceeds(f)
    \/ RoundTripFails(f)
    \/ BodyRejected(f)
    \/ StoreResult(f)
    \/ Deliver(f)

Next ==
    \/ \E r \in Requests : (\E q \in Queries : Begin(r, q)) \/ Cancel(r)
    \/ \E r \in Requests : RequestStep(r) \/ CallStep(r)
    \/ \E k \in Keys : CacheForgets(k) \/ UpstreamChanges(k)
    \/ TokenEarned

Spec == Init /\ [][Next]_vars

\* Goroutines are scheduled, and HTTPClient.Timeout ends every upstream call.
FairSpec ==
    /\ Spec
    /\ \A r \in Requests : WF_vars(RequestStep(r)) /\ WF_vars(CallStep(r))

-----------------------------------------------------------------------------
\* Coalescing: no two upstream calls for one key are ever in progress at once,
\* however their requests come, go and are cancelled.
OneCallPerKey ==
    \A f, g \in Requests :
        (Active(f) /\ Active(g) /\ CallKey(f) = CallKey(g)) => f = g

\* A result about q may be given to a request for p: the same station, or the
\* same radius around a point of the same cell, or the same text in the same
\* language.
Serves(q, p) ==
    /\ q.kind = p.kind
    /\ q.kind = "place" => q.text = p.text /\ safeLang(q.lang) = safeLang(p.lang)
    /\ q.kind = "area" => q.id = p.id
    /\ q.kind = "zone" =>
        Quantize[q.point] = Quantize[p.point] /\ q.radius = p.radius

\* Nobody is given the answer to someone else's question, though answers are
\* shared between requests twice over (a cached value may come from a call
\* that was led by a third request) and zones and areas share one group.
AnswerMatchesRequest ==
    \A r \in Requests : reply[r].kind = "value" => Serves(reply[r].about, query[r])

\* Cancellation stays with the request that is cancelled, though its call goes
\* on without it and others may be waiting for that: nobody else's answer is
\* "context cancelled" (api_test.go:201-203), and the log line of everybody else
\* counts every round trip recorded for them (obs.go:2-4).  For the cancelled
\* leader itself the second is not so: its round trip ends after its log line.
CancellationIsPrivate ==
    \A r \in Requests : r \notin cancelled =>
        /\ reply[r] # Failure("context")
        /\ phase[r] = "idle" => timing[r] = 0

\* Reads do not go back in time: a request that begins after a version of its
\* data has been given to anyone is never given an older one, by the cache, by
\* a call already in flight or by a slow call overtaken by a new one.
NoStepBack ==
    \A r \in Requests : reply[r].kind = "value" => reply[r].version >= floor[r]

\* Every request is answered and logged, cancelled or not, with or without the
\* request that leads its call.
EveryRequestEnds ==
    \A r \in Requests : phase[r] = "begun" ~> phase[r] = "idle"
=============================================================================
