------------------------------ MODULE Handlers ------------------------------
(***************************************************************************)
(* The HTTP handlers of internal/handlers behind the compressing writer of *)
(* module GzipWriter: validation of a search, the enrichment of its result *)
(* with the price of the fuel asked for, errors, and the replies.          *)
(*                                                                         *)
(* A result comes from the cache by pointer: every search of the zone      *)
(* works on the same stations.  Requests run concurrently and without a    *)
(* lock, so the work on each station is a step of its own.  Prices are     *)
(* numbers, an offer is one fuel at one price; a name goes with the offer. *)
(***************************************************************************)
EXTENDS GzipWriter, Integers

CONSTANTS
    Searches,     \* the queries of a search: [kind, lat, lng, radius, fuel]
    LatMin, LatMax, LngMin, LngMax, MaxRadius,    \* the configured bounds
    Stations,     \* how many stations the zone has
    Offers        \* what a station may have: sequences of [fuel, price, name]

\* What strconv.ParseFloat makes of a coordinate.
Coordinate(x) ==
    /\ x.is \in {"absent", "garbage", "nan", "inf", "-inf", "number"}
    /\ x.is = "number" => x.at \in Int

ASSUME SearchesAssumption ==
    \A q \in Searches :
        q.kind = "search" /\ Coordinate(q.lat) /\ Coordinate(q.lng) /\ q.radius \in Int
ASSUME BoundsAssumption == {LatMin, LatMax, LngMin, LngMax} \subseteq Int
ASSUME MaxRadiusAssumption == MaxRadius \in Nat /\ MaxRadius >= 5
ASSUME StationsAssumption == Stations \in Nat
ASSUME OffersAssumption ==
    \A offers \in Offers :
        /\ Len(offers) \in Nat /\ DOMAIN offers = 1 .. Len(offers)
        /\ \A i \in DOMAIN offers : offers[i].price \in Int
ASSUME ReplyTypesAssumption == {"json", "html", "png"} \subseteq Types

VARIABLES
    phase,    \* where each request is
    query,    \* what it asks
    zone,     \* the zone's stations: what the upstream sent, shared by all
    results,  \* the slice each search works on: its own, or the shared one
    reply     \* what the handler is about to write

handlerVars == <<phase, query, zone, results, reply>>
vars == <<out, handlerVars>>

Indices == 1 .. Stations
NoPrice == [price |-> 0, name |-> ""]
Shared == [shared |-> TRUE, of |-> <<>>]
Own(stations) == [shared |-> FALSE, of |-> stations]
Idle == [kind |-> "none"]
NoReply == [status |-> 0, type |-> "", length |-> 0, pieces |-> <<>>]

\* Requests whose reply depends on nothing modelled here.
Plain == {[kind |-> k] : k \in {"lookup", "asset", "image", "unchanged"}}

-----------------------------------------------------------------------------
\* A float that strconv.ParseFloat accepts is a number, an infinity or NaN; of
\* these only numbers are ordered with the bounds on either side.
Less(x, bound) == (x.is = "number" /\ x.at < bound) \/ x.is = "-inf"
Greater(x, bound) == (x.is = "number" /\ x.at > bound) \/ x.is = "inf"

slip_ByRangeAlone(x, low, high) ==
    x.is \notin {"absent", "garbage"} /\ ~Less(x, low) /\ ~Greater(x, high)

Acceptable(x, low, high) ==
    /\ x.is \notin {"absent", "garbage"}
    /\ x.is \notin {"nan", "inf", "-inf"}
    /\ ~Less(x, low)
    /\ ~Greater(x, high)

RadiusOf(q) == IF q.radius <= 0 THEN 5 ELSE q.radius

Valid(q) ==
    /\ Acceptable(q.lat, LatMin, LatMax)
    /\ Acceptable(q.lng, LngMin, LngMax)
    /\ RadiusOf(q) <= MaxRadius

\* The running best is replaced by a lower price; a price of 0 stands for none.
calculateSelectedPrice(station, fuel) ==
    LET best[n \in 0 .. Len(station.offers)] ==
            IF n = 0 THEN NoPrice
            ELSE LET offer == station.offers[n]
                 IN  IF /\ offer.fuel = fuel
                        /\ best[n - 1].price = 0 \/ offer.price < best[n - 1].price
                     THEN [price |-> offer.price, name |-> offer.name]
                     ELSE best[n - 1]
    IN  best[Len(station.offers)]

\* Replies: a status of 0 is not sent explicitly, a length of 0 not at all.
\* Each piece of a body bears the request it is for.
Piece(r, is, content) == [for |-> r, is |-> is, of |-> content]

handleError(r, status) ==
    [status |-> status, type |-> "json", length |-> 0,
     pieces |-> <<Piece(r, "error", <<>>)>>]

writeJSON(r, content) ==
    [status |-> 0, type |-> "json", length |-> 0,
     pieces |-> <<Piece(r, "data", content)>>]

serveContent(r, type) ==
    [status |-> 200, type |-> type, length |-> 2,
     pieces |-> <<Piece(r, "first", <<>>), Piece(r, "second", <<>>)>>]

-----------------------------------------------------------------------------
TypeOK ==
    /\ phase \in [Requests -> {"idle", "validating", "searching", "enriching",
                               "encoding", "replying", "closing", "putting"}]
    /\ \A r \in Requests :
          /\ query[r] \in Searches \cup Plain \cup {Idle}
          /\ Len(results[r].of) <= Stations
          /\ reply[r].type \in Types /\ out.resp[r].type \in Types
          /\ out.resp[r].passthrough => out.resp[r].gz = NoWriter
          /\ phase[r] = "idle" => out.resp[r].gz = NoWriter
    /\ out.pool \cap InUse(out) = {}
    /\ \A w \in Writers : out.writer[w].target = Discard <=> w \notin InUse(out)

Init ==
    /\ out = NoOutput
    /\ phase = [r \in Requests |-> "idle"]
    /\ query = [r \in Requests |-> Idle]
    /\ \E offers \in [Indices -> Offers] :
          zone = [i \in Indices |-> [offers |-> offers[i], selected |-> NoPrice]]
    /\ results = [r \in Requests |-> Own(<<>>)]
    /\ reply = [r \in Requests |-> NoReply]

Goes(r, to) == phase' = [phase EXCEPT ![r] = to]
Replies(r, what) == reply' = [reply EXCEPT ![r] = what] /\ Goes(r, "replying")

\* gzipMiddleware wraps the response; the mux picks the handler.
Arrive(r, q, accepts) ==
    /\ phase[r] = "idle"
    /\ query' = [query EXCEPT ![r] = q]
    /\ out' = [out EXCEPT !.resp[r] = Blank(accepts)]
    /\ Goes(r, "validating")
    /\ UNCHANGED <<zone, results, reply>>

\* ValidateSearchMiddleware; the method is one of the reasons to refuse.
Refuse(r, status) ==
    /\ phase[r] = "validating"
    /\ query[r].kind = "search"
    /\ status = 405 \/ (status = 400 /\ ~Valid(query[r]))
    /\ Replies(r, handleError(r, status))
    /\ UNCHANGED <<out, query, zone, results>>

Accept(r) ==
    /\ phase[r] = "validating"
    /\ query[r].kind = "search"
    /\ Valid(query[r])
    /\ Goes(r, "searching")
    /\ UNCHANGED <<out, query, zone, results, reply>>

SearchFails(r) ==
    /\ phase[r] = "searching"
    /\ Replies(r, handleError(r, 502))
    /\ UNCHANGED <<out, query, zone, results>>

\* Without a fuel the shared result is written as it is; with one, a slice of
\* the request's own is filled from it.
SearchSucceeds(r) ==
    /\ phase[r] = "searching"
    /\ IF query[r].fuel > 0
       THEN results' = [results EXCEPT ![r] = Own(<<>>)] /\ Goes(r, "enriching")
       ELSE results' = [results EXCEPT ![r] = Shared] /\ Goes(r, "encoding")
    /\ UNCHANGED <<out, query, zone, reply>>

NextStation(r) == Len(results[r].of) + 1

slip_EnrichInPlace(r) ==
    /\ phase[r] = "enriching"
    /\ NextStation(r) \in Indices
    /\ LET i == NextStation(r)
           selected == calculateSelectedPrice(zone[i], query[r].fuel)
       IN  /\ zone' = [zone EXCEPT ![i].selected = selected]
           /\ results' = [results EXCEPT ![r].of = Append(@, zone'[i])]
    /\ UNCHANGED <<out, phase, query, reply>>

Enrich(r) ==
    /\ phase[r] = "enriching"
    /\ NextStation(r) \in Indices
    /\ LET i == NextStation(r)
           selected == calculateSelectedPrice(zone[i], query[r].fuel)
       IN  results' = [results EXCEPT ![r].of =
                          Append(@, [zone[i] EXCEPT !.selected = selected])]
    /\ UNCHANGED <<out, phase, query, zone, reply>>

Enriched(r) ==
    /\ phase[r] = "enriching"
    /\ NextStation(r) \notin Indices
    /\ Goes(r, "encoding")
    /\ UNCHANGED <<out, query, zone, results, reply>>

\* json.Encoder encodes all of the response before it writes any of it.
Encode(r) ==
    /\ phase[r] = "encoding"
    /\ Replies(r, writeJSON(r, IF results[r].shared THEN zone ELSE results[r].of))
    /\ results' = [results EXCEPT ![r] = Own(<<>>)]
    /\ UNCHANGED <<out, query, zone>>

\* StationHandler, FuelsHandler and GeocodeHandler: an answer, or an error; the
\* errors (400, 405, 429, 502) leave alike, and one stands for them all.
Lookup(r, status) ==
    /\ phase[r] = "validating"
    /\ query[r].kind = "lookup"
    /\ Replies(r, IF status = 200 THEN writeJSON(r, <<>>) ELSE handleError(r, status))
    /\ UNCHANGED <<out, query, zone, results>>

\* http.FileServer: two pieces stand for a file longer than its buffer.
ServeFile(r) ==
    /\ phase[r] = "validating"
    /\ \/ query[r].kind = "asset" /\ Replies(r, serveContent(r, "html"))
       \/ query[r].kind = "image" /\ Replies(r, serveContent(r, "png"))
       \/ query[r].kind = "unchanged" /\ Replies(r, [NoReply EXCEPT !.status = 304])
    /\ UNCHANGED <<out, query, zone, results>>

\* The reply leaves: first its header, if the handler sends one, then its
\* pieces one by one.  A reply is spent as it leaves.
SendStatus(r) ==
    /\ phase[r] = "replying"
    /\ reply[r].status # 0
    /\ \E w \in Gettable(out, r) :
          out' = WriteHeader([out EXCEPT !.resp[r] =
                                 [@ EXCEPT !.type = reply[r].type,
                                           !.length = reply[r].length]],
                             r, reply[r].status, w)
    /\ reply' = [reply EXCEPT ![r].status = 0]
    /\ UNCHANGED <<phase, query, zone, results>>

SendPiece(r) ==
    /\ phase[r] = "replying"
    /\ reply[r].status = 0
    /\ reply[r].pieces # <<>>
    /\ \E w \in Gettable(out, r) :
          out' = Write(IF out.resp[r].decided THEN out
                       ELSE [out EXCEPT !.resp[r].type = reply[r].type],
                       r, Head(reply[r].pieces), "html", w)
    /\ reply' = [reply EXCEPT ![r].pieces = Tail(@)]
    /\ UNCHANGED <<phase, query, zone, results>>

HandlerReturns(r) ==
    /\ phase[r] = "replying"
    /\ reply[r].status = 0
    /\ reply[r].pieces = <<>>
    /\ reply' = [reply EXCEPT ![r] = NoReply]
    /\ Goes(r, "closing")
    /\ UNCHANGED <<out, query, zone, results>>

\* The deferred close; after it net/http is done with the response.
Close(r) ==
    /\ phase[r] = "closing"
    /\ out' = CloseGzip(out, r)
    /\ Goes(r, "putting")
    /\ UNCHANGED <<query, zone, results, reply>>

Put(r) ==
    /\ phase[r] = "putting"
    /\ out' = [PutGzip(out, r) EXCEPT !.resp[r] = Blank(FALSE)]
    /\ query' = [query EXCEPT ![r] = Idle]
    /\ Goes(r, "idle")
    /\ UNCHANGED <<zone, results, reply>>

Next ==
    \E r \in Requests :
        \/ \E q \in Searches \cup Plain, accepts \in BOOLEAN : Arrive(r, q, accepts)
        \/ \E status \in {400, 405} : Refuse(r, status)
        \/ Accept(r)
        \/ SearchFails(r)
        \/ SearchSucceeds(r)
        \/ Enrich(r)
        \/ Enriched(r)
        \/ Encode(r)
        \/ \E status \in {200, 502} : Lookup(r, status)
        \/ ServeFile(r)
        \/ SendStatus(r)
        \/ SendPiece(r)
        \/ HandlerReturns(r)
        \/ Close(r)
        \/ Put(r)

Spec == Init /\ [][Next]_vars

-----------------------------------------------------------------------------
\* All that will be sent has been.
Answered(r) == phase[r] = "putting"

\* What reaches the upstream service is a point within the bounds and a radius
\* within the limit: "NaN/Inf parse without error and slip past every range
\* comparison" (middleware.go:36).
OnlyValidSearches ==
    \A r \in Requests : phase[r] \in {"searching", "enriching", "encoding"} =>
        LET q == query[r]
        IN  /\ q.lat.is = "number" /\ q.lat.at \in LatMin .. LatMax
            /\ q.lng.is = "number" /\ q.lng.at \in LngMin .. LngMax
            /\ RadiusOf(q) \in 1 .. MaxRadius

\* The first of the cheapest offers of the fuel.
Cheapest(offers, fuel) ==
    LET match == {i \in DOMAIN offers : offers[i].fuel = fuel}
        best == CHOOSE i \in match : \A j \in match :
                    \/ offers[i].price < offers[j].price
                    \/ offers[i].price = offers[j].price /\ i <= j
    IN  IF match = {} THEN NoPrice
        ELSE [price |-> offers[best].price, name |-> offers[best].name]

Priced(offers, fuel) ==
    \A i \in DOMAIN offers : offers[i].fuel = fuel => offers[i].price > 0

\* Every search is answered with the zone's stations and, for each, the lowest
\* price of the fuel it asked for itself and no other: whatever the searches
\* that share the result with it asked for.  A price of 0 is out of the
\* question here: the code takes it both for a price and for none.
AnswersOwnFuel ==
    \A r \in Requests :
        Answered(r) /\ query[r].kind = "search" /\ out.resp[r].sent.status = 200 =>
            LET answer == out.resp[r].wire[1].piece.of
            IN  /\ Len(answer) = Stations
                /\ \A i \in Indices :
                      /\ answer[i].offers = zone[i].offers
                      /\ Priced(answer[i].offers, query[r].fuel) =>
                            answer[i].selected =
                                IF query[r].fuel > 0
                                THEN Cheapest(answer[i].offers, query[r].fuel)
                                ELSE NoPrice

\* However the writers of the pool pass from one request to another, a client
\* gets all of its own body, in order, and nothing of another's.
WholeAndOwn ==
    \A r \in Requests : Answered(r) =>
        LET wire == out.resp[r].wire
        IN  /\ \A i \in DOMAIN wire : wire[i].piece.for = r
            /\ CASE query[r].kind \in {"asset", "image"} ->
                        [i \in DOMAIN wire |-> wire[i].piece.is] = <<"first", "second">>
                 [] query[r].kind = "unchanged" -> wire = <<>>
                 [] query[r].kind \in {"search", "lookup"} -> Len(wire) = 1

\* The header that left describes the body that followed it: gzip throughout or
\* not at all, a length only if it is right, and Vary on everything that some
\* other client would have been sent compressed.
HeaderFitsBody ==
    \A r \in Requests : Answered(r) =>
        LET sent == out.resp[r].sent
            wire == out.resp[r].wire
        IN  /\ \A i \in DOMAIN wire :
                  wire[i].how = IF sent.encoding = "gzip" THEN "gzip" ELSE "plain"
            /\ sent.length # 0 => sent.encoding = "" /\ Len(wire) = sent.length
            /\ sent.vary <=> sent.type \in Compressible
=============================================================================
