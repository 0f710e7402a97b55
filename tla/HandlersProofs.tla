--------------------------- MODULE HandlersProofs ---------------------------
(***************************************************************************)
(* The handlers and the compressing writer behind them, for any number of  *)
(* requests, pooled writers, stations, offers and content types: a         *)
(* response is whole and its own, its header fits it, only valid searches  *)
(* go upstream, and a search is answered with the lowest prices of its own *)
(* fuel.                                                                   *)
(*                                                                         *)
(* Pieces are records of more than one kind, so the sequences of them are  *)
(* described without naming a set that has them all.                       *)
(***************************************************************************)
EXTENDS Handlers, SequenceTheorems, WellFoundedInduction, TLAPS

-----------------------------------------------------------------------------
\* Sequences of anything.

IsSeq(s) == Len(s) \in Nat /\ s = [i \in 1 .. Len(s) |-> s[i]]

\* Such a sequence is one of its own elements.
LEMMA SeqOfElements ==
    ASSUME NEW s, IsSeq(s)
    PROVE  s \in Seq({s[i] : i \in 1 .. Len(s)})
  BY SeqDef DEF IsSeq

\* A sequence of a set's elements is a sequence.
LEMMA SeqIsSeq ==
    ASSUME NEW S, NEW s \in Seq(S)
    PROVE  IsSeq(s)
  BY LenProperties DEF IsSeq

\* The empty one.
LEMMA EmptyFacts == IsSeq(<<>>) /\ Len(<<>>) = 0
<1>1. <<>> \in Seq({}) /\ Len(<<>>) = 0
  BY EmptySeq
<1> QED
  BY <1>1, SeqIsSeq

\* One more at the end.
LEMMA AppendFacts ==
    ASSUME NEW s, IsSeq(s), NEW x
    PROVE  /\ IsSeq(Append(s, x)) /\ Len(Append(s, x)) = Len(s) + 1
           /\ Append(s, x)[Len(s) + 1] = x
           /\ \A i \in 1 .. Len(s) : Append(s, x)[i] = s[i]
<1> DEFINE S == {s[i] : i \in 1 .. Len(s)} \cup {x}
<1>1. \A i \in 1 .. Len(s) : s[i] \in S
  OBVIOUS
<1>2. x \in S
  OBVIOUS
<1> HIDE DEF S
<1>3. s \in Seq(S)
  BY <1>1, SeqDef DEF IsSeq
<1>4. /\ Append(s, x) \in Seq(S) /\ Len(Append(s, x)) = Len(s) + 1
      /\ Append(s, x)[Len(s) + 1] = x
      /\ \A i \in 1 .. Len(s) : Append(s, x)[i] = s[i]
  BY <1>2, <1>3
<1> QED
  BY <1>4, SeqIsSeq

\* One less at the beginning.
LEMMA TailFacts ==
    ASSUME NEW s, IsSeq(s), s # <<>>
    PROVE  /\ IsSeq(Tail(s)) /\ Len(Tail(s)) = Len(s) - 1 /\ Len(s) > 0
           /\ Head(s) = s[1]
           /\ \A i \in 1 .. Len(s) - 1 : Tail(s)[i] = s[i + 1]
<1> DEFINE S == {s[i] : i \in 1 .. Len(s)}
<1>1. s \in Seq(S)
  BY SeqOfElements
<1> HIDE DEF S
<1>2. /\ Tail(s) \in Seq(S) /\ Len(Tail(s)) = Len(s) - 1 /\ Len(s) > 0
      /\ Head(s) = s[1]
      /\ \A i \in 1 .. Len(s) - 1 : Tail(s)[i] = s[i + 1]
  BY <1>1
<1> QED
  BY <1>2, SeqIsSeq

\* u is s followed by t.
Joined(u, s, t) ==
    /\ IsSeq(u) /\ Len(u) = Len(s) + Len(t)
    /\ \A i \in 1 .. Len(s) : u[i] = s[i]
    /\ \A i \in 1 .. Len(t) : u[Len(s) + i] = t[i]

\* The concatenation of two sequences, element by element.
LEMMA ConcatFacts ==
    ASSUME NEW s, IsSeq(s), NEW t, IsSeq(t)
    PROVE  Joined(s \o t, s, t)
<1> DEFINE S == {s[i] : i \in 1 .. Len(s)} \cup {t[i] : i \in 1 .. Len(t)}
<1>1. \A i \in 1 .. Len(s) : s[i] \in S
  OBVIOUS
<1>2. \A i \in 1 .. Len(t) : t[i] \in S
  OBVIOUS
<1> HIDE DEF S
<1>3. s \in Seq(S) /\ t \in Seq(S)
  BY <1>1, <1>2, SeqDef DEF IsSeq
<1>4. \A i \in 1 .. Len(s) + Len(t) : (s \o t)[i] =
          IF i <= Len(s) THEN s[i] ELSE t[i - Len(s)]
  BY <1>3, ConcatProperties
<1>5. /\ IsSeq(s \o t) /\ Len(s \o t) = Len(s) + Len(t)
  BY <1>3, ConcatProperties, SeqIsSeq
<1>6. Len(s) \in Nat /\ Len(t) \in Nat
  BY DEF IsSeq
<1>7. \A i \in 1 .. Len(s) : i \in 1 .. Len(s) + Len(t) /\ i <= Len(s)
  BY <1>6
<1>8. \A i \in 1 .. Len(t) : /\ Len(s) + i \in 1 .. Len(s) + Len(t)
                             /\ ~(Len(s) + i <= Len(s)) /\ Len(s) + i - Len(s) = i
  BY <1>6
<1> QED
  BY <1>4, <1>5, <1>7, <1>8 DEF Joined

-----------------------------------------------------------------------------
\* The inductive invariant.  What is known of a request is a relation between
\* its phase ph, the kind of its query, its reply rep, its response p and the
\* gzip writer wr that p has, if any: another request's step changes none.

Kinds == {"search", "lookup", "asset", "image", "unchanged"}
Size(kind) ==
    IF kind \in {"asset", "image"} THEN 2 ELSE IF kind = "unchanged" THEN 0 ELSE 1

\* x is what the i-th piece of q's body ought to be.
Fits(q, kind, i, x) ==
    /\ x.for = q
    /\ kind \in {"asset", "image"} => x.is = IF i = 1 THEN "first" ELSE "second"

ResponseShape(p) ==
    p = [type |-> p.type, encoding |-> p.encoding, length |-> p.length,
         vary |-> p.vary, acceptsGzip |-> p.acceptsGzip, decided |-> p.decided,
         passthrough |-> p.passthrough, gz |-> p.gz, sent |-> p.sent,
         wire |-> p.wire]

ReplyShape(rep) ==
    rep = [status |-> rep.status, type |-> rep.type, length |-> rep.length,
           pieces |-> rep.pieces]

WriterShape(wr) == wr = [target |-> wr.target, held |-> wr.held]

Untouched(p) ==
    /\ p.decided = FALSE /\ p.passthrough = FALSE /\ p.gz = NoWriter
    /\ p.encoding = "" /\ p.length = 0 /\ p.vary = FALSE
    /\ p.sent = Unsent /\ p.wire = <<>>

\* The header has left with the decision that was taken then.
Settled(p) ==
    /\ p.sent = [status |-> p.sent.status, type |-> p.type, encoding |-> p.encoding,
                 length |-> p.length, vary |-> p.vary]
    /\ p.sent.status # 0
    /\ p.passthrough = (p.gz = NoWriter)
    /\ p.encoding = IF p.gz = NoWriter THEN "" ELSE "gzip"
    /\ p.gz # NoWriter => p.length = 0
    /\ p.vary = (p.type \in Compressible)

\* How many pieces have been written, to the wire or to the gzip writer.
Written(ph, p, wr) ==
    IF p.gz = NoWriter \/ ph = "putting" THEN Len(p.wire) ELSE Len(wr.held)

Body(ph, q, kind, p, wr) ==
    /\ IsSeq(p.wire)
    /\ \A i \in 1 .. Len(p.wire) :
          /\ Fits(q, kind, i, p.wire[i].piece)
          /\ p.wire[i].how = IF p.encoding = "gzip" THEN "gzip" ELSE "plain"
    /\ p.gz # NoWriter =>
          /\ p.gz \in Writers /\ wr.target = q /\ IsSeq(wr.held)
          /\ \A i \in 1 .. Len(wr.held) : Fits(q, kind, i, wr.held[i])
          /\ ph # "putting" => p.wire = <<>>

\* The pieces still to be written continue those that have been.
Remaining(q, kind, rep, n) ==
    /\ IsSeq(rep.pieces)
    /\ n + Len(rep.pieces) = Size(kind)
    /\ \A i \in 1 .. Len(rep.pieces) : Fits(q, kind, n + i, rep.pieces[i])
    /\ rep.length \in {0, Size(kind)}
    /\ rep.status \in Nat

Working == {"searching", "enriching", "encoding"}

Progress(ph, q, kind, rep, p, wr) ==
    /\ ph \in {"idle", "validating", "replying", "closing", "putting"} \cup Working
    /\ ph # "idle" => kind \in Kinds
    /\ ph \in Working => kind = "search"
    /\ ph \in {"idle", "validating"} \cup Working => ~p.decided
    /\ ph = "replying" => Remaining(q, kind, rep, Written(ph, p, wr))
    /\ ph = "replying" /\ rep.status # 0 => ~p.decided
    /\ ph \in {"closing", "putting"} => Written(ph, p, wr) = Size(kind)
    /\ ph \in {"replying", "closing", "putting"} => p.length \in {0, Size(kind)}

Good(ph, q, kind, rep, p, wr) ==
    /\ ResponseShape(p) /\ ReplyShape(rep)
    /\ p.decided \in BOOLEAN
    /\ ~p.decided => Untouched(p)
    /\ p.decided => Settled(p)
    /\ Body(ph, q, kind, p, wr)
    /\ Progress(ph, q, kind, rep, p, wr)

Shape ==
    /\ phase = [q \in Requests |-> phase[q]]
    /\ query = [q \in Requests |-> query[q]]
    /\ reply = [q \in Requests |-> reply[q]]
    /\ out = [resp |-> out.resp, pool |-> out.pool, writer |-> out.writer]
    /\ out.resp = [q \in Requests |-> out.resp[q]]
    /\ out.writer = [w \in Writers |-> out.writer[w]]
    /\ \A w \in Writers : WriterShape(out.writer[w])

PoolIsFree ==
    /\ out.pool \subseteq Writers
    /\ \A w \in out.pool, q \in Requests : out.resp[q].gz # w
    /\ \A w \in Writers :
          (\A q \in Requests : out.resp[q].gz # w) => out.writer[w].target = Discard

\* The answer to a search: every station of the zone, with its selected price.
Selected(station, fuel) ==
    [station EXCEPT !.selected =
        IF fuel > 0 THEN calculateSelectedPrice(station, fuel) ELSE NoPrice]

AnswerOf(stations, qry) == [i \in Indices |-> Selected(stations[i], qry.fuel)]

Sending == {"replying", "closing", "putting"}

\* The status of a reply, sent or about to be, tells of an error.
Fails(rep, p) ==
    IF p.decided THEN p.sent.status # 200 ELSE rep.status \notin {0, 200}

\* Every piece, written or not, holds the answer.
Bears(answer, rep, p, wr) ==
    /\ \A i \in 1 .. Len(rep.pieces) : rep.pieces[i].of = answer
    /\ \A i \in 1 .. Len(p.wire) : p.wire[i].piece.of = answer
    /\ p.gz # NoWriter => \A i \in 1 .. Len(wr.held) : wr.held[i].of = answer

\* What a response holds: its type is one, and a search that does not fail is
\* answered with nothing but its answer.
Sound(ph, kind, answer, rep, p, wr) ==
    /\ rep.type \in Types /\ p.type \in Types
    /\ ph \in Sending /\ kind = "search" => Fails(rep, p) \/ Bears(answer, rep, p, wr)

GoodNow(q) ==
    LET wr == out.writer[out.resp[q].gz]
    IN  /\ Good(phase[q], q, query[q].kind, reply[q], out.resp[q], wr)
        /\ Sound(phase[q], query[q].kind, AnswerOf(zone, query[q]), reply[q],
                 out.resp[q], wr)

IInv == Shape /\ PoolIsFree /\ \A q \in Requests : GoodNow(q)

\* The zone stays what the upstream sent, and a result is either the zone itself
\* or as many of its stations as have got their price.
StationShape(station) ==
    /\ station = [offers |-> station.offers, selected |-> NoPrice]
    /\ station.offers \in Offers

ResultShape(result) ==
    /\ result = [shared |-> result.shared, of |-> result.of]
    /\ result.shared \in BOOLEAN
    /\ IsSeq(result.of) /\ Len(result.of) <= Stations

Begun(qry, result, stations) ==
    /\ result.shared = FALSE /\ qry.fuel > 0
    /\ \A i \in 1 .. Len(result.of) : result.of[i] = Selected(stations[i], qry.fuel)

Results(ph, qry, result, stations) ==
    /\ qry \in Searches \cup Plain \cup {Idle}
    /\ ResultShape(result)
    /\ ph = "enriching" => Begun(qry, result, stations)
    /\ ph = "encoding" =>
          \/ result.shared = TRUE /\ ~(qry.fuel > 0)
          \/ Begun(qry, result, stations) /\ Len(result.of) = Stations

RInv ==
    /\ zone = [i \in Indices |-> zone[i]]
    /\ \A i \in Indices : StationShape(zone[i])
    /\ phase = [q \in Requests |-> phase[q]]
    /\ query = [q \in Requests |-> query[q]]
    /\ results = [q \in Requests |-> results[q]]
    /\ \A q \in Requests : Results(phase[q], query[q], results[q], zone)

-----------------------------------------------------------------------------
\* The results of the searches.

\* Away from the two phases that build a result, all that matters is its shape.
LEMMA ResultElsewhere ==
    ASSUME NEW ph, NEW qry, NEW result, NEW stations, Results(ph, qry, result, stations),
           NEW to, to \notin {"enriching", "encoding"},
           NEW other \in Searches \cup Plain \cup {Idle}
    PROVE  Results(to, other, result, stations)
  BY DEF Results

\* So it is with a new slice, which is empty; the first of the two begins so.
LEMMA ResultIsNew ==
    ASSUME NEW qry \in Searches \cup Plain \cup {Idle}, NEW stations
    PROVE  /\ \A to : to \notin {"enriching", "encoding"} =>
                 Results(to, qry, Own(<<>>), stations)
           /\ qry.fuel > 0 => Results("enriching", qry, Own(<<>>), stations)
           /\ ~(qry.fuel > 0) => Results("encoding", qry, Shared, stations)
<1> DEFINE none == <<>>
<1>1. IsSeq(none) /\ Len(none) = 0 /\ 1 .. Len(none) = {} /\ Len(none) <= Stations
  BY EmptyFacts, StationsAssumption
<1> HIDE DEF none
<1>2. /\ [shared |-> FALSE, of |-> none].shared = FALSE
      /\ [shared |-> FALSE, of |-> none].of = none
      /\ [shared |-> TRUE, of |-> none].shared = TRUE
      /\ [shared |-> TRUE, of |-> none].of = none
  OBVIOUS
<1>3. ResultShape([shared |-> FALSE, of |-> none]) /\ ResultShape([shared |-> TRUE, of |-> none])
  BY <1>1, <1>2 DEF ResultShape
<1>4. qry.fuel > 0 => Begun(qry, [shared |-> FALSE, of |-> none], stations)
  BY <1>1, <1>2 DEF Begun
<1>5. Own(<<>>) = [shared |-> FALSE, of |-> none] /\ Shared = [shared |-> TRUE, of |-> none]
  BY DEF Own, Shared, none
<1>6. \A to : to \notin {"enriching", "encoding"} =>
         Results(to, qry, [shared |-> FALSE, of |-> none], stations)
  BY <1>3 DEF Results
<1>7. qry.fuel > 0 => Results("enriching", qry, [shared |-> FALSE, of |-> none], stations)
  BY <1>3, <1>4 DEF Results
<1>8. ~(qry.fuel > 0) => Results("encoding", qry, [shared |-> TRUE, of |-> none], stations)
  BY <1>2, <1>3 DEF Results
<1> QED
  BY <1>5, <1>6, <1>7, <1>8

\* One more station gets its price.
LEMMA ResultGrows ==
    ASSUME NEW qry, NEW result, NEW stations, Results("enriching", qry, result, stations),
           Len(result.of) + 1 \in Indices,
           NEW x, x = Selected(stations[Len(result.of) + 1], qry.fuel),
           NEW next, next = [result EXCEPT !.of = Append(result.of, x)]
    PROVE  Results("enriching", qry, next, stations)
<1> DEFINE s == result.of
           t == Append(s, x)
<1>1. /\ result = [shared |-> result.shared, of |-> s] /\ result.shared = FALSE
      /\ IsSeq(s) /\ Len(s) \in Nat /\ qry \in Searches \cup Plain \cup {Idle}
      /\ qry.fuel > 0 /\ \A i \in 1 .. Len(s) : s[i] = Selected(stations[i], qry.fuel)
  BY DEF Results, ResultShape, Begun, IsSeq
<1>2. /\ IsSeq(t) /\ Len(t) = Len(s) + 1 /\ t[Len(s) + 1] = x
      /\ \A i \in 1 .. Len(s) : t[i] = s[i]
  BY <1>1, AppendFacts
<1> HIDE DEF s, t
<1>3. next.of = t /\ next.shared = FALSE /\ next = [shared |-> next.shared, of |-> next.of]
  BY <1>1 DEF t, s
<1>4. Len(t) <= Stations
  BY <1>1, <1>2, StationsAssumption DEF s, Indices
<1>5. \A i \in 1 .. Len(t) : t[i] = Selected(stations[i], qry.fuel)
  <2> TAKE i \in 1 .. Len(t)
  <2>1. CASE i \in 1 .. Len(s)
    BY <1>1, <1>2, <2>1
  <2>2. CASE i = Len(s) + 1
    BY <1>2, <2>2 DEF s
  <2> QED
    BY <1>1, <1>2, <2>1, <2>2
<1>6. ResultShape(next) /\ Begun(qry, next, stations)
  BY <1>1, <1>2, <1>3, <1>4, <1>5 DEF ResultShape, Begun
<1> QED
  BY <1>1, <1>6 DEF Results

\* What an action does not assign is assigned to itself.
LEMMA SameResults ==
    ASSUME RInv, NEW r \in Requests
    PROVE  /\ phase = [phase EXCEPT ![r] = phase[r]]
           /\ query = [query EXCEPT ![r] = query[r]]
           /\ results = [results EXCEPT ![r] = results[r]]
<1>1. phase = [phase EXCEPT ![r] = phase[r]]
  BY DEF RInv
<1>2. query = [query EXCEPT ![r] = query[r]]
  BY DEF RInv
<1>3. results = [results EXCEPT ![r] = results[r]]
  BY DEF RInv
<1> QED
  BY <1>1, <1>2, <1>3

\* A step of r that leaves the zone alone changes nobody else's result.
LEMMA OnlyOwnResult ==
    ASSUME RInv, NEW r \in Requests, UNCHANGED zone, NEW ph, NEW qry, NEW result,
           phase' = [phase EXCEPT ![r] = ph], query' = [query EXCEPT ![r] = qry],
           results' = [results EXCEPT ![r] = result], Results(ph, qry, result, zone)
    PROVE  RInv'
<1>1. /\ phase = [q \in Requests |-> phase[q]] /\ query = [q \in Requests |-> query[q]]
      /\ results = [q \in Requests |-> results[q]]
  BY DEF RInv
<1>2. phase' = [q \in Requests |-> phase'[q]]
  BY <1>1
<1>3. query' = [q \in Requests |-> query'[q]]
  BY <1>1
<1>4. results' = [q \in Requests |-> results'[q]]
  BY <1>1
<1>5. phase'[r] = ph /\ query'[r] = qry /\ results'[r] = result
  BY <1>1
<1>6. \A q \in Requests \ {r} :
         phase'[q] = phase[q] /\ query'[q] = query[q] /\ results'[q] = results[q]
  BY <1>1
<1>7. \A q \in Requests : Results(phase'[q], query'[q], results'[q], zone)
  <2> TAKE q \in Requests
  <2>1. CASE q = r
    BY <1>5, <2>1
  <2>2. CASE q # r
    BY <1>6, <2>2 DEF RInv
  <2> QED
    BY <2>1, <2>2
<1> QED
  BY <1>2, <1>3, <1>4, <1>7 DEF RInv

\* A request whose result is neither built nor used goes somewhere else.
LEMMA GoesElsewhere ==
    ASSUME RInv, NEW r \in Requests, NEW to, to \notin {"enriching", "encoding"},
           Goes(r, to), UNCHANGED <<zone, query, results>>
    PROVE  RInv'
<1>1. Results(phase[r], query[r], results[r], zone)
  BY DEF RInv
<1>2. query[r] \in Searches \cup Plain \cup {Idle}
  BY <1>1 DEF Results
<1>3. Results(to, query[r], results[r], zone)
  BY <1>1, <1>2, ResultElsewhere
<1>4. query' = [query EXCEPT ![r] = query[r]] /\ results' = [results EXCEPT ![r] = results[r]]
  BY SameResults
<1> QED
  BY <1>3, <1>4, OnlyOwnResult DEF Goes

\* The same, with another query.
LEMMA AsksElsewhere ==
    ASSUME RInv, NEW r \in Requests, NEW to, to \notin {"enriching", "encoding"},
           Goes(r, to), UNCHANGED <<zone, results>>,
           NEW qry \in Searches \cup Plain \cup {Idle}, query' = [query EXCEPT ![r] = qry]
    PROVE  RInv'
<1>1. Results(to, qry, results[r], zone)
  BY ResultElsewhere DEF RInv
<1>2. results' = [results EXCEPT ![r] = results[r]]
  BY SameResults
<1> QED
  BY <1>1, <1>2, OnlyOwnResult DEF Goes

\* Every step keeps the zone, and results are built as they should be.
LEMMA NextRInv == RInv /\ [Next]_vars => RInv'
<1> SUFFICES ASSUME RInv, [Next]_vars PROVE RInv'
  OBVIOUS
<1>1. CASE UNCHANGED vars
  BY <1>1 DEF vars, handlerVars, RInv
<1>2. ASSUME NEW r \in Requests, NEW q \in Searches \cup Plain, NEW accepts \in BOOLEAN,
             Arrive(r, q, accepts)
      PROVE  RInv'
  BY <1>2, AsksElsewhere DEF Arrive
<1>3. ASSUME NEW r \in Requests, NEW what, Replies(r, what),
             UNCHANGED <<query, zone, results>>
      PROVE  RInv'
  BY <1>3, GoesElsewhere DEF Replies
<1>4. ASSUME NEW r \in Requests, SearchSucceeds(r) PROVE RInv'
  <2>1. query[r] \in Searches \cup Plain \cup {Idle}
    BY DEF RInv, Results
  <2>2. query' = [query EXCEPT ![r] = query[r]] /\ UNCHANGED zone
    BY <1>4, SameResults DEF SearchSucceeds
  <2>3. CASE query[r].fuel > 0
    <3>1. /\ phase' = [phase EXCEPT ![r] = "enriching"]
          /\ results' = [results EXCEPT ![r] = Own(<<>>)]
      BY <1>4, <2>3 DEF SearchSucceeds, Goes
    <3>2. Results("enriching", query[r], Own(<<>>), zone)
      BY <2>1, <2>3, ResultIsNew
    <3> QED
      BY <2>2, <3>1, <3>2, OnlyOwnResult
  <2>4. CASE ~(query[r].fuel > 0)
    <3>1. /\ phase' = [phase EXCEPT ![r] = "encoding"]
          /\ results' = [results EXCEPT ![r] = Shared]
      BY <1>4, <2>4 DEF SearchSucceeds, Goes
    <3>2. Results("encoding", query[r], Shared, zone)
      BY <2>1, <2>4, ResultIsNew
    <3> QED
      BY <2>2, <3>1, <3>2, OnlyOwnResult
  <2> QED
    BY <2>3, <2>4
<1>5. ASSUME NEW r \in Requests, Enrich(r) PROVE RInv'
  <2> DEFINE i == NextStation(r)
             x == [zone[i] EXCEPT !.selected =
                      calculateSelectedPrice(zone[i], query[r].fuel)]
             next == [results[r] EXCEPT !.of = Append(results[r].of, x)]
  <2>1. /\ phase[r] = "enriching" /\ i \in Indices /\ i = Len(results[r].of) + 1
        /\ results' = [results EXCEPT ![r] = next]
        /\ UNCHANGED <<phase, query, zone>>
    BY <1>5 DEF Enrich, NextStation, RInv
  <2>2. Results("enriching", query[r], results[r], zone)
    BY <2>1 DEF RInv
  <2>3. x = Selected(zone[i], query[r].fuel)
    BY <2>2 DEF Results, Begun, Selected
  <2> HIDE DEF x
  <2>4. Results("enriching", query[r], next, zone)
    BY <2>1, <2>2, <2>3, ResultGrows
  <2> HIDE DEF next
  <2>5. query' = [query EXCEPT ![r] = query[r]] /\ phase' = [phase EXCEPT ![r] = "enriching"]
    BY <2>1, SameResults
  <2> QED
    BY <2>1, <2>4, <2>5, OnlyOwnResult
<1>6. ASSUME NEW r \in Requests, Enriched(r) PROVE RInv'
  <2>1. /\ phase[r] = "enriching" /\ Len(results[r].of) + 1 \notin Indices
        /\ phase' = [phase EXCEPT ![r] = "encoding"] /\ UNCHANGED zone
    BY <1>6 DEF Enriched, NextStation, Goes
  <2>2. Results("enriching", query[r], results[r], zone)
    BY <2>1 DEF RInv
  <2>3. Len(results[r].of) = Stations
    BY <2>1, <2>2, StationsAssumption DEF Results, ResultShape, IsSeq, Indices
  <2>4. Results("encoding", query[r], results[r], zone)
    BY <2>2, <2>3 DEF Results
  <2>5. query' = [query EXCEPT ![r] = query[r]] /\ results' = [results EXCEPT ![r] = results[r]]
    BY <1>6, SameResults DEF Enriched
  <2> QED
    BY <2>1, <2>4, <2>5, OnlyOwnResult
<1>7. ASSUME NEW r \in Requests, Encode(r) PROVE RInv'
  <2>1. /\ phase' = [phase EXCEPT ![r] = "replying"] /\ UNCHANGED zone
        /\ results' = [results EXCEPT ![r] = Own(<<>>)]
        /\ query' = [query EXCEPT ![r] = query[r]]
    BY <1>7, SameResults DEF Encode, Replies, Goes
  <2>2. query[r] \in Searches \cup Plain \cup {Idle}
    BY DEF RInv, Results
  <2>3. Results("replying", query[r], Own(<<>>), zone)
    BY <2>2, ResultIsNew
  <2> QED
    BY <2>1, <2>3, OnlyOwnResult
<1>8. ASSUME NEW r \in Requests, Put(r) PROVE RInv'
  BY <1>8, AsksElsewhere DEF Put
<1>9. ASSUME NEW r \in Requests, SendStatus(r) \/ SendPiece(r) PROVE RInv'
  BY <1>9 DEF SendStatus, SendPiece, RInv
<1>10. ASSUME NEW r \in Requests, Accept(r) \/ HandlerReturns(r) \/ Close(r) PROVE RInv'
  BY <1>10, GoesElsewhere DEF Accept, HandlerReturns, Close
<1>11. CASE Next
  <2>1. ASSUME NEW r \in Requests, NEW status, Refuse(r, status) \/ Lookup(r, status)
        PROVE  RInv'
    BY <1>3, <2>1 DEF Refuse, Lookup
  <2>2. ASSUME NEW r \in Requests, SearchFails(r) \/ ServeFile(r)
        PROVE  RInv'
    BY <1>3, <2>2 DEF SearchFails, ServeFile
  <2> QED
    BY <1>2, <1>4, <1>5, <1>6, <1>7, <1>8, <1>9, <1>10, <1>11, <2>1, <2>2 DEF Next
<1> QED
  BY <1>1, <1>11

\* The zone and the results are as they should be from the start.
LEMMA InitRInv == Init => RInv
<1> SUFFICES ASSUME Init PROVE RInv
  OBVIOUS
<1>1. PICK offers \in [Indices -> Offers] :
         zone = [i \in Indices |-> [offers |-> offers[i], selected |-> NoPrice]]
  BY DEF Init
<1>2. zone = [i \in Indices |-> zone[i]] /\ \A i \in Indices : StationShape(zone[i])
  BY <1>1 DEF StationShape
<1>3. \A q \in Requests : Results("idle", Idle, Own(<<>>), zone)
  BY ResultIsNew
<1> QED
  BY <1>2, <1>3 DEF Init, RInv

-----------------------------------------------------------------------------
\* A response that has not been touched is fit for any phase before the header.
LEMMA UntouchedIsGood ==
    ASSUME NEW ph, NEW q, NEW kind, NEW rep, NEW p, NEW wr,
           ResponseShape(p), ReplyShape(rep), Untouched(p),
           Progress(ph, q, kind, rep, p, wr)
    PROVE  Good(ph, q, kind, rep, p, wr)
<1>1. p.wire = <<>> /\ Len(p.wire) = 0 /\ IsSeq(p.wire)
  BY EmptyFacts DEF Untouched
<1>2. 1 .. Len(p.wire) = {}
  BY <1>1
<1>3. p.gz = NoWriter
  BY DEF Untouched
<1>4. Body(ph, q, kind, p, wr)
  BY <1>1, <1>2, <1>3, Zenon DEF Body
<1> QED
  BY <1>4 DEF Good, Untouched

\* Nobody else has the writer of a request.
LEMMA WriterIsOwn ==
    ASSUME IInv, NEW q \in Requests, NEW r \in Requests, q # r,
           out.resp[q].gz # NoWriter
    PROVE  out.resp[r].gz # out.resp[q].gz
  BY DEF IInv, GoodNow, Good, Body

\* Where there is no writer, it does not matter what stands for it.
LEMMA WriterMayBeAbsent ==
    ASSUME NEW ph, NEW q, NEW kind, NEW rep, NEW p, NEW wr, NEW wr2,
           Good(ph, q, kind, rep, p, wr), p.gz = NoWriter
    PROVE  Good(ph, q, kind, rep, p, wr2)
<1>1. Written(ph, p, wr2) = Written(ph, p, wr)
  BY DEF Written
<1>2. Body(ph, q, kind, p, wr2)
  BY DEF Good, Body
<1>3. Progress(ph, q, kind, rep, p, wr2)
  BY <1>1 DEF Good, Progress
<1> QED
  BY <1>2, <1>3 DEF Good

\* The same of what it holds.
LEMMA SoundWithoutWriter ==
    ASSUME NEW ph, NEW kind, NEW answer, NEW rep, NEW p, NEW wr, NEW wr2,
           Sound(ph, kind, answer, rep, p, wr), p.gz = NoWriter
    PROVE  Sound(ph, kind, answer, rep, p, wr2)
  BY DEF Sound, Bears

\* Before a reply is there and after it has gone, only the types matter.
LEMMA SoundElsewhere ==
    ASSUME NEW ph, ph \notin Sending, NEW kind, NEW answer, NEW rep, NEW p, NEW wr,
           rep.type \in Types, p.type \in Types
    PROVE  Sound(ph, kind, answer, rep, p, wr)
  BY DEF Sound

\* A step of r that leaves the others' records and writers alone.
LEMMA OthersAreKept ==
    ASSUME IInv, NEW r \in Requests, Shape', PoolIsFree', GoodNow(r)', UNCHANGED zone,
           \A q \in Requests \ {r} :
              /\ phase'[q] = phase[q] /\ query'[q] = query[q] /\ reply'[q] = reply[q]
              /\ out'.resp[q] = out.resp[q]
              /\ out.resp[q].gz # NoWriter =>
                    out'.writer[out.resp[q].gz] = out.writer[out.resp[q].gz]
    PROVE  IInv'
<1> SUFFICES ASSUME NEW q \in Requests, q # r
             PROVE  GoodNow(q)'
  BY DEF IInv
<1>1. GoodNow(q)
  BY DEF IInv
<1>2. /\ Good(phase'[q], q, query'[q].kind, reply'[q], out'.resp[q],
              out.writer[out.resp[q].gz])
      /\ Sound(phase'[q], query'[q].kind, AnswerOf(zone', query'[q]), reply'[q],
               out'.resp[q], out.writer[out.resp[q].gz])
  BY <1>1 DEF GoodNow
<1>3. CASE out.resp[q].gz = NoWriter
  BY <1>2, <1>3, WriterMayBeAbsent, SoundWithoutWriter DEF GoodNow
<1>4. CASE out.resp[q].gz # NoWriter
  BY <1>2, <1>4 DEF GoodNow
<1> QED
  BY <1>3, <1>4

\* A step of r that touches neither the responses nor the writers.
LEMMA OutIsKept ==
    ASSUME IInv, NEW r \in Requests, UNCHANGED <<out, zone>>, NEW ph, NEW rep, NEW qry,
           phase' = [phase EXCEPT ![r] = ph], query' = [query EXCEPT ![r] = qry],
           reply' = [reply EXCEPT ![r] = rep],
           Good(ph, r, qry.kind, rep, out.resp[r], out.writer[out.resp[r].gz]),
           Sound(ph, qry.kind, AnswerOf(zone, qry), rep, out.resp[r],
                 out.writer[out.resp[r].gz])
    PROVE  IInv'
<1>1. Shape
  BY DEF IInv
<1>2. phase'[r] = ph /\ query'[r] = qry /\ reply'[r] = rep
  BY <1>1 DEF Shape
<1>3. phase' = [q \in Requests |-> phase'[q]]
  BY <1>1 DEF Shape
<1>4. query' = [q \in Requests |-> query'[q]]
  BY <1>1 DEF Shape
<1>5. reply' = [q \in Requests |-> reply'[q]]
  BY <1>1 DEF Shape
<1>6. \A q \in Requests \ {r} :
         phase'[q] = phase[q] /\ query'[q] = query[q] /\ reply'[q] = reply[q]
  BY <1>1 DEF Shape
<1>7. Shape'
  BY <1>1, <1>3, <1>4, <1>5 DEF Shape
<1>8. PoolIsFree'
  BY DEF IInv, PoolIsFree
<1>9. GoodNow(r)'
  BY <1>2 DEF GoodNow
<1> QED
  BY <1>6, <1>7, <1>8, <1>9, OthersAreKept

\* A step of r that makes its response p2, and takes a writer that was free or
\* gives its own back.
Moves(r, ph, qry, rep, p2, pool2, writer2) ==
    /\ phase' = [phase EXCEPT ![r] = ph]
    /\ query' = [query EXCEPT ![r] = qry]
    /\ reply' = [reply EXCEPT ![r] = rep]
    /\ out' = [resp |-> [out.resp EXCEPT ![r] = p2], pool |-> pool2,
               writer |-> writer2]
    /\ writer2 = [w \in Writers |-> writer2[w]]
    /\ \A w \in Writers :
          /\ WriterShape(writer2[w])
          /\ w # out.resp[r].gz /\ w # p2.gz => writer2[w] = out.writer[w]
    /\ pool2 \subseteq out.pool \cup {out.resp[r].gz}
    /\ pool2 \subseteq Writers
    /\ p2.gz \notin pool2
    /\ p2.gz # NoWriter => \A q \in Requests \ {r} : out.resp[q].gz # p2.gz
    /\ \A w \in Writers : out.resp[r].gz = w /\ p2.gz # w => writer2[w].target = Discard
    /\ Good(ph, r, qry.kind, rep, p2, writer2[p2.gz])
    /\ Sound(ph, qry.kind, AnswerOf(zone, qry), rep, p2, writer2[p2.gz])
    /\ UNCHANGED zone

\* A step that does so keeps the invariant: the others have neither p2's writer
\* nor the one r had.
LEMMA OutChanges ==
    ASSUME IInv, NEW r \in Requests, NEW ph, NEW qry, NEW rep,
           NEW p2, NEW pool2, NEW writer2, Moves(r, ph, qry, rep, p2, pool2, writer2)
    PROVE  IInv'
<1> USE DEF Moves
<1>1. Shape
  BY DEF IInv
<1>2. phase'[r] = ph /\ query'[r] = qry /\ reply'[r] = rep
  BY <1>1 DEF Shape
<1>3. phase' = [q \in Requests |-> phase'[q]]
  BY <1>1 DEF Shape
<1>4. query' = [q \in Requests |-> query'[q]]
  BY <1>1 DEF Shape
<1>5. reply' = [q \in Requests |-> reply'[q]]
  BY <1>1 DEF Shape
<1>6. \A q \in Requests \ {r} :
         phase'[q] = phase[q] /\ query'[q] = query[q] /\ reply'[q] = reply[q]
  BY <1>1 DEF Shape
<1>7. /\ out'.resp = [q \in Requests |-> out'.resp[q]]
      /\ out'.resp[r] = p2
      /\ \A q \in Requests \ {r} : out'.resp[q] = out.resp[q]
  BY <1>1 DEF Shape
<1>8. out' = [resp |-> out'.resp, pool |-> out'.pool, writer |-> out'.writer]
  OBVIOUS
<1>9. Shape'
  BY <1>3, <1>4, <1>5, <1>7, <1>8 DEF Shape
<1>10. \A q \in Requests \ {r} : out.resp[q].gz # NoWriter =>
          out'.writer[out.resp[q].gz] = out.writer[out.resp[q].gz]
  <2> TAKE q \in Requests \ {r}
  <2> HAVE out.resp[q].gz # NoWriter
  <2>1. out.resp[q].gz # out.resp[r].gz
    BY WriterIsOwn
  <2>2. out.resp[q].gz # p2.gz
    OBVIOUS
  <2>3. out.resp[q].gz \in Writers
    BY DEF IInv, GoodNow, Good, Body
  <2> QED
    BY <2>1, <2>2, <2>3
<1>11. PoolIsFree'
  <2>1. \A q \in Requests \ {r} : \A w \in pool2 : out.resp[q].gz # w
    <3> SUFFICES ASSUME NEW q \in Requests \ {r}, NEW w \in pool2,
                        out.resp[q].gz = w
                 PROVE  FALSE
      OBVIOUS
    <3>1. w # NoWriter
      BY NamesAssumption
    <3>2. w # out.resp[r].gz
      BY <3>1, WriterIsOwn
    <3>3. w \in out.pool
      BY <3>2
    <3> QED
      BY <3>3 DEF IInv, PoolIsFree
  <2>2. out'.pool = pool2 /\ out'.writer = writer2
    OBVIOUS
  <2>3. ASSUME NEW w \in Writers, \A q \in Requests : out'.resp[q].gz # w
        PROVE  writer2[w].target = Discard
    <3>1. p2.gz # w /\ \A q \in Requests \ {r} : out.resp[q].gz # w
      BY <1>7, <2>3
    <3>2. CASE out.resp[r].gz = w
      BY <3>1, <3>2
    <3>3. CASE out.resp[r].gz # w
      <4>1. \A q \in Requests : out.resp[q].gz # w
        BY <3>1, <3>3
      <4>2. out.writer[w].target = Discard
        BY <4>1 DEF IInv, PoolIsFree
      <4> QED
        BY <3>1, <3>3, <4>2
    <3> QED
      BY <3>2, <3>3
  <2> QED
    BY <1>7, <2>1, <2>2, <2>3 DEF PoolIsFree
<1>12. GoodNow(r)'
  BY <1>2, <1>7 DEF GoodNow
<1> QED
  BY <1>6, <1>7, <1>9, <1>10, <1>11, <1>12, OthersAreKept

\* What a request's step does to the gzip writers, once its response is p2: a
\* writer it has just got starts anew.
Given(r, p1, p2) ==
    [w \in Writers |-> IF w = p2.gz /\ p1.gz # w
                       THEN [target |-> r, held |-> <<>>] ELSE out.writer[w]]

\* What Updated does to a state of which only r's response, p1, is new.
LEMMA UpdatedIs ==
    ASSUME Shape, NEW r \in Requests, NEW p1, NEW p2, NEW o,
           o = [resp |-> [out.resp EXCEPT ![r] = p1], pool |-> out.pool,
                writer |-> out.writer]
    PROVE  Updated(o, r, p2) =
              [resp   |-> [out.resp EXCEPT ![r] = p2],
               pool   |-> out.pool \ {p2.gz},
               writer |-> Given(r, p1, p2)]
<1>1. o.resp[r] = p1
  BY DEF Shape
<1>2. [o.resp EXCEPT ![r] = p2] = [out.resp EXCEPT ![r] = p2]
  BY DEF Shape
<1>3. o.pool = out.pool /\ o.writer = out.writer
  OBVIOUS
<1>4. [w \in Writers |-> IF w = p2.gz /\ o.resp[r].gz # w
                         THEN [target |-> r, held |-> <<>>] ELSE o.writer[w]]
      = Given(r, p1, p2)
  BY <1>1, <1>3 DEF Given
<1>5. o = [resp |-> o.resp, pool |-> o.pool, writer |-> o.writer]
  OBVIOUS
<1>6. Updated(o, r, p2) =
         [resp   |-> [o.resp EXCEPT ![r] = p2],
          pool   |-> o.pool \ {p2.gz},
          writer |-> [w \in Writers |-> IF w = p2.gz /\ o.resp[r].gz # w
                         THEN [target |-> r, held |-> <<>>] ELSE o.writer[w]]]
  <2> DEFINE W == [w \in Writers |-> IF w = p2.gz /\ o.resp[r].gz # w
                         THEN [target |-> r, held |-> <<>>] ELSE o.writer[w]]
  <2>1. Updated(o, r, p2) = [o EXCEPT !.resp[r] = p2, !.pool = o.pool \ {p2.gz},
                                      !.writer = W]
    BY DEF Updated
  <2> HIDE DEF W
  <2>2. Updated(o, r, p2) = [resp |-> [o.resp EXCEPT ![r] = p2],
                             pool |-> o.pool \ {p2.gz}, writer |-> W]
    BY <1>5, <2>1
  <2> QED
    BY <2>2 DEF W
<1> QED
  BY <1>2, <1>3, <1>4, <1>6

-----------------------------------------------------------------------------
\* The invariant holds at first.
LEMMA InitIInv == Init => IInv
<1> SUFFICES ASSUME Init PROVE IInv
  OBVIOUS
<1>1. Shape
  BY DEF Init, NoOutput, Shape, WriterShape
<1>2. PoolIsFree
  <2>1. out.pool = {} /\ \A w \in Writers : out.writer[w].target = Discard
    BY DEF Init, NoOutput
  <2> QED
    BY <2>1 DEF PoolIsFree
<1>3. ASSUME NEW q \in Requests PROVE GoodNow(q)
  <2>1. /\ out.resp[q] = Blank(FALSE) /\ reply[q] = NoReply /\ phase[q] = "idle"
    BY DEF Init, NoOutput
  <2>2. ResponseShape(Blank(FALSE)) /\ Untouched(Blank(FALSE))
    BY DEF Blank, ResponseShape, Untouched
  <2>3. ReplyShape(NoReply)
    BY DEF NoReply, ReplyShape
  <2>4. Progress("idle", q, query[q].kind, NoReply, Blank(FALSE),
                 out.writer[Blank(FALSE).gz])
    BY <2>2 DEF Progress, Untouched, Working
  <2>5. Blank(FALSE).type \in Types /\ NoReply.type \in Types
    BY TypesAssumption DEF Blank, NoReply
  <2>6. "idle" \notin Sending
    BY DEF Sending
  <2> QED
    BY <2>1, <2>2, <2>3, <2>4, <2>5, <2>6, UntouchedIsGood, SoundElsewhere DEF GoodNow
<1> QED
  BY <1>1, <1>2, <1>3 DEF IInv

-----------------------------------------------------------------------------
\* The replies, when nothing has been written.

\* An error is a body of one piece, all of it still to be written.
LEMMA ErrorRemains ==
    ASSUME NEW r, NEW kind \in {"search", "lookup"}, NEW status \in Nat
    PROVE  /\ ReplyShape(handleError(r, status))
           /\ Remaining(r, kind, handleError(r, status), 0)
           /\ handleError(r, status).type \in Types
           /\ handleError(r, status).status = status
<1> DEFINE x == Piece(r, "error", <<>>)
<1>1. x.for = r
  BY DEF Piece
<1> HIDE DEF x
<1>2. IsSeq(<<x>>) /\ Len(<<x>>) = 1 /\ <<x>>[1] = x
  BY DEF IsSeq
<1>3. handleError(r, status) = [status |-> status, type |-> "json", length |-> 0,
                                pieces |-> <<x>>]
  BY DEF handleError, x
<1>4. handleError(r, status).type \in Types
  BY <1>3, ReplyTypesAssumption
<1> QED
  BY <1>1, <1>2, <1>3, <1>4 DEF ReplyShape, Remaining, Size, Fits

\* So is a result.
LEMMA DataRemains ==
    ASSUME NEW r, NEW kind \in {"search", "lookup"}, NEW content
    PROVE  /\ ReplyShape(writeJSON(r, content))
           /\ Remaining(r, kind, writeJSON(r, content), 0)
           /\ writeJSON(r, content).type \in Types
           /\ \A i \in 1 .. Len(writeJSON(r, content).pieces) :
                 writeJSON(r, content).pieces[i].of = content
<1> DEFINE x == Piece(r, "data", content)
<1>1. x.for = r /\ x.of = content
  BY DEF Piece
<1> HIDE DEF x
<1>2. IsSeq(<<x>>) /\ Len(<<x>>) = 1 /\ <<x>>[1] = x
  BY DEF IsSeq
<1>3. writeJSON(r, content) = [status |-> 0, type |-> "json", length |-> 0,
                               pieces |-> <<x>>]
  BY DEF writeJSON, x
<1>4. writeJSON(r, content).type \in Types
  BY <1>3, ReplyTypesAssumption
<1> QED
  BY <1>1, <1>2, <1>3, <1>4 DEF ReplyShape, Remaining, Size, Fits

\* A file has two pieces, in order, and their length is known.
LEMMA FileRemains ==
    ASSUME NEW r, NEW kind \in {"asset", "image"}, NEW type \in Types
    PROVE  /\ ReplyShape(serveContent(r, type)) /\ serveContent(r, type).type \in Types
           /\ Remaining(r, kind, serveContent(r, type), 0)
<1> DEFINE x == Piece(r, "first", <<>>)
           y == Piece(r, "second", <<>>)
<1>1. x.for = r /\ x.is = "first" /\ y.for = r /\ y.is = "second"
  BY DEF Piece
<1> HIDE DEF x, y
<1>2. IsSeq(<<x, y>>) /\ Len(<<x, y>>) = 2 /\ <<x, y>>[1] = x /\ <<x, y>>[2] = y
  BY DEF IsSeq
<1>3. serveContent(r, type) = [status |-> 200, type |-> type, length |-> 2,
                               pieces |-> <<x, y>>]
  BY DEF serveContent, x, y
<1>4. \A i \in 1 .. 2 : Fits(r, kind, 0 + i, <<x, y>>[i])
  BY <1>1, <1>2 DEF Fits
<1> QED
  BY <1>2, <1>3, <1>4 DEF ReplyShape, Remaining, Size

\* The fields of a reply whose status is set.
LEMMA StatusIsReplaced ==
    ASSUME NEW rep, NEW a, NEW b, NEW c, NEW d, NEW x,
           rep = [status |-> a, type |-> b, length |-> c, pieces |-> d]
    PROVE  [rep EXCEPT !.status = x] =
              [status |-> x, type |-> b, length |-> c, pieces |-> d]
  OBVIOUS

\* An unchanged file has no body.
LEMMA NothingRemains ==
    ASSUME NEW r
    PROVE  /\ ReplyShape([NoReply EXCEPT !.status = 304])
           /\ [NoReply EXCEPT !.status = 304].type \in Types
           /\ Remaining(r, "unchanged", [NoReply EXCEPT !.status = 304], 0)
<1> DEFINE none == <<>>
<1>1. Len(none) = 0 /\ 1 .. Len(none) = {} /\ IsSeq(none)
  BY EmptyFacts
<1>2. NoReply = [status |-> 0, type |-> "", length |-> 0, pieces |-> none]
  BY DEF NoReply
<1> HIDE DEF none
<1>3. [NoReply EXCEPT !.status = 304] =
         [status |-> 304, type |-> "", length |-> 0, pieces |-> none]
  <2> DEFINE zero == 0
             code == 304
             text == ""
  <2>1. NoReply = [status |-> zero, type |-> text, length |-> zero, pieces |-> none]
    BY <1>2
  <2> HIDE DEF zero, code, text
  <2>2. [NoReply EXCEPT !.status = code] =
           [status |-> code, type |-> text, length |-> zero, pieces |-> none]
    BY <2>1, StatusIsReplaced
  <2> QED
    BY <2>2 DEF zero, code, text
<1>4. Remaining(r, "unchanged",
         [status |-> 304, type |-> "", length |-> 0, pieces |-> none], 0)
  BY <1>1 DEF Remaining, Size
<1>5. ReplyShape([status |-> 304, type |-> "", length |-> 0, pieces |-> none])
  BY DEF ReplyShape
<1>6. [NoReply EXCEPT !.status = 304].type \in Types
  BY <1>3, TypesAssumption
<1> QED
  BY <1>3, <1>4, <1>5, <1>6, Zenon

\* A handler that has its reply has not written anything.
LEMMA ReplyIsGood ==
    ASSUME NEW ph, NEW q, NEW kind \in Kinds, NEW rep, NEW p, NEW wr,
           Good(ph, q, kind, rep, p, wr), ~p.decided,
           NEW rep2, ReplyShape(rep2), Remaining(q, kind, rep2, 0)
    PROVE  Good("replying", q, kind, rep2, p, wr)
<1>1. Untouched(p) /\ ResponseShape(p)
  BY DEF Good
<1>2. p.length = 0 /\ Written("replying", p, wr) = 0 /\ ~p.decided
  BY <1>1, EmptyFacts DEF Untouched, Written
<1>3. Progress("replying", q, kind, rep2, p, wr)
  BY <1>2 DEF Progress, Working
<1> QED
  BY <1>1, <1>3, UntouchedIsGood

\* Before the header, a request may be in any of the phases that lead to it.
LEMMA WorkIsGood ==
    ASSUME NEW ph, NEW q, NEW kind, NEW rep, NEW p, NEW wr,
           Good(ph, q, kind, rep, p, wr), ~p.decided, kind = "search",
           NEW to \in Working
    PROVE  Good(to, q, kind, rep, p, wr)
<1>1. Untouched(p) /\ ResponseShape(p) /\ ReplyShape(rep)
  BY DEF Good
<1>2. Progress(to, q, kind, rep, p, wr)
  BY DEF Progress, Working, Kinds
<1> QED
  BY <1>1, <1>2, UntouchedIsGood

\* Nor does it hold anything but the answer, or an error.
LEMMA ReplyIsSound ==
    ASSUME NEW ph, NEW q, NEW kind, NEW answer, NEW rep, NEW p, NEW wr,
           Good(ph, q, kind, rep, p, wr), Sound(ph, kind, answer, rep, p, wr), ~p.decided,
           NEW rep2, rep2.type \in Types,
           kind = "search" =>
              \/ rep2.status \notin {0, 200}
              \/ \A i \in 1 .. Len(rep2.pieces) : rep2.pieces[i].of = answer
    PROVE  Sound("replying", kind, answer, rep2, p, wr)
<1>1. p.gz = NoWriter /\ p.wire = <<>> /\ p.type \in Types
  BY DEF Good, Untouched, Sound
<1>2. 1 .. Len(p.wire) = {}
  BY <1>1, EmptyFacts
<1>3. CASE rep2.status \notin {0, 200}
  BY <1>1, <1>3 DEF Sound, Fails
<1>4. CASE \A i \in 1 .. Len(rep2.pieces) : rep2.pieces[i].of = answer
  BY <1>1, <1>2, <1>4 DEF Sound, Bears
<1>5. CASE kind # "search"
  BY <1>1, <1>5 DEF Sound
<1> QED
  BY <1>3, <1>4, <1>5

-----------------------------------------------------------------------------
\* The step of every action.

\* What an action does not assign is assigned to itself.
LEMMA SameQuery ==
    ASSUME Shape, NEW r \in Requests
    PROVE  /\ query = [query EXCEPT ![r] = query[r]]
           /\ reply = [reply EXCEPT ![r] = reply[r]]
           /\ phase = [phase EXCEPT ![r] = phase[r]]
<1>1. query = [query EXCEPT ![r] = query[r]]
  BY DEF Shape
<1>2. reply = [reply EXCEPT ![r] = reply[r]]
  BY DEF Shape
<1>3. phase = [phase EXCEPT ![r] = phase[r]]
  BY DEF Shape
<1> QED
  BY <1>1, <1>2, <1>3

\* r's handler has the reply rep.
LEMMA RepliesStep ==
    ASSUME IInv, NEW r \in Requests, NEW rep, Replies(r, rep),
           UNCHANGED <<out, query, zone>>, ~out.resp[r].decided, query[r].kind \in Kinds,
           ReplyShape(rep), Remaining(r, query[r].kind, rep, 0), rep.type \in Types,
           query[r].kind = "search" =>
              \/ rep.status \notin {0, 200}
              \/ \A i \in 1 .. Len(rep.pieces) :
                    rep.pieces[i].of = AnswerOf(zone, query[r])
    PROVE  IInv'
<1>1. GoodNow(r) /\ Shape
  BY DEF IInv
<1>2. Good("replying", r, query[r].kind, rep, out.resp[r],
           out.writer[out.resp[r].gz])
  BY <1>1, ReplyIsGood DEF GoodNow
<1>3. query' = [query EXCEPT ![r] = query[r]]
  BY <1>1, SameQuery
<1>4. Sound("replying", query[r].kind, AnswerOf(zone, query[r]), rep, out.resp[r],
            out.writer[out.resp[r].gz])
  BY <1>1, ReplyIsSound DEF GoodNow
<1> QED
  BY <1>2, <1>3, <1>4, OutIsKept DEF Replies, Goes

\* r's search goes on.
LEMMA WorkStep ==
    ASSUME IInv, NEW r \in Requests, NEW to \in Working, Goes(r, to),
           UNCHANGED <<out, query, reply, zone>>, ~out.resp[r].decided,
           query[r].kind = "search"
    PROVE  IInv'
<1>1. GoodNow(r) /\ Shape
  BY DEF IInv
<1>2. Good(to, r, query[r].kind, reply[r], out.resp[r],
           out.writer[out.resp[r].gz])
  BY <1>1, WorkIsGood DEF GoodNow
<1>3. query' = [query EXCEPT ![r] = query[r]] /\ reply' = [reply EXCEPT ![r] = reply[r]]
  BY <1>1, SameQuery
<1>4. Sound(to, query[r].kind, AnswerOf(zone, query[r]), reply[r], out.resp[r],
            out.writer[out.resp[r].gz])
  <2>1. to \notin Sending
    BY DEF Working, Sending
  <2> QED
    BY <1>1, <2>1, SoundElsewhere DEF GoodNow, Sound
<1> QED
  BY <1>2, <1>3, <1>4, OutIsKept DEF Goes

\* What the phase of a request says of it.
LEMMA PhaseTells ==
    ASSUME IInv, NEW r \in Requests
    PROVE  /\ phase[r] # "idle" => query[r].kind \in Kinds
           /\ phase[r] \in Working => query[r].kind = "search"
           /\ phase[r] \in {"idle", "validating"} \cup Working => ~out.resp[r].decided
  BY DEF IInv, GoodNow, Good, Progress

\* A refusal is answered with an error.
LEMMA RefuseStep ==
    ASSUME IInv, NEW r \in Requests, NEW status \in {400, 405}, Refuse(r, status)
    PROVE  IInv'
  BY RepliesStep, PhaseTells, ErrorRemains DEF Refuse

\* An accepted search goes on to the upstream service.
LEMMA AcceptStep ==
    ASSUME IInv, NEW r \in Requests, Accept(r)
    PROVE  IInv'
  BY WorkStep, PhaseTells DEF Accept, Working

\* An upstream failure is answered with an error.
LEMMA SearchFailsStep ==
    ASSUME IInv, NEW r \in Requests, SearchFails(r)
    PROVE  IInv'
  BY RepliesStep, PhaseTells, ErrorRemains DEF SearchFails, Working

\* A result is there, and nothing has been written.
LEMMA SearchSucceedsStep ==
    ASSUME IInv, NEW r \in Requests, SearchSucceeds(r)
    PROVE  IInv'
  BY WorkStep, PhaseTells DEF SearchSucceeds, Working

\* The loop over the stations ends; nothing has been written.
LEMMA EnrichedStep ==
    ASSUME IInv, NEW r \in Requests, Enriched(r)
    PROVE  IInv'
  BY WorkStep, PhaseTells DEF Enriched, Working

\* What is encoded at the end is the answer, shared or the request's own.
LEMMA EncodedIsAnswer ==
    ASSUME RInv, NEW r \in Requests, phase[r] = "encoding"
    PROVE  (IF results[r].shared THEN zone ELSE results[r].of) = AnswerOf(zone, query[r])
<1>1. Results("encoding", query[r], results[r], zone)
  BY DEF RInv
<1>2. CASE results[r].shared = TRUE /\ ~(query[r].fuel > 0)
  <2>1. \A i \in Indices : Selected(zone[i], query[r].fuel) = zone[i]
    <3> TAKE i \in Indices
    <3>1. zone[i] = [offers |-> zone[i].offers, selected |-> NoPrice]
      BY DEF RInv, StationShape
    <3> DEFINE x == zone[i]
    <3> HIDE DEF x
    <3>2. x = [offers |-> x.offers, selected |-> NoPrice]
      BY <3>1 DEF x
    <3>3. [x EXCEPT !.selected = NoPrice] = x
      BY <3>2
    <3>4. Selected(x, query[r].fuel) = [x EXCEPT !.selected = NoPrice]
      BY <1>2 DEF Selected
    <3> QED
      BY <3>3, <3>4 DEF x
  <2>2. AnswerOf(zone, query[r]) = zone
    BY <2>1 DEF AnswerOf, RInv
  <2> QED
    BY <1>2, <2>2
<1>3. CASE Begun(query[r], results[r], zone) /\ Len(results[r].of) = Stations
  <2> DEFINE s == results[r].of
  <2>1. /\ results[r].shared = FALSE /\ s = [i \in 1 .. Stations |-> s[i]]
        /\ \A i \in 1 .. Stations : s[i] = Selected(zone[i], query[r].fuel)
    BY <1>1, <1>3 DEF Begun, Results, ResultShape, IsSeq
  <2> HIDE DEF s
  <2>2. s = AnswerOf(zone, query[r])
    BY <2>1 DEF AnswerOf, Indices
  <2> QED
    BY <2>1, <2>2 DEF s
<1> QED
  BY <1>1, <1>2, <1>3 DEF Results

\* The result of a search is answered.
LEMMA EncodeStep ==
    ASSUME IInv, RInv, NEW r \in Requests, Encode(r)
    PROVE  IInv'
<1> DEFINE content == IF results[r].shared THEN zone ELSE results[r].of
<1>1. /\ phase[r] = "encoding" /\ Replies(r, writeJSON(r, content))
      /\ UNCHANGED <<out, query, zone>>
  BY DEF Encode
<1>2. content = AnswerOf(zone, query[r])
  BY <1>1, EncodedIsAnswer
<1> HIDE DEF content
<1>3. ~out.resp[r].decided /\ query[r].kind = "search" /\ query[r].kind \in Kinds
  BY <1>1, PhaseTells DEF Working, Kinds
<1>4. /\ ReplyShape(writeJSON(r, content))
      /\ Remaining(r, query[r].kind, writeJSON(r, content), 0)
      /\ writeJSON(r, content).type \in Types
      /\ \A i \in 1 .. Len(writeJSON(r, content).pieces) :
            writeJSON(r, content).pieces[i].of = AnswerOf(zone, query[r])
  BY <1>2, <1>3, DataRemains
<1> QED
  BY <1>1, <1>3, <1>4, RepliesStep

\* The other handlers answer with a result or an error.
LEMMA LookupStep ==
    ASSUME IInv, NEW r \in Requests, NEW status \in {200, 502}, Lookup(r, status)
    PROVE  IInv'
<1>1. ~out.resp[r].decided /\ query[r].kind = "lookup" /\ query[r].kind \in Kinds
  BY PhaseTells DEF Lookup, Kinds
<1>2. query[r].kind # "search" /\ UNCHANGED <<out, query, zone>>
  BY <1>1 DEF Lookup
<1>3. CASE Replies(r, writeJSON(r, <<>>))
  <2> DEFINE none == <<>>
             what == writeJSON(r, none)
  <2>1. Replies(r, what)
    BY <1>3
  <2> HIDE DEF none
  <2>2. /\ ReplyShape(what) /\ Remaining(r, query[r].kind, what, 0)
        /\ what.type \in Types
    BY <1>1, DataRemains
  <2> HIDE DEF what
  <2> QED
    BY <1>1, <1>2, <2>1, <2>2, RepliesStep
<1>4. CASE Replies(r, handleError(r, status))
  BY <1>1, <1>2, <1>4, RepliesStep, ErrorRemains
<1> QED
  BY <1>3, <1>4 DEF Lookup

\* A file is served from its first piece, or told to be unchanged.
LEMMA ServeFileStep ==
    ASSUME IInv, NEW r \in Requests, ServeFile(r)
    PROVE  IInv'
<1>1. ~out.resp[r].decided /\ query[r].kind \in Kinds
      /\ "html" \in Types /\ "png" \in Types
  BY PhaseTells, ReplyTypesAssumption DEF ServeFile
<1>2. CASE query[r].kind = "asset" /\ Replies(r, serveContent(r, "html"))
  BY <1>1, <1>2, RepliesStep, FileRemains DEF ServeFile
<1>3. CASE query[r].kind = "image" /\ Replies(r, serveContent(r, "png"))
  BY <1>1, <1>3, RepliesStep, FileRemains DEF ServeFile
<1>4. CASE query[r].kind = "unchanged" /\ Replies(r, [NoReply EXCEPT !.status = 304])
  BY <1>1, <1>4, RepliesStep, NothingRemains DEF ServeFile
<1> QED
  BY <1>2, <1>3, <1>4 DEF ServeFile

-----------------------------------------------------------------------------
\* The header and the pieces.

\* Untouched, but for a length that the handler has set.
Fresh(p) ==
    /\ p.decided = FALSE /\ p.passthrough = FALSE /\ p.gz = NoWriter
    /\ p.encoding = "" /\ p.vary = FALSE
    /\ p.sent = Unsent /\ p.wire = <<>>

\* d is the response p once it has been decided on, with w if it is compressed.
Decision(d, p, w) ==
    /\ ResponseShape(d) /\ d.decided = TRUE
    /\ d.sent = p.sent /\ d.wire = p.wire /\ d.type = p.type
    /\ d.length \in {0, p.length} /\ d.gz \in {NoWriter, w}
    /\ d.passthrough = (d.gz = NoWriter)
    /\ d.encoding = IF d.gz = NoWriter THEN "" ELSE "gzip"
    /\ d.gz # NoWriter => d.length = 0
    /\ d.vary = (d.type \in Compressible)

\* The decision of a fresh response.
LEMMA DecisionIs ==
    ASSUME NEW p, ResponseShape(p), Fresh(p), NEW w, w # NoWriter
    PROVE  Decision(decide(p, w), p, w)
<1> DEFINE d == decide(p, w)
<1>1. CASE p.type \notin Compressible
  <2>1. d = [p EXCEPT !.decided = TRUE, !.passthrough = TRUE]
    BY <1>1 DEF decide, Fresh
  <2> HIDE DEF d
  <2>2. d.decided = TRUE /\ d.passthrough = TRUE /\ d.gz = p.gz /\ d.vary = p.vary
        /\ d.encoding = p.encoding /\ d.length = p.length /\ d.type = p.type
        /\ d.wire = p.wire /\ d.sent = p.sent /\ ResponseShape(d)
    BY <2>1 DEF ResponseShape
  <2>3. d.gz = NoWriter /\ d.encoding = "" /\ d.vary = FALSE
    BY <2>2 DEF Fresh
  <2>4. d.passthrough = (d.gz = NoWriter)
    BY <2>2, <2>3
  <2>5. d.vary = (d.type \in Compressible)
    <3>1. (d.type \in Compressible) = FALSE
      BY <1>1, <2>2
    <3> QED
      BY <2>3, <3>1
  <2>6. Decision(d, p, w)
    BY <2>2, <2>3, <2>4, <2>5 DEF Decision
  <2> QED
    BY <2>6 DEF d
<1>2. CASE p.type \in Compressible /\ ~p.acceptsGzip
  <2>1. d = [p EXCEPT !.decided = TRUE, !.vary = TRUE, !.passthrough = TRUE]
    BY <1>2 DEF decide, Fresh
  <2> HIDE DEF d
  <2>2. d.decided = TRUE /\ d.passthrough = TRUE /\ d.gz = p.gz /\ d.vary = TRUE
        /\ d.encoding = p.encoding /\ d.length = p.length /\ d.type = p.type
        /\ d.wire = p.wire /\ d.sent = p.sent /\ ResponseShape(d)
    BY <2>1 DEF ResponseShape
  <2> QED
    BY <1>2, <2>2 DEF Fresh, d, Decision
<1>3. CASE p.type \in Compressible /\ p.acceptsGzip
  <2>1. d = [p EXCEPT !.decided = TRUE, !.vary = TRUE, !.length = 0,
                      !.encoding = "gzip", !.gz = w]
    BY <1>3 DEF decide, Fresh
  <2> HIDE DEF d
  <2>2. d.decided = TRUE /\ d.passthrough = p.passthrough /\ d.gz = w /\ d.vary = TRUE
        /\ d.encoding = "gzip" /\ d.length = 0 /\ d.type = p.type
        /\ d.wire = p.wire /\ d.sent = p.sent /\ ResponseShape(d)
    BY <2>1 DEF ResponseShape
  <2>3. d.passthrough = FALSE /\ d.gz # NoWriter
    BY <2>2 DEF Fresh
  <2>4. d.passthrough = (d.gz = NoWriter)
    BY <2>3
  <2>5. d.vary = (d.type \in Compressible)
    BY <1>3, <2>2
  <2>6. d.encoding = IF d.gz = NoWriter THEN "" ELSE "gzip"
    BY <2>2, <2>3
  <2>7. Decision(d, p, w)
    BY <2>2, <2>4, <2>5, <2>6 DEF Decision
  <2> QED
    BY <2>7 DEF d
<1> QED
  BY <1>1, <1>2, <1>3

\* A header that has left stays as it is.
LEMMA SettledIsSent ==
    ASSUME NEW p, Settled(p), p.decided, NEW w, NEW status
    PROVE  decide(p, w) = p /\ SendHeader(p, status) = p /\ p.sent # Unsent
<1>1. p.sent # Unsent
  <2>1. Unsent.status = 0
    BY DEF Unsent
  <2>2. p.sent.status # 0
    BY DEF Settled
  <2> QED
    BY <2>1, <2>2
<1> QED
  BY <1>1 DEF decide, SendHeader

\* h is the response p, fresh, once its header has left, with w if compressed.
Headed(h, p, w) ==
    /\ ResponseShape(h) /\ h.decided = TRUE /\ Settled(h)
    /\ h.wire = <<>> /\ h.length \in {0, p.length} /\ h.gz \in {NoWriter, w}
    /\ h.gz = decide(p, w).gz /\ h.passthrough = decide(p, w).passthrough
    /\ h.type = p.type

\* What leaves later does not change that.
LEMMA SettledIsKept ==
    ASSUME NEW p, Settled(p), NEW n, n.sent = p.sent, n.type = p.type,
           n.encoding = p.encoding, n.length = p.length, n.vary = p.vary,
           n.gz = p.gz, n.passthrough = p.passthrough
    PROVE  Settled(n)
<1>1. n.passthrough = (n.gz = NoWriter) /\ n.vary = (n.type \in Compressible)
  BY DEF Settled
<1>2. n.sent = [status |-> n.sent.status, type |-> n.type, encoding |-> n.encoding,
                length |-> n.length, vary |-> n.vary] /\ n.sent.status # 0
  BY DEF Settled
<1>3. n.encoding = (IF n.gz = NoWriter THEN "" ELSE "gzip")
      /\ (n.gz # NoWriter => n.length = 0)
  BY DEF Settled
<1> QED
  BY <1>1, <1>2, <1>3 DEF Settled

\* The header leaves, and the response is settled.
LEMMA HeaderLeaves ==
    ASSUME NEW p, ResponseShape(p), Fresh(p), NEW w, w # NoWriter,
           NEW status, status # 0
    PROVE  /\ Headed(SendHeader(decide(p, w), status), p, w)
           /\ SendHeader(decide(p, w), status).sent.status = status
<1> DEFINE d == decide(p, w)
           h == SendHeader(d, status)
           sent == [status |-> status, type |-> d.type, encoding |-> d.encoding,
                    length |-> d.length, vary |-> d.vary]
<1>1. Decision(d, p, w) /\ p.sent = Unsent /\ p.wire = <<>>
  BY DecisionIs DEF Fresh
<1> HIDE DEF d
<1>2. h = [d EXCEPT !.sent = sent]
  BY <1>1 DEF SendHeader, Decision
<1>3. /\ sent.status = status /\ sent.type = d.type /\ sent.encoding = d.encoding
      /\ sent.length = d.length /\ sent.vary = d.vary
      /\ sent = [status |-> sent.status, type |-> d.type, encoding |-> d.encoding,
                 length |-> d.length, vary |-> d.vary]
  OBVIOUS
<1> HIDE DEF h, sent
<1>4. /\ ResponseShape(h) /\ h.decided = d.decided /\ h.sent = sent
      /\ h.wire = d.wire /\ h.type = d.type /\ h.length = d.length /\ h.gz = d.gz
      /\ h.passthrough = d.passthrough /\ h.encoding = d.encoding /\ h.vary = d.vary
  BY <1>1, <1>2 DEF ResponseShape, Decision
<1>5. Settled(h)
  BY <1>1, <1>3, <1>4 DEF Settled, Decision
<1>6. /\ ResponseShape(h) /\ h.decided = TRUE /\ Settled(h)
      /\ h.wire = <<>> /\ h.length \in {0, p.length}
      /\ h.gz \in {NoWriter, w} /\ h.gz = d.gz /\ h.passthrough = d.passthrough
      /\ h.type = p.type
  BY <1>1, <1>4, <1>5 DEF Decision
<1>7. h.sent.status = status
  BY <1>3, <1>4
<1> QED
  BY <1>6, <1>7 DEF h, d, Headed

\* n is the response p with its header sent, the same as before if it had been.
Keeps(n, p, type) ==
    n.decided = TRUE /\ n.type = type /\ (p.decided => n.sent = p.sent)

\* What a sequence holds.
Elements(s) == {s[i] : i \in 1 .. Len(s)}

\* What is on n's wire or held for n was so for p, or is among more.
Passes(p, wr, n, wr2, more) ==
    /\ \A i \in 1 .. Len(n.wire) :
          \/ n.wire[i].piece \in more
          \/ \E j \in 1 .. Len(p.wire) : n.wire[i].piece = p.wire[j].piece
    /\ n.gz # NoWriter =>
          \A i \in 1 .. Len(wr2.held) :
             \/ wr2.held[i] \in more
             \/ /\ p.gz # NoWriter
                /\ \E j \in 1 .. Len(wr.held) : wr2.held[i] = wr.held[j]

\* A response whose pieces have been passed on so bears what it did.
LEMMA PassesOn ==
    ASSUME NEW rep, NEW p, NEW wr, NEW rep2, NEW n, NEW wr2, NEW more, NEW answer,
           Bears(answer, rep, p, wr), Passes(p, wr, n, wr2, more),
           \A x \in more : x.of = answer,
           \A i \in 1 .. Len(rep2.pieces) : rep2.pieces[i].of = answer
    PROVE  Bears(answer, rep2, n, wr2)
<1>1. \A i \in 1 .. Len(n.wire) : n.wire[i].piece.of = answer
  BY DEF Bears, Passes
<1>2. n.gz # NoWriter => \A i \in 1 .. Len(wr2.held) : wr2.held[i].of = answer
  BY DEF Bears, Passes
<1> QED
  BY <1>1, <1>2 DEF Bears

\* The handler sends the header of its reply.
StatusLeaves(q, rep, p, w, p1, rep2, h, wr2) ==
    /\ p1 = [p EXCEPT !.type = rep.type, !.length = rep.length]
    /\ h = SendHeader(decide(p1, w), rep.status)
    /\ rep2 = [rep EXCEPT !.status = 0]
    /\ h.gz # NoWriter => wr2 = [target |-> q, held |-> <<>>]

\* WriteHeader settles the header by the type and the length just set; the
\* whole body is still to come.
LEMMA StatusIsGood ==
    ASSUME NEW q, NEW kind, NEW rep, NEW p, NEW wr,
           Good("replying", q, kind, rep, p, wr), rep.status # 0,
           NEW w \in Writers, NEW p1, NEW rep2, NEW h, NEW wr2,
           StatusLeaves(q, rep, p, w, p1, rep2, h, wr2)
    PROVE  Good("replying", q, kind, rep2, h, wr2) /\ p.gz = NoWriter /\ h.gz \in {NoWriter, w}
<1> USE DEF StatusLeaves
<1>1. /\ ResponseShape(p) /\ ReplyShape(rep) /\ kind \in Kinds
      /\ Untouched(p) /\ Remaining(q, kind, rep, Written("replying", p, wr))
  BY DEF Good, Progress
<1>2. Written("replying", p, wr) = 0
  BY <1>1, EmptyFacts DEF Untouched, Written
<1>3. ResponseShape(p1) /\ Fresh(p1) /\ p1.length = rep.length
  BY <1>1 DEF ResponseShape, Untouched, Fresh
<1>4. w # NoWriter
  BY NamesAssumption
<1>5. /\ ResponseShape(h) /\ h.decided = TRUE /\ Settled(h)
      /\ h.wire = <<>> /\ h.length \in {0, rep.length} /\ h.gz \in {NoWriter, w}
  <2>1. Headed(h, p1, w)
    BY <1>3, <1>4, HeaderLeaves
  <2> QED
    BY <1>3, <2>1 DEF Headed
<1>6. Len(h.wire) = 0 /\ IsSeq(h.wire) /\ 1 .. Len(h.wire) = {}
  BY <1>5, EmptyFacts
<1>7. h.gz # NoWriter => /\ wr2.target = q /\ Len(wr2.held) = 0 /\ IsSeq(wr2.held)
                         /\ 1 .. Len(wr2.held) = {}
  <2> DEFINE none == <<>>
  <2>1. Len(none) = 0 /\ IsSeq(none) /\ 1 .. Len(none) = {}
    BY EmptyFacts
  <2>2. h.gz # NoWriter => wr2.target = q /\ wr2.held = none
    OBVIOUS
  <2> HIDE DEF none
  <2> QED
    BY <2>1, <2>2
<1>8. Body("replying", q, kind, h, wr2)
  BY <1>5, <1>6, <1>7, Zenon DEF Body
<1>9. Written("replying", h, wr2) = 0
  BY <1>6, <1>7 DEF Written
<1>10. /\ ReplyShape(rep2) /\ rep2.status = 0 /\ rep2.pieces = rep.pieces
       /\ rep2.length = rep.length
  BY <1>1 DEF ReplyShape
<1>11. Remaining(q, kind, rep2, 0)
  BY <1>1, <1>2, <1>10 DEF Remaining
<1>12. h.length \in {0, Size(kind)}
  BY <1>5, <1>1 DEF Remaining
<1>13. Progress("replying", q, kind, rep2, h, wr2)
  BY <1>1, <1>9, <1>10, <1>11, <1>12 DEF Progress, Working
<1> QED
  BY <1>1, <1>5, <1>8, <1>10, <1>13 DEF Good, Untouched

\* The status that leaves is the reply's, and nothing else does.
LEMMA StatusIsSound ==
    ASSUME NEW q, NEW kind, NEW answer, NEW rep, NEW p, NEW wr,
           Good("replying", q, kind, rep, p, wr),
           Sound("replying", kind, answer, rep, p, wr), rep.status # 0,
           NEW w \in Writers, NEW p1, NEW rep2, NEW h, NEW wr2,
           StatusLeaves(q, rep, p, w, p1, rep2, h, wr2)
    PROVE  Sound("replying", kind, answer, rep2, h, wr2)
<1> USE DEF StatusLeaves
<1>1. ResponseShape(p) /\ ReplyShape(rep) /\ Untouched(p) /\ p.decided = FALSE
  BY DEF Good, Progress, Untouched
<1>2. ResponseShape(p1) /\ Fresh(p1) /\ p1.type = rep.type
  BY <1>1 DEF ResponseShape, Untouched, Fresh
<1>3. Headed(h, p1, w) /\ h.sent.status = rep.status
  BY <1>2, NamesAssumption, HeaderLeaves
<1>4. h.decided = TRUE /\ h.type = rep.type /\ h.wire = <<>>
  BY <1>2, <1>3 DEF Headed
<1>5. rep2.pieces = rep.pieces /\ rep2.type = rep.type
  BY <1>1 DEF ReplyShape
<1>6. CASE kind = "search" /\ Fails(rep, p)
  <2>1. Fails(rep2, h)
    BY <1>1, <1>3, <1>4, <1>6 DEF Fails
  <2> QED
    BY <1>4, <1>5, <2>1 DEF Sound
<1>7. CASE kind = "search" /\ Bears(answer, rep, p, wr)
  <2> DEFINE none == <<>>
  <2>1. 1 .. Len(none) = {} /\ h.wire = none
    BY <1>4, EmptyFacts
  <2>2. h.gz # NoWriter => wr2.held = none
    OBVIOUS
  <2> HIDE DEF none
  <2>3. Bears(answer, rep2, h, wr2)
    BY <1>5, <1>7, <2>1, <2>2 DEF Bears
  <2> QED
    BY <1>4, <1>5, <2>3 DEF Sound
<1>8. CASE kind # "search"
  BY <1>4, <1>5, <1>8 DEF Sound
<1> QED
  BY <1>6, <1>7, <1>8 DEF Sound, Sending

\* n is the response p after some more has left.
Longer(n, p, pieces, how) ==
    /\ n = [p EXCEPT !.wire = n.wire]
    /\ IsSeq(n.wire) /\ Len(n.wire) = Len(p.wire) + Len(pieces)
    /\ \A i \in 1 .. Len(p.wire) : n.wire[i] = p.wire[i]
    /\ \A i \in 1 .. Len(pieces) :
          n.wire[Len(p.wire) + i] = [piece |-> pieces[i], how |-> how]

\* The pieces a response sends follow those on its wire.
LEMMA SendsIs ==
    ASSUME NEW p, ResponseShape(p), p.sent # Unsent, IsSeq(p.wire),
           NEW pieces, IsSeq(pieces), NEW how
    PROVE  Longer(Sends(p, pieces, how), p, pieces, how)
<1> DEFINE n == Sends(p, pieces, how)
           t == [i \in 1 .. Len(pieces) |-> [piece |-> pieces[i], how |-> how]]
<1>1. Len(pieces) \in Nat
  BY DEF IsSeq
<1>2. /\ IsSeq(t) /\ Len(t) = Len(pieces)
      /\ \A i \in 1 .. Len(pieces) : t[i] = [piece |-> pieces[i], how |-> how]
  <2>1. Len(t) = Len(pieces)
    BY <1>1
  <2> QED
    BY <1>1, <2>1 DEF IsSeq
<1>3. n = [p EXCEPT !.wire = p.wire \o t]
  BY DEF Sends, SendHeader
<1> HIDE DEF t, n
<1>4. n.wire = p.wire \o t
  BY <1>3 DEF ResponseShape
<1>5. n = [p EXCEPT !.wire = n.wire]
  BY <1>3, <1>4
<1>6. /\ IsSeq(n.wire) /\ Len(n.wire) = Len(p.wire) + Len(pieces)
      /\ \A i \in 1 .. Len(p.wire) : n.wire[i] = p.wire[i]
      /\ \A i \in 1 .. Len(pieces) : n.wire[Len(p.wire) + i] = t[i]
  <2>1. Joined(p.wire \o t, p.wire, t)
    BY <1>2, ConcatFacts
  <2> QED
    BY <1>2, <1>4, <2>1 DEF Joined
<1>7. \A i \in 1 .. Len(pieces) :
         n.wire[Len(p.wire) + i] = [piece |-> pieces[i], how |-> how]
  BY <1>2, <1>6
<1> QED
  BY <1>5, <1>6, <1>7 DEF n, Longer

\* rep2 is what is left of the reply rep.
LeftOf(rep2, rep) ==
    /\ rep2.type = rep.type
    /\ \E j \in 1 .. Len(rep.pieces) : Head(rep.pieces) = rep.pieces[j]
    /\ \A i \in 1 .. Len(rep2.pieces) :
          \E j \in 1 .. Len(rep.pieces) : rep2.pieces[i] = rep.pieces[j]

\* With its first piece gone, a reply still has the rest.
LEMMA RemainingShrinks ==
    ASSUME NEW q, NEW kind, NEW rep, NEW m \in Nat, Remaining(q, kind, rep, m),
           ReplyShape(rep), rep.status = 0, rep.pieces # <<>>,
           NEW rep2, rep2 = [rep EXCEPT !.pieces = Tail(rep.pieces)]
    PROVE  /\ ReplyShape(rep2) /\ rep2.status = 0
           /\ Remaining(q, kind, rep2, m + 1)
           /\ Fits(q, kind, m + 1, Head(rep.pieces))
           /\ LeftOf(rep2, rep)
<1> DEFINE s == rep.pieces
           t == Tail(s)
           first == Head(s)
<1>1. /\ ReplyShape(rep2) /\ rep2.status = 0 /\ rep2.pieces = t
      /\ rep2.length = rep.length /\ rep2.type = rep.type
  BY DEF ReplyShape
<1>2. /\ IsSeq(t) /\ Len(t) = Len(s) - 1 /\ Len(s) > 0 /\ first = s[1]
      /\ \A i \in 1 .. Len(s) - 1 : t[i] = s[i + 1]
  BY TailFacts DEF Remaining
<1>3. Len(s) \in Nat /\ m + Len(s) = Size(kind)
      /\ \A i \in 1 .. Len(s) : Fits(q, kind, m + i, s[i])
  BY DEF Remaining, IsSeq
<1> HIDE DEF s, t, first
<1>4. Fits(q, kind, m + 1, first)
  BY <1>2, <1>3
<1>5. \A i \in 1 .. Len(t) : Fits(q, kind, (m + 1) + i, t[i])
  <2> TAKE i \in 1 .. Len(t)
  <2>1. i + 1 \in 1 .. Len(s) /\ t[i] = s[i + 1] /\ (m + 1) + i = m + (i + 1)
    BY <1>2, <1>3
  <2>2. Fits(q, kind, m + (i + 1), s[i + 1])
    BY <1>3, <2>1
  <2> QED
    BY <2>1, <2>2
<1>6. (m + 1) + Len(t) = Size(kind)
  BY <1>2, <1>3
<1>7. rep2.length \in {0, Size(kind)}
  BY <1>1 DEF Remaining
<1>8. Remaining(q, kind, rep2, m + 1)
  BY <1>1, <1>2, <1>5, <1>6, <1>7 DEF Remaining
<1>9. \E j \in 1 .. Len(s) : first = s[j]
  BY <1>2, <1>3
<1>10. \A i \in 1 .. Len(t) : \E j \in 1 .. Len(s) : t[i] = s[j]
  <2> TAKE i \in 1 .. Len(t)
  <2>1. i + 1 \in 1 .. Len(s) /\ t[i] = s[i + 1]
    BY <1>2, <1>3
  <2> QED
    BY <2>1
<1> QED
  BY <1>1, <1>4, <1>8, <1>9, <1>10 DEF first, s, LeftOf

\* p1 is the response p, with another type if its header has not left.
Typed(p1, p) == IF p.decided THEN p1 = p ELSE ResponseShape(p1) /\ Untouched(p1)

\* h is the response p, decided on as d, when its header has left at the latest.
HasHeader(h, d, p, w, kind) ==
    /\ ResponseShape(h) /\ h.decided = TRUE /\ Settled(h)
    /\ h.wire = p.wire /\ h.length \in {0, Size(kind)}
    /\ d.gz = h.gz /\ d.passthrough = h.passthrough
    /\ p.decided => h = p /\ d = p
    /\ ~p.decided => h.gz \in {NoWriter, w} /\ p.gz = NoWriter /\ p.wire = <<>>

\* Whoever writes has, or gets now, a response whose header has left.
LEMMA HeaderIsThere ==
    ASSUME NEW q, NEW kind, NEW rep, NEW p, NEW wr,
           Good("replying", q, kind, rep, p, wr),
           NEW p1, Typed(p1, p),
           NEW w, ~p.decided => w \in Writers,
           NEW d, d = decide(p1, w), NEW h, h = SendHeader(d, 200)
    PROVE  HasHeader(h, d, p, w, kind) /\ Keeps(h, p, p1.type)
<1>1. p.length \in {0, Size(kind)} /\ ResponseShape(p)
  BY DEF Good, Progress
<1>2. CASE p.decided
  <2>1. p1 = p /\ Settled(p) /\ p.decided = TRUE
    BY <1>2 DEF Good, Typed
  <2>2. d = p /\ h = p
    BY <1>2, <2>1, SettledIsSent
  <2> QED
    BY <1>1, <1>2, <2>1, <2>2 DEF HasHeader, Keeps
<1>3. CASE ~p.decided
  <2>1. ResponseShape(p1) /\ Untouched(p1) /\ Untouched(p) /\ w # NoWriter
    BY <1>3, NamesAssumption DEF Good, Typed
  <2>2. Fresh(p1) /\ p1.length = 0 /\ p.wire = <<>> /\ p.gz = NoWriter
    BY <2>1 DEF Untouched, Fresh
  <2>3. Headed(h, p1, w)
    BY <2>1, <2>2, HeaderLeaves
  <2> QED
    BY <1>3, <2>2, <2>3 DEF Headed, HasHeader, Keeps
<1> QED
  BY <1>2, <1>3

\* The next piece of the reply is written, after which rep2 is left of it.
PieceIsNext(q, kind, rep, p, wr, p1, w, d, h, rep2) ==
    /\ Good("replying", q, kind, rep, p, wr)
    /\ rep.status = 0 /\ rep.pieces # <<>>
    /\ Typed(p1, p) /\ (~p.decided => w \in Writers)
    /\ d = decide(p1, w) /\ h = SendHeader(d, 200)
    /\ rep2 = [rep EXCEPT !.pieces = Tail(rep.pieces)]

\* A piece leaves as it is.
PlainIsNext(q, kind, rep, p, wr, p1, w, d, h, rep2, n) ==
    /\ PieceIsNext(q, kind, rep, p, wr, p1, w, d, h, rep2)
    /\ d.passthrough = TRUE
    /\ n = Sends(d, <<Head(rep.pieces)>>, "plain")

\* A piece that is not compressed is the next one on the wire.
LEMMA PlainPieceIsGood ==
    ASSUME NEW q, NEW kind, NEW rep, NEW p, NEW wr, NEW p1, NEW w, NEW d, NEW h,
           NEW rep2, NEW n, PlainIsNext(q, kind, rep, p, wr, p1, w, d, h, rep2, n),
           NEW wr2
    PROVE  /\ Good("replying", q, kind, rep2, n, wr2) /\ p.gz = NoWriter /\ n.gz = NoWriter
           /\ Keeps(n, p, p1.type) /\ Passes(p, wr, n, wr2, {Head(rep.pieces)})
<1> USE DEF PieceIsNext, PlainIsNext
<1> DEFINE x == Head(rep.pieces)
           m == Len(p.wire)
<1>0. HasHeader(h, d, p, w, kind)
  BY HeaderIsThere
<1>1. /\ ResponseShape(h) /\ h.decided = TRUE /\ Settled(h)
      /\ h.wire = p.wire /\ h.length \in {0, Size(kind)}
      /\ d.passthrough = h.passthrough
      /\ p.decided => h = p /\ d = p
      /\ ~p.decided => p.gz = NoWriter /\ p.wire = <<>>
  BY <1>0 DEF HasHeader
<1>2. h.gz = NoWriter /\ p.gz = NoWriter /\ h.encoding = ""
  <2>1. h.passthrough = TRUE
    BY <1>1
  <2>2. h.passthrough = (h.gz = NoWriter)
    BY <1>1 DEF Settled
  <2>3. h.gz = NoWriter
    BY <2>1, <2>2
  <2>4. h.encoding = ""
    BY <1>1, <2>3, ZenonT(40) DEF Settled
  <2> QED
    BY <1>1, <2>3, <2>4
<1>3. h.sent # Unsent /\ SendHeader(h, 200) = h
  BY <1>1, SettledIsSent
<1>4. n = Sends(h, <<x>>, "plain")
  <2>1. n = [h EXCEPT !.wire = h.wire \o [i \in 1 .. Len(<<x>>) |->
                [piece |-> <<x>>[i], how |-> "plain"]]]
    BY DEF Sends
  <2> QED
    BY <1>3, <2>1, ZenonT(40) DEF Sends
<1>5. /\ IsSeq(p.wire) /\ ReplyShape(rep) /\ kind \in Kinds
      /\ \A i \in 1 .. m : Fits(q, kind, i, p.wire[i].piece)
      /\ \A i \in 1 .. m : p.wire[i].how = IF p.encoding = "gzip" THEN "gzip" ELSE "plain"
      /\ Remaining(q, kind, rep, m)
  BY <1>2, ZenonT(40) DEF Good, Body, Progress, Written
<1>6. \A i \in 1 .. m : p.wire[i].how = "plain"
  <2>1. CASE p.decided
    <3>1. p.encoding = ""
      BY <1>1, <1>2, <2>1
    <3>2. "" # "gzip"
      OBVIOUS
    <3> QED
      BY <1>5, <3>1, <3>2
  <2>2. CASE ~p.decided
    <3>1. 1 .. m = {}
      BY <1>1, <2>2, EmptyFacts
    <3> QED
      BY <3>1
  <2> QED
    BY <2>1, <2>2
<1> HIDE DEF x
<1>7. IsSeq(<<x>>) /\ Len(<<x>>) = 1 /\ <<x>>[1] = x
  BY DEF IsSeq
<1>8. Longer(n, h, <<x>>, "plain")
  BY <1>1, <1>3, <1>4, <1>5, <1>7, SendsIs
<1>9. m \in Nat
  BY <1>5 DEF IsSeq
<1>10. /\ ReplyShape(rep2) /\ rep2.status = 0
       /\ Remaining(q, kind, rep2, m + 1) /\ Fits(q, kind, m + 1, x)
  BY <1>5, <1>9, RemainingShrinks DEF x
<1>11. /\ IsSeq(n.wire) /\ Len(n.wire) = m + 1
       /\ \A i \in 1 .. m : n.wire[i] = p.wire[i]
       /\ n.wire[m + 1] = [piece |-> x, how |-> "plain"]
  BY <1>1, <1>7, <1>8 DEF Longer
<1>12. n = [h EXCEPT !.wire = n.wire]
  BY <1>8 DEF Longer
<1>13. /\ ResponseShape(n) /\ n.decided = h.decided /\ n.sent = h.sent
       /\ n.type = h.type /\ n.length = h.length /\ n.gz = h.gz
       /\ n.passthrough = h.passthrough /\ n.encoding = h.encoding /\ n.vary = h.vary
  BY <1>1, <1>12 DEF ResponseShape
<1>14. Settled(n)
  BY <1>1, <1>13, SettledIsKept
<1>15. \A i \in 1 .. Len(n.wire) :
          Fits(q, kind, i, n.wire[i].piece) /\ n.wire[i].how = "plain"
  <2> TAKE i \in 1 .. Len(n.wire)
  <2>1. CASE i = m + 1
    BY <1>10, <1>11, <2>1
  <2>2. CASE i \in 1 .. m
    BY <1>5, <1>6, <1>11, <2>2
  <2> QED
    BY <1>9, <1>11, <2>1, <2>2
<1>16. Body("replying", q, kind, n, wr2)
  <2>1. n.gz = NoWriter /\ n.encoding # "gzip"
    BY <1>2, <1>13, ZenonT(40)
  <2> QED
    BY <1>11, <1>15, <2>1 DEF Body
<1>17. Written("replying", n, wr2) = m + 1
  BY <1>2, <1>11, <1>13, ZenonT(40) DEF Written
<1>18. Progress("replying", q, kind, rep2, n, wr2)
  BY <1>1, <1>5, <1>10, <1>13, <1>17 DEF Progress, Working
<1>19. Keeps(n, p, p1.type)
  <2>1. Keeps(h, p, p1.type)
    BY HeaderIsThere
  <2> QED
    BY <1>13, <2>1 DEF Keeps
<1>20. Passes(p, wr, n, wr2, {x})
  <2>1. ASSUME NEW i \in 1 .. Len(n.wire)
        PROVE  \/ n.wire[i].piece = x
               \/ \E j \in 1 .. Len(p.wire) : n.wire[i].piece = p.wire[j].piece
    BY <1>9, <1>11
  <2>2. n.gz = NoWriter
    BY <1>2, <1>13
  <2> QED
    BY <2>1, <2>2 DEF Passes
<1>21. Good("replying", q, kind, rep2, n, wr2)
  BY <1>1, <1>2, <1>10, <1>13, <1>14, <1>16, <1>18 DEF Good
<1> QED
  BY <1>2, <1>13, <1>19, <1>20, <1>21, ZenonT(40) DEF x

\* The gzip writer wr, or a new one wr1, becomes wr2 when it gets the piece.
WriterGets(q, rep, p, wr, wr1, wr2) ==
    /\ IF p.gz = NoWriter THEN wr1 = [target |-> q, held |-> <<>>]
                          ELSE wr1 = wr /\ WriterShape(wr)
    /\ wr2 = [wr1 EXCEPT !.held = Append(wr1.held, Head(rep.pieces))]

\* A piece goes to the gzip writer, which is the response's own.
GzipIsNext(q, kind, rep, p, wr, p1, w, d, h, rep2, wr1, wr2) ==
    /\ PieceIsNext(q, kind, rep, p, wr, p1, w, d, h, rep2)
    /\ d.passthrough = FALSE
    /\ WriterGets(q, rep, p, wr, wr1, wr2)

\* A piece that is compressed is the next one the request's own writer holds.
LEMMA GzipPieceIsGood ==
    ASSUME NEW q, NEW kind, NEW rep, NEW p, NEW wr, NEW p1, NEW w, NEW d, NEW h,
           NEW rep2, NEW wr1, NEW wr2,
           GzipIsNext(q, kind, rep, p, wr, p1, w, d, h, rep2, wr1, wr2)
    PROVE  /\ Good("replying", q, kind, rep2, h, wr2) /\ WriterShape(wr2)
           /\ h.gz \in Writers /\ d.gz = h.gz /\ (p.decided => h.gz = p.gz)
           /\ (~p.decided => h.gz = w) /\ wr2.target = q
           /\ Keeps(h, p, p1.type) /\ Passes(p, wr, h, wr2, {Head(rep.pieces)})
<1> USE DEF PieceIsNext, WriterGets, GzipIsNext
<1> DEFINE x == Head(rep.pieces)
           m == Written("replying", p, wr)
<1>0. HasHeader(h, d, p, w, kind)
  BY HeaderIsThere
<1>1. /\ ResponseShape(h) /\ h.decided = TRUE /\ Settled(h)
      /\ h.wire = p.wire /\ h.length \in {0, Size(kind)}
      /\ d.gz = h.gz /\ d.passthrough = h.passthrough
      /\ p.decided => h = p /\ d = p
      /\ ~p.decided => h.gz \in {NoWriter, w} /\ p.gz = NoWriter /\ p.wire = <<>>
  BY <1>0 DEF HasHeader
<1>2. h.gz # NoWriter
  <2>1. h.passthrough = FALSE
    BY <1>1
  <2>2. h.passthrough = (h.gz = NoWriter)
    BY <1>1 DEF Settled
  <2> QED
    BY <2>1, <2>2
<1>3. /\ ReplyShape(rep) /\ kind \in Kinds /\ Remaining(q, kind, rep, m)
      /\ Body("replying", q, kind, p, wr)
  BY DEF Good, Progress
<1>4. /\ WriterShape(wr1) /\ wr1.target = q /\ IsSeq(wr1.held) /\ Len(wr1.held) = m
      /\ \A i \in 1 .. m : Fits(q, kind, i, wr1.held[i])
      /\ h.gz \in Writers /\ h.wire = <<>>
  <2>1. CASE p.decided
    <3>1. p.gz # NoWriter /\ wr1 = wr /\ WriterShape(wr) /\ h = p
      BY <1>1, <1>2, <2>1
    <3>2. m = Len(wr.held)
      BY <3>1 DEF Written
    <3>3. /\ p.gz \in Writers /\ wr.target = q /\ IsSeq(wr.held) /\ p.wire = <<>>
          /\ \A i \in 1 .. Len(wr.held) : Fits(q, kind, i, wr.held[i])
      BY <1>3, <3>1 DEF Body
    <3> QED
      BY <3>1, <3>2, <3>3
  <2>2. CASE ~p.decided
    <3> DEFINE none == <<>>
    <3>1. Len(none) = 0 /\ IsSeq(none) /\ 1 .. 0 = {}
      BY EmptyFacts
    <3>2. p.gz = NoWriter /\ p.wire = none /\ h.gz = w /\ w \in Writers
      BY <1>1, <1>2, <2>2
    <3>3. wr1 = [target |-> q, held |-> none]
      BY <3>2
    <3> HIDE DEF none
    <3>4. m = 0
      BY <3>1, <3>2 DEF Written
    <3>5. WriterShape(wr1) /\ wr1.target = q /\ wr1.held = none
      BY <3>3 DEF WriterShape
    <3>6. h.wire = <<>>
      BY <1>1, <2>2
    <3> QED
      BY <3>1, <3>2, <3>4, <3>5, <3>6
  <2> QED
    BY <2>1, <2>2
<1>5. m \in Nat
  BY <1>4 DEF IsSeq
<1> HIDE DEF x, m
<1>6. /\ ReplyShape(rep2) /\ rep2.status = 0
      /\ Remaining(q, kind, rep2, m + 1) /\ Fits(q, kind, m + 1, x)
  BY <1>3, <1>5, RemainingShrinks DEF x
<1>7. wr2.target = q /\ wr2.held = Append(wr1.held, x) /\ WriterShape(wr2)
  BY <1>4 DEF WriterShape, x
<1>8. /\ IsSeq(wr2.held) /\ Len(wr2.held) = m + 1 /\ wr2.held[m + 1] = x
      /\ \A i \in 1 .. m : wr2.held[i] = wr1.held[i]
  BY <1>4, <1>7, AppendFacts
<1>9. \A i \in 1 .. Len(wr2.held) : Fits(q, kind, i, wr2.held[i])
  <2> TAKE i \in 1 .. Len(wr2.held)
  <2>1. CASE i = m + 1
    BY <1>6, <1>8, <2>1
  <2>2. CASE i \in 1 .. m
    BY <1>4, <1>8, <2>2
  <2> QED
    BY <1>5, <1>8, <2>1, <2>2
<1>10. Body("replying", q, kind, h, wr2)
  <2>1. IsSeq(h.wire) /\ 1 .. Len(h.wire) = {}
    BY <1>4, EmptyFacts
  <2> QED
    BY <1>4, <1>7, <1>8, <1>9, <2>1 DEF Body
<1>11. Written("replying", h, wr2) = m + 1
  BY <1>2, <1>8 DEF Written
<1>12. Progress("replying", q, kind, rep2, h, wr2)
  BY <1>1, <1>3, <1>6, <1>11 DEF Progress, Working
<1>13. Good("replying", q, kind, rep2, h, wr2)
  BY <1>1, <1>6, <1>10, <1>12 DEF Good
<1>14. Keeps(h, p, p1.type)
  BY HeaderIsThere
<1>15. Passes(p, wr, h, wr2, {x})
  <2>1. 1 .. Len(h.wire) = {}
    BY <1>4, EmptyFacts
  <2>2. ASSUME NEW i \in 1 .. Len(wr2.held)
        PROVE  \/ wr2.held[i] = x
               \/ p.gz # NoWriter /\ \E j \in 1 .. Len(wr.held) : wr2.held[i] = wr.held[j]
    <3>1. CASE i = m + 1
      BY <1>8, <3>1
    <3>2. CASE i \in 1 .. m
      <4>1. wr2.held[i] = wr1.held[i] /\ Len(wr1.held) = m
        BY <1>4, <1>8, <3>2
      <4>2. p.gz # NoWriter
        <5> SUFFICES ASSUME p.gz = NoWriter PROVE FALSE
          OBVIOUS
        <5>1. wr1.held = <<>>
          OBVIOUS
        <5>2. m = 0
          BY <4>1, <5>1, EmptyFacts
        <5> QED
          BY <3>2, <5>2
      <4>3. wr1 = wr
        BY <4>2
      <4> QED
        BY <3>2, <4>1, <4>2, <4>3
    <3> QED
      BY <1>5, <1>8, <3>1, <3>2
  <2> QED
    BY <2>1, <2>2 DEF Passes
<1> QED
  BY <1>1, <1>2, <1>4, <1>7, <1>13, <1>14, <1>15 DEF x

\* A piece of the answer, wherever it goes, is still one.
LEMMA PieceIsSound ==
    ASSUME NEW q, NEW kind, NEW answer, NEW rep, NEW p, NEW wr, NEW p1, NEW w, NEW d,
           NEW h, NEW rep2, PieceIsNext(q, kind, rep, p, wr, p1, w, d, h, rep2),
           Sound("replying", kind, answer, rep, p, wr), p1.type \in Types,
           NEW n, NEW wr2, Keeps(n, p, p1.type), Passes(p, wr, n, wr2, {Head(rep.pieces)})
    PROVE  Sound("replying", kind, answer, rep2, n, wr2)
<1> DEFINE m == Written("replying", p, wr)
           x == Head(rep.pieces)
<1>1. /\ rep.status = 0 /\ rep.pieces # <<>> /\ ReplyShape(rep)
      /\ Remaining(q, kind, rep, m) /\ rep2 = [rep EXCEPT !.pieces = Tail(rep.pieces)]
  BY DEF PieceIsNext, Good, Progress
<1>2. m \in Nat
  BY DEF PieceIsNext, Good, Body, Written, IsSeq
<1> HIDE DEF m
<1>3. /\ rep2.type = rep.type /\ \E j \in 1 .. Len(rep.pieces) : x = rep.pieces[j]
      /\ \A i \in 1 .. Len(rep2.pieces) :
            \E j \in 1 .. Len(rep.pieces) : rep2.pieces[i] = rep.pieces[j]
  <2>1. LeftOf(rep2, rep)
    BY <1>1, <1>2, RemainingShrinks
  <2> QED
    BY <2>1 DEF LeftOf, x
<1> HIDE DEF x
<1>4. n.type \in Types /\ rep2.type \in Types /\ n.decided = TRUE
  BY <1>3 DEF Sound, Keeps
<1>5. CASE kind = "search" /\ Fails(rep, p)
  <2>1. p.decided
    BY <1>1, <1>5 DEF Fails
  <2>2. n.sent.status # 200
    BY <1>5, <2>1 DEF Fails, Keeps
  <2> QED
    BY <1>4, <2>2 DEF Fails, Sound
<1>6. CASE kind = "search" /\ Bears(answer, rep, p, wr)
  <2>1. x.of = answer /\ \A i \in 1 .. Len(rep2.pieces) : rep2.pieces[i].of = answer
    BY <1>3, <1>6 DEF Bears
  <2>2. Bears(answer, rep2, n, wr2)
    <3>1. Passes(p, wr, n, wr2, {x})
      BY DEF x
    <3>2. \A y \in {x} : y.of = answer
      BY <2>1
    <3> QED
      BY <1>6, <2>1, <3>1, <3>2, PassesOn
  <2> QED
    BY <1>4, <2>2 DEF Sound
<1>7. CASE kind # "search"
  BY <1>4, <1>7 DEF Sound
<1> QED
  BY <1>5, <1>6, <1>7 DEF Sound, Sending

\* The handler has returned: all of its reply has been written.
LEMMA ReturnIsGood ==
    ASSUME NEW q, NEW kind, NEW rep, NEW p, NEW wr,
           Good("replying", q, kind, rep, p, wr), rep.pieces = <<>>
    PROVE  Good("closing", q, kind, NoReply, p, wr)
<1>1. /\ kind \in Kinds /\ Remaining(q, kind, rep, Written("replying", p, wr))
      /\ p.length \in {0, Size(kind)} /\ Body("replying", q, kind, p, wr)
  BY DEF Good, Progress
<1>2. Written("closing", p, wr) = Written("replying", p, wr)
  BY DEF Written
<1>3. Written("replying", p, wr) \in Nat
  BY <1>1 DEF Written, Body, IsSeq
<1>4. Written("closing", p, wr) = Size(kind)
  BY <1>1, <1>2, <1>3, EmptyFacts DEF Remaining
<1>5. Body("closing", q, kind, p, wr)
  BY <1>1 DEF Body
<1>6. Progress("closing", q, kind, NoReply, p, wr)
  BY <1>1, <1>4 DEF Progress, Working
<1>7. ReplyShape(NoReply)
  BY DEF ReplyShape, NoReply
<1> QED
  BY <1>5, <1>6, <1>7 DEF Good

\* A response without a writer has nothing to close.
LEMMA PlainCloseIsGood ==
    ASSUME NEW q, NEW kind, NEW rep, NEW p, NEW wr,
           Good("closing", q, kind, rep, p, wr), p.gz = NoWriter
    PROVE  Good("putting", q, kind, rep, p, wr)
<1>1. Written("closing", p, wr) = Written("putting", p, wr)
  BY DEF Written
<1>2. Body("putting", q, kind, p, wr)
  BY DEF Good, Body
<1>3. Progress("putting", q, kind, rep, p, wr)
  BY <1>1 DEF Good, Progress, Working
<1> QED
  BY <1>2, <1>3 DEF Good

\* Closing a writer sends all that it held.
LEMMA GzipCloseIsGood ==
    ASSUME NEW q, NEW kind, NEW rep, NEW p, NEW wr,
           Good("closing", q, kind, rep, p, wr), p.gz # NoWriter,
           WriterShape(wr),
           NEW n, n = Sends(p, wr.held, "gzip"),
           NEW wr2, wr2 = [wr EXCEPT !.held = <<>>]
    PROVE  /\ Good("putting", q, kind, rep, n, wr2) /\ WriterShape(wr2)
           /\ n.gz = p.gz /\ p.gz \in Writers /\ wr.target = q
           /\ Keeps(n, p, p.type)
           /\ Passes(p, wr, n, wr2, Elements(wr.held))
<1> DEFINE none == <<>>
<1>1. IsSeq(none) /\ Len(none) = 0 /\ 1 .. Len(none) = {}
  BY EmptyFacts
<1>2. /\ p.gz \in Writers /\ wr.target = q /\ IsSeq(wr.held) /\ p.wire = none
      /\ \A i \in 1 .. Len(wr.held) : Fits(q, kind, i, wr.held[i])
  BY DEF Good, Body
<1>3. /\ ResponseShape(p) /\ ReplyShape(rep) /\ kind \in Kinds
      /\ p.decided = TRUE /\ Settled(p)
      /\ Written("closing", p, wr) = Size(kind) /\ p.length \in {0, Size(kind)}
  BY DEF Good, Progress, Untouched
<1>4. Len(wr.held) = Size(kind)
  BY <1>3 DEF Written
<1>5. wr2.target = q /\ wr2.held = none /\ WriterShape(wr2)
  BY <1>2 DEF WriterShape
<1> HIDE DEF none
<1>6. Longer(n, p, wr.held, "gzip")
  <2>1. p.sent # Unsent
    BY <1>3, SettledIsSent
  <2> QED
    BY <1>1, <1>2, <1>3, <2>1, SendsIs
<1>7. /\ IsSeq(n.wire) /\ Len(n.wire) = Size(kind)
      /\ \A i \in 1 .. Len(wr.held) : n.wire[i] = [piece |-> wr.held[i], how |-> "gzip"]
  <2>1. Len(wr.held) \in Nat /\ \A i \in 1 .. Len(wr.held) : 0 + i = i
    BY <1>2 DEF IsSeq
  <2> QED
    BY <1>1, <1>2, <1>4, <1>6, <2>1 DEF Longer
<1>8. n = [p EXCEPT !.wire = n.wire]
  BY <1>6 DEF Longer
<1>9. /\ ResponseShape(n) /\ n.decided = p.decided /\ n.sent = p.sent
      /\ n.type = p.type /\ n.length = p.length /\ n.gz = p.gz
      /\ n.passthrough = p.passthrough /\ n.encoding = p.encoding /\ n.vary = p.vary
  BY <1>3, <1>8 DEF ResponseShape
<1>10. Settled(n)
  BY <1>3, <1>9, SettledIsKept
<1>11. n.encoding = "gzip"
  BY <1>3, <1>9 DEF Settled
<1>12. \A i \in 1 .. Len(n.wire) :
          Fits(q, kind, i, n.wire[i].piece) /\ n.wire[i].how = "gzip"
  <2> TAKE i \in 1 .. Len(n.wire)
  <2>1. i \in 1 .. Len(wr.held)
    BY <1>4, <1>7
  <2>2. n.wire[i] = [piece |-> wr.held[i], how |-> "gzip"]
    BY <1>7, <2>1
  <2>3. n.wire[i].piece = wr.held[i] /\ n.wire[i].how = "gzip"
    BY <2>2
  <2> QED
    BY <1>2, <2>1, <2>3
<1>13. Body("putting", q, kind, n, wr2)
  BY <1>1, <1>2, <1>5, <1>7, <1>9, <1>11, <1>12 DEF Body
<1>14. Written("putting", n, wr2) = Size(kind)
  BY <1>7 DEF Written
<1>15. Progress("putting", q, kind, rep, n, wr2)
  BY <1>3, <1>9, <1>14 DEF Progress, Working
<1>16. Good("putting", q, kind, rep, n, wr2)
  BY <1>3, <1>9, <1>10, <1>13, <1>15 DEF Good
<1>17. Keeps(n, p, p.type)
  BY <1>3, <1>9 DEF Keeps
<1>18. Passes(p, wr, n, wr2, Elements(wr.held))
  <2>0. \A i \in 1 .. Len(wr.held) : wr.held[i] \in Elements(wr.held)
    BY DEF Elements
  <2>1. ASSUME NEW i \in 1 .. Len(n.wire)
        PROVE  n.wire[i].piece = wr.held[i] /\ i \in 1 .. Len(wr.held)
    <3>1. i \in 1 .. Len(wr.held)
      BY <1>4, <1>7
    <3>2. n.wire[i] = [piece |-> wr.held[i], how |-> "gzip"]
      BY <1>7, <3>1
    <3> QED
      BY <3>1, <3>2
  <2>2. 1 .. Len(wr2.held) = {}
    BY <1>1, <1>5
  <2>3. \A i \in 1 .. Len(n.wire) : n.wire[i].piece \in Elements(wr.held)
    BY <2>0, <2>1
  <2> QED
    BY <2>2, <2>3 DEF Passes
<1> QED
  BY <1>2, <1>5, <1>9, <1>16, <1>17, <1>18

\* The end of the handler changes nothing of what has been written, nor does
\* closing a response that has no writer.
LEMMA EndIsSound ==
    ASSUME NEW kind, NEW answer, NEW rep, NEW p, NEW wr, NEW from \in Sending,
           Sound(from, kind, answer, rep, p, wr)
    PROVE  /\ Sound("putting", kind, answer, rep, p, wr)
           /\ rep.status = 0 => Sound("closing", kind, answer, NoReply, p, wr)
<1>1. Sound("putting", kind, answer, rep, p, wr)
  BY DEF Sound, Sending
<1> DEFINE none == <<>>
<1>2. NoReply = [status |-> 0, type |-> "", length |-> 0, pieces |-> none]
  BY DEF NoReply
<1>3. 1 .. Len(none) = {}
  BY EmptyFacts
<1> HIDE DEF none
<1>4. NoReply.status = 0 /\ NoReply.type \in Types /\ NoReply.pieces = none
  BY <1>2, TypesAssumption
<1>5. rep.status = 0 /\ Fails(rep, p) => Fails(NoReply, p)
  BY <1>4 DEF Fails
<1>6. Bears(answer, rep, p, wr) => Bears(answer, NoReply, p, wr)
  BY <1>3, <1>4 DEF Bears
<1>7. rep.status = 0 => Sound("closing", kind, answer, NoReply, p, wr)
  BY <1>4, <1>5, <1>6 DEF Sound
<1> QED
  BY <1>1, <1>7

\* What closing a writer sends is what it held.
LEMMA CloseIsSound ==
    ASSUME NEW kind, NEW answer, NEW rep, NEW p, NEW wr, p.decided,
           Sound("closing", kind, answer, rep, p, wr), p.gz # NoWriter,
           NEW n, NEW wr2, Keeps(n, p, p.type),
           Passes(p, wr, n, wr2, Elements(wr.held))
    PROVE  Sound("putting", kind, answer, rep, n, wr2)
<1>1. n.type \in Types /\ rep.type \in Types /\ n.decided /\ n.sent = p.sent
  BY DEF Sound, Keeps
<1>2. Fails(rep, p) => Fails(rep, n)
  BY <1>1 DEF Fails
<1>3. ASSUME Bears(answer, rep, p, wr) PROVE Bears(answer, rep, n, wr2)
  <2> DEFINE more == Elements(wr.held)
  <2>1. \A x \in more : x.of = answer
    BY <1>3 DEF Bears, Elements
  <2>2. \A i \in 1 .. Len(rep.pieces) : rep.pieces[i].of = answer
    BY <1>3 DEF Bears
  <2> HIDE DEF more
  <2> QED
    BY <1>3, <2>1, <2>2, PassesOn DEF more
<1> QED
  BY <1>1, <1>2, <1>3 DEF Sound, Sending

-----------------------------------------------------------------------------
\* The steps that write.

\* A writer that the pool may give is nobody's.
LEMMA GettableIsFree ==
    ASSUME IInv, NEW r \in Requests, ~out.resp[r].decided, NEW w \in Gettable(out, r)
    PROVE  w \in Writers /\ \A q \in Requests : out.resp[q].gz # w
<1>1. w \in out.pool \cup (Writers \ InUse(out))
  BY DEF Gettable
<1>2. CASE w \in out.pool
  BY <1>2 DEF IInv, PoolIsFree
<1>3. CASE w \in Writers \ InUse(out)
  BY <1>3, NamesAssumption DEF InUse
<1> QED
  BY <1>1, <1>2, <1>3

\* A new request begins with a blank response.
LEMMA ArriveStep ==
    ASSUME IInv, NEW r \in Requests, NEW q \in Searches \cup Plain,
           NEW accepts \in BOOLEAN, Arrive(r, q, accepts)
    PROVE  IInv'
<1> DEFINE p == Blank(accepts)
<1>1. Shape /\ GoodNow(r) /\ out.pool \subseteq Writers /\ phase[r] = "idle"
  BY DEF IInv, PoolIsFree, Arrive
<1>2. out.resp[r].gz = NoWriter /\ ReplyShape(reply[r])
  BY <1>1, PhaseTells DEF GoodNow, Good, Untouched
<1>3. out' = [resp |-> [out.resp EXCEPT ![r] = p], pool |-> out.pool,
              writer |-> out.writer]
  BY <1>1 DEF Arrive, Shape
<1>4. q.kind \in Kinds
  BY SearchesAssumption DEF Plain, Kinds
<1>5. ResponseShape(p) /\ Untouched(p)
  BY DEF Blank, ResponseShape, Untouched
<1> HIDE DEF p
<1>6. Progress("validating", r, q.kind, reply[r], p, out.writer[p.gz])
  BY <1>4, <1>5 DEF Progress, Untouched, Working
<1>7. Good("validating", r, q.kind, reply[r], p, out.writer[p.gz])
  BY <1>2, <1>5, <1>6, UntouchedIsGood
<1>8. /\ phase' = [phase EXCEPT ![r] = "validating"] /\ query' = [query EXCEPT ![r] = q]
      /\ reply' = [reply EXCEPT ![r] = reply[r]]
  BY <1>1, SameQuery DEF Arrive, Goes
<1>9. p.gz = NoWriter /\ NoWriter \notin Writers
  BY <1>5, NamesAssumption DEF Untouched
<1>10. /\ out.writer = [w \in Writers |-> out.writer[w]]
       /\ \A w \in Writers : WriterShape(out.writer[w])
  BY <1>1 DEF Shape
<1>11. PICK p2, poolNow, writerNow, repNow :
          p2 = p /\ poolNow = out.pool /\ writerNow = out.writer /\ repNow = reply[r]
  OBVIOUS
<1>12. Sound("validating", q.kind, AnswerOf(zone, q), repNow, p2, writerNow[p2.gz])
  <2>1. "validating" \notin Sending /\ p.type \in Types /\ reply[r].type \in Types
    BY <1>1, TypesAssumption DEF Sending, p, Blank, GoodNow, Sound
  <2> QED
    BY <1>11, <2>1, SoundElsewhere
<1>13. UNCHANGED zone
  BY DEF Arrive
<1>14. \A w \in Writers : out.resp[r].gz # w
  BY <1>2, NamesAssumption
<1>15. Moves(r, "validating", q, repNow, p2, poolNow, writerNow)
  BY <1>1, <1>3, <1>7, <1>8, <1>9, <1>10, <1>11, <1>12, <1>13, <1>14 DEF Moves
<1> QED
  BY <1>15, OutChanges

\* Enriching a station touches neither requests nor responses nor the zone.
LEMMA EnrichStep ==
    ASSUME IInv, UNCHANGED <<out, phase, query, zone, reply>>
    PROVE  IInv'
<1>1. Shape'
  BY DEF IInv, Shape
<1>2. PoolIsFree'
  BY DEF IInv, PoolIsFree
<1>3. \A q \in Requests : GoodNow(q)'
  BY DEF IInv, GoodNow
<1> QED
  BY <1>1, <1>2, <1>3 DEF IInv

\* The same, writer by writer.
GivenAs(W, r, p1, p2) ==
    /\ W = [w \in Writers |-> W[w]]
    /\ \A w \in Writers :
          /\ WriterShape(W[w])
          /\ w # p2.gz => W[w] = out.writer[w]
          /\ w = p2.gz => W[w] = IF p1.gz = w THEN out.writer[w]
                                 ELSE [target |-> r, held |-> <<>>]

\* A writer that is taken starts anew, and all others keep what they hold.
LEMMA GivenFacts ==
    ASSUME Shape, NEW r, NEW p1, NEW p2
    PROVE  GivenAs(Given(r, p1, p2), r, p1, p2)
<1>1. \A w \in Writers : Given(r, p1, p2)[w] =
         IF w = p2.gz /\ p1.gz # w THEN [target |-> r, held |-> <<>>] ELSE out.writer[w]
  BY DEF Given
<1>2. WriterShape([target |-> r, held |-> <<>>])
  BY DEF WriterShape
<1>3. \A w \in Writers : WriterShape(out.writer[w])
  BY DEF Shape
<1>4. Given(r, p1, p2) = [w \in Writers |-> Given(r, p1, p2)[w]]
  BY DEF Given
<1> QED
  BY <1>1, <1>2, <1>3, <1>4 DEF GivenAs

\* WriteHeader, called by a handler that has a status to tell.
LEMMA SendStatusStep ==
    ASSUME IInv, NEW r \in Requests, SendStatus(r)
    PROVE  IInv'
<1> DEFINE p == out.resp[r]
           p1 == [p EXCEPT !.type = reply[r].type, !.length = reply[r].length]
           o == [out EXCEPT !.resp[r] = [out.resp[r] EXCEPT
                                            !.type = reply[r].type,
                                            !.length = reply[r].length]]
<1>1. /\ Shape /\ phase[r] = "replying" /\ reply[r].status # 0
      /\ Good("replying", r, query[r].kind, reply[r], p, out.writer[p.gz])
  BY DEF IInv, GoodNow, SendStatus
<1>2. ~p.decided /\ ResponseShape(p)
  BY <1>1 DEF Good, Progress
<1>3. PICK w \in Gettable(out, r) : out' = WriteHeader(o, r, reply[r].status, w)
  BY DEF SendStatus
<1>4. w \in Writers /\ \A q \in Requests : out.resp[q].gz # w
  BY <1>2, GettableIsFree
<1>5. o = [resp |-> [out.resp EXCEPT ![r] = p1], pool |-> out.pool,
           writer |-> out.writer]
  BY <1>1 DEF Shape
<1>6. o.resp[r] = p1
  BY <1>1, <1>5 DEF Shape
<1> DEFINE h == SendHeader(decide(p1, w), reply[r].status)
           W == Given(r, p1, h)
           rep2 == [reply[r] EXCEPT !.status = 0]
<1>7. out' = Updated(o, r, h)
  BY <1>3, <1>6 DEF WriteHeader
<1> HIDE DEF o, h
<1>8. out' = [resp |-> [out.resp EXCEPT ![r] = h], pool |-> out.pool \ {h.gz},
              writer |-> W]
  BY <1>1, <1>5, <1>7, UpdatedIs
<1>9. GivenAs(W, r, p1, h)
  BY <1>1, GivenFacts
<1> HIDE DEF W
<1>10. p1.gz = p.gz
  BY <1>2 DEF ResponseShape
<1>11. h.gz \in {NoWriter, w} /\ p.gz = NoWriter
  <2> DEFINE fresh == [target |-> r, held |-> <<>>]
  <2>1. StatusLeaves(r, reply[r], p, w, p1, rep2, h, fresh)
    BY DEF StatusLeaves, h
  <2> HIDE DEF fresh, p1, rep2, p
  <2> QED
    BY <1>1, <1>4, <2>1, StatusIsGood
<1> DEFINE wr2 == W[h.gz]
<1>12. h.gz # NoWriter => wr2 = [target |-> r, held |-> <<>>]
  BY <1>4, <1>9, <1>10, <1>11 DEF GivenAs
<1> HIDE DEF wr2
<1>13. Good("replying", r, query[r].kind, rep2, h, wr2)
  <2>1. StatusLeaves(r, reply[r], p, w, p1, rep2, h, wr2)
    BY <1>12 DEF StatusLeaves, h
  <2> HIDE DEF p1, rep2, p
  <2> QED
    BY <1>1, <1>4, <2>1, StatusIsGood
<1>23. Sound("replying", query[r].kind, AnswerOf(zone, query[r]), rep2, h, W[h.gz])
  <2>1. StatusLeaves(r, reply[r], p, w, p1, rep2, h, wr2)
    BY <1>12 DEF StatusLeaves, h
  <2>2. Sound("replying", query[r].kind, AnswerOf(zone, query[r]), reply[r], p,
              out.writer[p.gz])
    BY <1>1 DEF IInv, GoodNow
  <2> HIDE DEF p1, rep2, p
  <2>3. Sound("replying", query[r].kind, AnswerOf(zone, query[r]), rep2, h, wr2)
    BY <1>1, <1>4, <2>1, <2>2, StatusIsSound
  <2> QED
    BY <2>3 DEF wr2
<1>14. /\ phase' = [phase EXCEPT ![r] = "replying"]
       /\ query' = [query EXCEPT ![r] = query[r]]
       /\ reply' = [reply EXCEPT ![r] = rep2]
  BY <1>1, SameQuery DEF SendStatus
<1>15. out.pool \subseteq Writers
  BY DEF IInv, PoolIsFree
<1> HIDE DEF p1, rep2, p
<1> DEFINE pool2 == out.pool \ {h.gz}
<1>16. /\ pool2 \subseteq out.pool \cup {out.resp[r].gz} /\ pool2 \subseteq Writers
       /\ h.gz \notin pool2
  BY <1>15
<1>17. h.gz # NoWriter => \A q \in Requests \ {r} : out.resp[q].gz # h.gz
  BY <1>4, <1>11
<1>18. /\ W = [v \in Writers |-> W[v]]
       /\ \A v \in Writers :
             /\ WriterShape(W[v])
             /\ v # out.resp[r].gz /\ v # h.gz => W[v] = out.writer[v]
  BY <1>9 DEF GivenAs
<1>19. Good("replying", r, query[r].kind, rep2, h, W[h.gz])
  BY <1>13 DEF wr2
<1>20. out' = [resp |-> [out.resp EXCEPT ![r] = h], pool |-> pool2, writer |-> W]
  BY <1>8
<1> HIDE DEF pool2
<1>21. PICK p2, poolNow, writerNow, repNow, qry :
          /\ p2 = h /\ poolNow = pool2 /\ writerNow = W
          /\ repNow = rep2 /\ qry = query[r]
  OBVIOUS
<1>22. Sound("replying", qry.kind, AnswerOf(zone, qry), repNow, p2, writerNow[p2.gz])
  BY <1>21, <1>23
<1>24. (\A v \in Writers : out.resp[r].gz # v) /\ UNCHANGED zone
  BY <1>11, NamesAssumption DEF p, SendStatus
<1>25. Moves(r, "replying", qry, repNow, p2, poolNow, writerNow)
  BY <1>14, <1>16, <1>17, <1>18, <1>19, <1>20, <1>21, <1>22, <1>24 DEF Moves
<1> QED
  BY <1>25, OutChanges

\* One field of one response, and what one gzip writer holds, are replaced.
LEMMA TypeIsSet ==
    ASSUME NEW o, NEW R, NEW P, NEW W, o = [resp |-> R, pool |-> P, writer |-> W],
           NEW r \in Requests, R = [q \in Requests |-> R[q]], NEW a
    PROVE  [o EXCEPT !.resp[r].type = a] =
              [resp |-> [R EXCEPT ![r] = [R[r] EXCEPT !.type = a]], pool |-> P,
               writer |-> W]
  OBVIOUS

\* What one writer holds changes, and nothing else.
LEMMA HeldIsSet ==
    ASSUME NEW o, NEW R, NEW P, NEW W, o = [resp |-> R, pool |-> P, writer |-> W],
           NEW g \in Writers, W = [w \in Writers |-> W[w]], NEW a
    PROVE  [o EXCEPT !.writer[g].held = a] =
              [resp |-> R, pool |-> P,
               writer |-> [W EXCEPT ![g] = [W[g] EXCEPT !.held = a]]]
  OBVIOUS

\* What a handler writes to: typed, if nothing has been written yet.
Offered(p, type) == IF p.decided THEN p ELSE [p EXCEPT !.type = type]
Detected(p, found) ==
    IF ~p.decided /\ p.type = "" THEN [p EXCEPT !.type = found] ELSE p

Retyped(p, type, x) == x = [p EXCEPT !.type = type]

\* A content type may be set as long as nothing has been written.
LEMMA RetypedIsUntouched ==
    ASSUME NEW p, ResponseShape(p), Untouched(p), NEW type, NEW x, Retyped(p, type, x)
    PROVE  /\ ResponseShape(x) /\ Untouched(x) /\ x.decided = p.decided
           /\ x.type = type
  BY DEF Retyped, ResponseShape, Untouched

\* What Write does, once decided.
LEMMA PlainWriteIs ==
    ASSUME NEW o, NEW r, NEW x, NEW w, NEW d, d = decide(Detected(o.resp[r], "html"), w),
           d.passthrough = TRUE, NEW n, n = Sends(d, <<x>>, "plain")
    PROVE  Write(o, r, x, "html", w) = Updated(o, r, n)
<1>1. d.passthrough
  OBVIOUS
<1> QED
  BY <1>1 DEF Write, Detected

Gets(o, g, x) == [o EXCEPT !.writer[g].held = Append(o.writer[g].held, x)]

\* The same, when the piece is to be compressed.
LEMMA GzipWriteIs ==
    ASSUME NEW o, NEW r, NEW x, NEW w, NEW d, d = decide(Detected(o.resp[r], "html"), w),
           ~d.passthrough
    PROVE  Write(o, r, x, "html", w) = Gets(Updated(o, r, SendHeader(d, 200)), d.gz, x)
<1> DEFINE u == Updated(o, r, SendHeader(d, 200))
<1>1. ~d.passthrough
  OBVIOUS
<1> DEFINE v == Updated(o, r, IF d.passthrough THEN Sends(d, <<x>>, "plain")
                             ELSE SendHeader(d, 200))
<1>2. v = u
  BY <1>1
<1>3. Write(o, r, x, "html", w) = IF d.passthrough THEN v ELSE Gets(v, d.gz, x)
  <2> DEFINE D == decide(Detected(o.resp[r], "html"), w)
             V == Updated(o, r, IF D.passthrough THEN Sends(D, <<x>>, "plain")
                                ELSE SendHeader(D, 200))
  <2>1. Write(o, r, x, "html", w) = IF D.passthrough THEN V ELSE Gets(V, D.gz, x)
    BY Zenon DEF Write, Detected, Gets
  <2>2. D = d
    OBVIOUS
  <2> HIDE DEF D
  <2> QED
    BY <2>1, <2>2
<1> HIDE DEF v
<1> QED
  BY <1>1, <1>2, <1>3

\* What Write decides about has a type, and nothing else has changed.
LEMMA DetectedIsTyped ==
    ASSUME NEW p, ResponseShape(p), NEW type,
           ~p.decided => Untouched(p)
    PROVE  /\ Typed(Detected(Offered(p, type), "html"), p)
           /\ Offered(p, type).gz = p.gz
           /\ Offered(p, type).decided = p.decided
           /\ Detected(Offered(p, type), "html").type \in {p.type, type, "html"}
<1>1. CASE p.decided
  BY <1>1 DEF Offered, Detected, Typed
<1>2. CASE ~p.decided
  <2> DEFINE x == [p EXCEPT !.type = type]
             y == [x EXCEPT !.type = "html"]
  <2>1. Retyped(p, type, x) /\ Retyped(x, "html", y)
    BY DEF Retyped
  <2> HIDE DEF y
  <2>4. Offered(p, type) = x
    BY <1>2 DEF Offered
  <2> HIDE DEF x
  <2>2. ResponseShape(x) /\ Untouched(x) /\ x.decided = p.decided /\ x.type = type
    BY <1>2, <2>1, RetypedIsUntouched
  <2>3. ResponseShape(y) /\ Untouched(y) /\ y.type = "html"
    BY <2>1, <2>2, RetypedIsUntouched
  <2>5. x.gz = p.gz
    BY <1>2, <2>2 DEF Untouched
  <2> QED
    BY <1>2, <2>2, <2>3, <2>4, <2>5 DEF Typed, Detected, y
<1> QED
  BY <1>1, <1>2

\* Write, plain or compressed, the first time or a later one.
LEMMA SendPieceStep ==
    ASSUME IInv, NEW r \in Requests, SendPiece(r)
    PROVE  IInv'
<1> DEFINE p == out.resp[r]
           wr == out.writer[p.gz]
           x == Head(reply[r].pieces)
           p0 == Offered(p, reply[r].type)
           p1 == Detected(p0, "html")
           o == IF p.decided THEN out
                ELSE [out EXCEPT !.resp[r].type = reply[r].type]
           rep2 == [reply[r] EXCEPT !.pieces = Tail(reply[r].pieces)]
<1>1. /\ Shape /\ reply[r].status = 0 /\ reply[r].pieces # <<>>
      /\ Good("replying", r, query[r].kind, reply[r], p, wr)
  BY DEF IInv, GoodNow, SendPiece
<1>2. ResponseShape(p) /\ (~p.decided => Untouched(p)) /\ out.pool \subseteq Writers
  BY <1>1 DEF Good, IInv, PoolIsFree
<1>3. PICK w \in Gettable(out, r) : out' = Write(o, r, x, "html", w)
  BY DEF SendPiece
<1>4. ~p.decided => w \in Writers /\ \A q \in Requests : out.resp[q].gz # w
  BY GettableIsFree
<1>5. o = [resp |-> [out.resp EXCEPT ![r] = p0], pool |-> out.pool,
           writer |-> out.writer]
  <2>1. out = [resp |-> out.resp, pool |-> out.pool, writer |-> out.writer]
        /\ out.resp = [q \in Requests |-> out.resp[q]]
    BY <1>1 DEF Shape
  <2>2. CASE p.decided
    <3>1. [out.resp EXCEPT ![r] = p] = out.resp
      BY <2>1
    <3> QED
      BY <2>1, <2>2, <3>1 DEF Offered
  <2>3. CASE ~p.decided
    BY <2>1, <2>3, TypeIsSet DEF Offered
  <2> QED
    BY <2>2, <2>3
<1>6. o.resp[r] = p0
  BY <1>1, <1>5 DEF Shape
<1>7. Typed(p1, p) /\ p0.gz = p.gz /\ p1.type \in {p.type, reply[r].type, "html"}
  BY <1>2, DetectedIsTyped
<1>15. /\ Sound("replying", query[r].kind, AnswerOf(zone, query[r]), reply[r], p, wr)
       /\ UNCHANGED zone
  BY DEF IInv, GoodNow, SendPiece
<1>16. p1.type \in Types
  BY <1>7, <1>15, ReplyTypesAssumption DEF Sound
<1> DEFINE d == decide(p1, w)
           h == SendHeader(d, 200)
           n == Sends(d, <<x>>, "plain")
<1>8. /\ d.passthrough = TRUE => out' = Updated(o, r, n)
      /\ d.passthrough = FALSE =>
            out' = Gets(Updated(o, r, h), d.gz, x)
  <2>1. d = decide(Detected(o.resp[r], "html"), w)
    BY <1>6
  <2> HIDE DEF d, o, x, p1
  <2>2. d.passthrough = TRUE => Write(o, r, x, "html", w) = Updated(o, r, n)
    BY <2>1, PlainWriteIs
  <2>3. ASSUME d.passthrough = FALSE
        PROVE  Write(o, r, x, "html", w) = Gets(Updated(o, r, SendHeader(d, 200)), d.gz, x)
    <3>1. PICK dd, oo, xx : dd = d /\ oo = o /\ xx = x
      OBVIOUS
    <3>2. Write(oo, r, xx, "html", w) = Gets(Updated(oo, r, SendHeader(dd, 200)), dd.gz, xx)
      <4>1. dd = decide(Detected(oo.resp[r], "html"), w) /\ ~dd.passthrough
        BY <2>1, <2>3, <3>1
      <4> QED
        BY <4>1, GzipWriteIs
    <3> QED
      BY <3>1, <3>2
  <2> QED
    BY <1>3, <2>2, <2>3
<1>9. PieceIsNext(r, query[r].kind, reply[r], p, wr, p1, w, d, h, rep2)
  BY <1>1, <1>4, <1>7 DEF PieceIsNext
<1>10. /\ phase' = [phase EXCEPT ![r] = "replying"]
       /\ query' = [query EXCEPT ![r] = query[r]]
       /\ reply' = [reply EXCEPT ![r] = rep2]
  BY <1>1, SameQuery DEF SendPiece
<1>11. out.writer = [v \in Writers |-> out.writer[v]]
       /\ \A v \in Writers : WriterShape(out.writer[v])
  BY <1>1 DEF Shape
<1> HIDE DEF o, p1, p0, rep2, d, h
<1>12. CASE d.passthrough = TRUE
  <2> DEFINE W == Given(r, p0, n)
  <2>1. /\ Good("replying", r, query[r].kind, rep2, n, W[n.gz])
        /\ Sound("replying", query[r].kind, AnswerOf(zone, query[r]), rep2, n, W[n.gz])
        /\ p.gz = NoWriter /\ n.gz = NoWriter
    <3> DEFINE wr2 == W[n.gz]
    <3>0. PlainIsNext(r, query[r].kind, reply[r], p, wr, p1, w, d, h, rep2, n)
      BY <1>9, <1>12 DEF PlainIsNext
    <3> HIDE DEF p, wr, wr2, n
    <3>1. /\ Good("replying", r, query[r].kind, rep2, n, wr2)
          /\ p.gz = NoWriter /\ n.gz = NoWriter
          /\ Keeps(n, p, p1.type) /\ Passes(p, wr, n, wr2, {Head(reply[r].pieces)})
      BY <3>0, PlainPieceIsGood
    <3>2. Sound("replying", query[r].kind, AnswerOf(zone, query[r]), rep2, n, wr2)
      BY <1>9, <1>15, <1>16, <3>1, PieceIsSound
    <3> QED
      BY <3>1, <3>2 DEF wr2
  <2>2. out' = [resp |-> [out.resp EXCEPT ![r] = n], pool |-> out.pool \ {n.gz},
                writer |-> W]
    <3> HIDE DEF n
    <3> QED
      BY <1>1, <1>5, <1>8, <1>12, UpdatedIs
  <2>3. GivenAs(W, r, p0, n)
    BY <1>1, GivenFacts
  <2> HIDE DEF W, n
  <2>4. PICK p2, poolNow, writerNow, repNow, qry :
           /\ p2 = n /\ poolNow = out.pool \ {n.gz} /\ writerNow = W
           /\ repNow = rep2 /\ qry = query[r]
    OBVIOUS
  <2>5. /\ poolNow \subseteq out.pool \cup {out.resp[r].gz} /\ poolNow \subseteq Writers
        /\ p2.gz \notin poolNow
    BY <1>2, <2>4
  <2>7. (\A v \in Writers : out.resp[r].gz # v)
    BY <2>1, NamesAssumption
  <2>6. Moves(r, "replying", qry, repNow, p2, poolNow, writerNow)
    BY <1>10, <1>15, <2>1, <2>2, <2>3, <2>4, <2>5, <2>7 DEF Moves, GivenAs
  <2> QED
    BY <2>6, OutChanges
<1>13. CASE d.passthrough = FALSE
  <2> DEFINE V == Given(r, p0, h)
             wr1 == IF p.gz = NoWriter THEN [target |-> r, held |-> <<>>] ELSE wr
             wr2 == [wr1 EXCEPT !.held = Append(wr1.held, x)]
             W == [V EXCEPT ![d.gz] = wr2]
  <2>1. p.gz # NoWriter => WriterShape(wr)
    BY <1>1, <1>11 DEF Good, Body
  <2>2. WriterGets(r, reply[r], p, wr, wr1, wr2)
    BY <2>1 DEF WriterGets
  <2> HIDE DEF wr1, wr2
  <2>3. /\ Good("replying", r, query[r].kind, rep2, h, wr2) /\ WriterShape(wr2)
        /\ h.gz \in Writers /\ d.gz = h.gz /\ (p.decided => h.gz = p.gz)
        /\ (~p.decided => h.gz = w) /\ wr2.target = r
        /\ Sound("replying", query[r].kind, AnswerOf(zone, query[r]), rep2, h, wr2)
    <3>1. GzipIsNext(r, query[r].kind, reply[r], p, wr, p1, w, d, h, rep2, wr1, wr2)
      BY <1>9, <1>13, <2>2 DEF GzipIsNext
    <3> HIDE DEF p, wr, x
    <3>2. /\ Good("replying", r, query[r].kind, rep2, h, wr2) /\ WriterShape(wr2)
          /\ h.gz \in Writers /\ d.gz = h.gz /\ (p.decided => h.gz = p.gz)
          /\ (~p.decided => h.gz = w) /\ wr2.target = r
          /\ Keeps(h, p, p1.type) /\ Passes(p, wr, h, wr2, {Head(reply[r].pieces)})
      BY <3>1, GzipPieceIsGood
    <3>3. Sound("replying", query[r].kind, AnswerOf(zone, query[r]), rep2, h, wr2)
      BY <1>9, <1>15, <1>16, <3>2, PieceIsSound
    <3> QED
      BY <3>2, <3>3
  <2>4. Updated(o, r, h) = [resp |-> [out.resp EXCEPT ![r] = h],
                            pool |-> out.pool \ {h.gz}, writer |-> V]
    BY <1>1, <1>5, UpdatedIs
  <2>5. GivenAs(V, r, p0, h)
    BY <1>1, GivenFacts
  <2> HIDE DEF V
  <2>6. V[d.gz] = wr1
    <3>1. ~p.decided => p.gz = NoWriter
      BY <1>2 DEF Untouched
    <3>2. V[h.gz] = IF p0.gz = h.gz THEN out.writer[h.gz]
                    ELSE [target |-> r, held |-> <<>>]
      BY <2>3, <2>5 DEF GivenAs
    <3>3. h.gz # NoWriter
      BY <2>3, NamesAssumption
    <3> QED
      BY <1>7, <2>3, <3>1, <3>2, <3>3 DEF wr1
  <2>7. V = [v \in Writers |-> V[v]]
    BY <2>5 DEF GivenAs
  <2>8. out' = [resp |-> [out.resp EXCEPT ![r] = h], pool |-> out.pool \ {h.gz},
                writer |-> W]
    <3> DEFINE u == Updated(o, r, h)
    <3>1. out' = [u EXCEPT !.writer[d.gz].held = Append(u.writer[d.gz].held, x)]
      BY <1>8, <1>13 DEF Gets
    <3>2. u.writer[d.gz] = wr1
      BY <2>4, <2>6
    <3> HIDE DEF u, x
    <3>3. out' = [u EXCEPT !.writer[d.gz].held = Append(wr1.held, x)]
      BY <3>1, <3>2
    <3>4. [u EXCEPT !.writer[d.gz].held = Append(wr1.held, x)] =
             [resp |-> [out.resp EXCEPT ![r] = h], pool |-> out.pool \ {h.gz},
              writer |-> [V EXCEPT ![d.gz] =
                             [V[d.gz] EXCEPT !.held = Append(wr1.held, x)]]]
      <4> DEFINE R == [out.resp EXCEPT ![r] = h]
                 P == out.pool \ {h.gz}
                 a == Append(wr1.held, x)
      <4>1. u = [resp |-> R, pool |-> P, writer |-> V] /\ d.gz \in Writers
        BY <2>3, <2>4 DEF u
      <4> HIDE DEF R, P, a
      <4>2. [u EXCEPT !.writer[d.gz].held = a] =
               [resp |-> R, pool |-> P,
                writer |-> [V EXCEPT ![d.gz] = [V[d.gz] EXCEPT !.held = a]]]
        BY <4>1, <2>7, HeldIsSet
      <4> QED
        BY <4>2 DEF R, P, a
    <3> QED
      BY <2>6, <3>3, <3>4 DEF wr2
  <2>9. /\ W = [v \in Writers |-> W[v]] /\ W[h.gz] = wr2
        /\ \A v \in Writers : v # h.gz => W[v] = out.writer[v]
    BY <2>3, <2>5, <2>7 DEF GivenAs
  <2> HIDE DEF W
  <2>10. \A v \in Writers : WriterShape(W[v])
    BY <1>11, <2>3, <2>9
  <2>11. h.gz # NoWriter => \A q \in Requests \ {r} : out.resp[q].gz # h.gz
    <3>1. CASE p.decided
      BY <2>3, <3>1, WriterIsOwn
    <3>2. CASE ~p.decided
      BY <1>4, <2>3, <3>2
    <3> QED
      BY <3>1, <3>2
  <2>12. PICK p2, poolNow, writerNow, repNow, qry :
           /\ p2 = h /\ poolNow = out.pool \ {h.gz} /\ writerNow = W
           /\ repNow = rep2 /\ qry = query[r]
    OBVIOUS
  <2>13. /\ poolNow \subseteq out.pool \cup {out.resp[r].gz} /\ poolNow \subseteq Writers
         /\ p2.gz \notin poolNow
    BY <1>2, <2>12
  <2>15. \A v \in Writers : out.resp[r].gz = v => h.gz = v
    <3>1. ~p.decided => p.gz = NoWriter
      BY <1>2 DEF Untouched
    <3> QED
      BY <2>3, <3>1, NamesAssumption
  <2>14. Moves(r, "replying", qry, repNow, p2, poolNow, writerNow)
    BY <1>10, <1>15, <2>3, <2>8, <2>9, <2>10, <2>11, <2>12, <2>13, <2>15 DEF Moves
  <2> QED
    BY <2>14, OutChanges
<1>14. d.passthrough \in BOOLEAN
  <2>1. HasHeader(h, d, p, w, query[r].kind)
    BY <1>9, HeaderIsThere DEF PieceIsNext
  <2>2. d.passthrough = h.passthrough /\ h.passthrough = (h.gz = NoWriter)
    BY <2>1 DEF HasHeader, Settled
  <2> QED
    BY <2>2
<1> QED
  BY <1>12, <1>13, <1>14

\* A handler returns when it has written everything.
LEMMA HandlerReturnsStep ==
    ASSUME IInv, NEW r \in Requests, HandlerReturns(r)
    PROVE  IInv'
<1>1. Shape /\ Good("replying", r, query[r].kind, reply[r], out.resp[r],
                    out.writer[out.resp[r].gz])
  BY DEF IInv, GoodNow, HandlerReturns
<1>2. reply[r].pieces = <<>>
  BY DEF HandlerReturns
<1>3. Good("closing", r, query[r].kind, NoReply, out.resp[r],
           out.writer[out.resp[r].gz])
  BY <1>1, <1>2, ReturnIsGood
<1>4. query' = [query EXCEPT ![r] = query[r]]
  BY <1>1, SameQuery DEF HandlerReturns
<1>5. /\ UNCHANGED <<out, zone>> /\ phase' = [phase EXCEPT ![r] = "closing"]
      /\ reply' = [reply EXCEPT ![r] = NoReply]
  BY DEF HandlerReturns, Goes
<1>6. Sound("closing", query[r].kind, AnswerOf(zone, query[r]), NoReply, out.resp[r],
            out.writer[out.resp[r].gz])
  <2>1. /\ Sound("replying", query[r].kind, AnswerOf(zone, query[r]), reply[r],
                 out.resp[r], out.writer[out.resp[r].gz])
        /\ reply[r].status = 0 /\ "replying" \in Sending
    BY DEF IInv, GoodNow, HandlerReturns, Sending
  <2> QED
    BY <2>1, EndIsSound
<1> QED
  BY <1>3, <1>4, <1>5, <1>6, OutIsKept

\* What closing and giving back do to the state, of r's writer g.
LEMMA CloseIs ==
    ASSUME NEW o, NEW R, NEW P, NEW W, o = [resp |-> R, pool |-> P, writer |-> W],
           NEW r \in Requests, R = [q \in Requests |-> R[q]],
           W = [w \in Writers |-> W[w]],
           NEW g \in Writers, R[r].gz = g, W[g].target = r,
           NEW n, n = Sends(R[r], W[g].held, "gzip"),
           NEW wr2, wr2 = [W[g] EXCEPT !.held = <<>>]
    PROVE  CloseGzip(o, r) = [resp |-> [R EXCEPT ![r] = n], pool |-> P,
                              writer |-> [W EXCEPT ![g] = wr2]]
<1>1. g # NoWriter /\ r # Discard
  BY NamesAssumption
<1>2. /\ o.resp[r].gz = g /\ o.writer[g].target = r /\ o.resp = R /\ o.writer = W
      /\ o.pool = P
  OBVIOUS
<1>3. CloseGzip(o, r) = [o EXCEPT !.resp[r] = Sends(o.resp[r], o.writer[g].held, "gzip"),
                                  !.writer[g].held = <<>>]
  BY <1>1, <1>2 DEF CloseGzip
<1>4. Sends(o.resp[r], o.writer[g].held, "gzip") = n
  BY <1>2
<1>5. CloseGzip(o, r) = [o EXCEPT !.resp[r] = n, !.writer[g].held = <<>>]
  BY <1>3, <1>4
<1> DEFINE x == [o EXCEPT !.resp[r] = n]
           none == <<>>
<1>6. x = [resp |-> [R EXCEPT ![r] = n], pool |-> P, writer |-> W]
  OBVIOUS
<1>7. CloseGzip(o, r) = [x EXCEPT !.writer[g].held = none]
  BY <1>5
<1> DEFINE R1 == [R EXCEPT ![r] = n]
<1> HIDE DEF x, none, R1
<1>8. [x EXCEPT !.writer[g].held = none] =
         [resp |-> R1, pool |-> P, writer |-> [W EXCEPT ![g] = [W[g] EXCEPT !.held = none]]]
  BY <1>6, HeldIsSet DEF R1
<1> QED
  BY <1>7, <1>8 DEF none, R1

\* A writer that is put back is in the pool, aimed at nobody.
LEMMA PutIs ==
    ASSUME NEW o, NEW R, NEW P, NEW W, o = [resp |-> R, pool |-> P, writer |-> W],
           NEW r \in Requests, R = [q \in Requests |-> R[q]],
           NEW g \in Writers, R[r].gz = g
    PROVE  PutGzip(o, r) =
              [resp |-> [R EXCEPT ![r] = [R[r] EXCEPT !.gz = NoWriter]],
               pool |-> P \cup {g},
               writer |-> [W EXCEPT ![g] = [target |-> Discard, held |-> <<>>]]]
<1>1. g # NoWriter
  BY NamesAssumption
<1> DEFINE wr == [target |-> Discard, held |-> <<>>]
           W1 == [W EXCEPT ![g] = wr]
           R1 == [R EXCEPT ![r] = [R[r] EXCEPT !.gz = NoWriter]]
           x == PutGzip(o, r)
<1>2. o.resp[r].gz = g /\ o.resp = R /\ o.writer = W /\ o.pool = P
  OBVIOUS
<1>3. x = [o EXCEPT !.writer[g] = wr, !.pool = P \cup {g}, !.resp[r].gz = NoWriter]
  BY <1>1, <1>2 DEF PutGzip
<1>4. x = [resp |-> R1, pool |-> P \cup {g}, writer |-> W1]
  <2> HIDE DEF wr, x
  <2> QED
    BY <1>2, <1>3
<1> QED
  BY <1>4

\* close flushes what the request's writer holds, which is the whole body.
LEMMA CloseStep ==
    ASSUME IInv, NEW r \in Requests, Close(r)
    PROVE  IInv'
<1> DEFINE p == out.resp[r]
           g == p.gz
           wr == out.writer[g]
           n == Sends(p, wr.held, "gzip")
           wr2 == [wr EXCEPT !.held = <<>>]
           W == [out.writer EXCEPT ![g] = wr2]
<1>1. /\ Shape /\ out.pool \subseteq Writers
      /\ Good("closing", r, query[r].kind, reply[r], p, wr)
      /\ Sound("closing", query[r].kind, AnswerOf(zone, query[r]), reply[r], p, wr)
      /\ UNCHANGED zone
  BY DEF IInv, GoodNow, Close, PoolIsFree
<1>2. /\ query' = [query EXCEPT ![r] = query[r]]
      /\ reply' = [reply EXCEPT ![r] = reply[r]]
      /\ phase' = [phase EXCEPT ![r] = "putting"]
  BY <1>1, SameQuery DEF Close, Goes
<1>3. /\ out = [resp |-> out.resp, pool |-> out.pool, writer |-> out.writer]
      /\ out.resp = [q \in Requests |-> out.resp[q]]
      /\ out.writer = [w \in Writers |-> out.writer[w]]
      /\ \A w \in Writers : WriterShape(out.writer[w])
  BY <1>1 DEF Shape
<1>4. CASE g = NoWriter
  <2>1. UNCHANGED out
    BY <1>4 DEF Close, CloseGzip
  <2>2. Good("putting", r, query[r].kind, reply[r], p, wr)
    BY <1>1, <1>4, PlainCloseIsGood
  <2>3. Sound("putting", query[r].kind, AnswerOf(zone, query[r]), reply[r], p, wr)
    BY <1>1, EndIsSound DEF Sending
  <2> QED
    BY <1>1, <1>2, <2>1, <2>2, <2>3, OutIsKept
<1>5. CASE g # NoWriter
  <2>1. g \in Writers /\ wr.target = r
    BY <1>1, <1>5 DEF Good, Body
  <2>2. WriterShape(wr)
    BY <1>3, <2>1
  <2>3. CloseGzip(out, r) = [resp |-> [out.resp EXCEPT ![r] = n], pool |-> out.pool,
                             writer |-> W]
    <3>1. PICK gg, nn, ww : gg = g /\ nn = n /\ ww = wr2
      OBVIOUS
    <3>2. /\ gg \in Writers /\ out.resp[r].gz = gg /\ out.writer[gg].target = r
          /\ nn = Sends(out.resp[r], out.writer[gg].held, "gzip")
          /\ ww = [out.writer[gg] EXCEPT !.held = <<>>]
      BY <2>1, <3>1
    <3> HIDE DEF g, n, wr, wr2
    <3>3. CloseGzip(out, r) = [resp |-> [out.resp EXCEPT ![r] = nn], pool |-> out.pool,
                               writer |-> [out.writer EXCEPT ![gg] = ww]]
      BY <1>3, <3>2, CloseIs
    <3> QED
      BY <3>1, <3>3
  <2>4. out' = [resp |-> [out.resp EXCEPT ![r] = n], pool |-> out.pool, writer |-> W]
    BY <2>3 DEF Close
  <2>5. /\ Good("putting", r, query[r].kind, reply[r], n, wr2) /\ WriterShape(wr2)
        /\ n.gz = g
        /\ Sound("putting", query[r].kind, AnswerOf(zone, query[r]), reply[r], n, wr2)
    <3> HIDE DEF p, g, wr
    <3>1. PICK nn, ww : nn = n /\ ww = wr2
      OBVIOUS
    <3>2. p.gz # NoWriter /\ p.decided
      BY <1>1, <1>5 DEF g, Good, Untouched
    <3>3. /\ Good("putting", r, query[r].kind, reply[r], nn, ww) /\ WriterShape(ww)
          /\ nn.gz = p.gz /\ Keeps(nn, p, p.type)
          /\ Passes(p, wr, nn, ww, Elements(wr.held))
      BY <1>1, <2>2, <3>1, <3>2, GzipCloseIsGood
    <3>4. Sound("putting", query[r].kind, AnswerOf(zone, query[r]), reply[r], nn, ww)
      BY <1>1, <3>2, <3>3, CloseIsSound
    <3> QED
      BY <3>1, <3>3, <3>4 DEF g
  <2> HIDE DEF n, wr2
  <2>6. /\ W = [w \in Writers |-> W[w]] /\ W[g] = wr2
        /\ \A w \in Writers : w # g => W[w] = out.writer[w]
    BY <1>3, <2>1
  <2> HIDE DEF W
  <2>7. \A w \in Writers : WriterShape(W[w])
    BY <1>3, <2>5, <2>6
  <2>8. \A q \in Requests \ {r} : out.resp[q].gz # g
    BY <2>1, <1>5, WriterIsOwn
  <2>9. g \notin out.pool
    BY DEF IInv, PoolIsFree
  <2>10. PICK p2, poolNow, writerNow, repNow, qry :
            /\ p2 = n /\ poolNow = out.pool /\ writerNow = W
            /\ repNow = reply[r] /\ qry = query[r]
    OBVIOUS
  <2>11. Moves(r, "putting", qry, repNow, p2, poolNow, writerNow)
    BY <1>1, <1>2, <2>4, <2>5, <2>6, <2>7, <2>8, <2>9, <2>10 DEF Moves
  <2> QED
    BY <2>11, OutChanges
<1> QED
  BY <1>4, <1>5

\* A request ends; its writer goes back to the pool, empty, and nobody has it.
LEMMA PutStep ==
    ASSUME IInv, NEW r \in Requests, Put(r)
    PROVE  IInv'
<1> DEFINE p == out.resp[r]
           g == p.gz
           wr == out.writer[g]
           b == Blank(FALSE)
           wr2 == [target |-> Discard, held |-> <<>>]
           W == [out.writer EXCEPT ![g] = wr2]
<1>1. /\ Shape /\ out.pool \subseteq Writers
      /\ Good("putting", r, query[r].kind, reply[r], p, wr)
  BY DEF IInv, GoodNow, Put, PoolIsFree
<1>2. /\ query' = [query EXCEPT ![r] = Idle]
      /\ reply' = [reply EXCEPT ![r] = reply[r]]
      /\ phase' = [phase EXCEPT ![r] = "idle"]
      /\ out' = [PutGzip(out, r) EXCEPT !.resp[r] = b]
  BY <1>1, SameQuery DEF Put, Goes
<1>3. /\ out = [resp |-> out.resp, pool |-> out.pool, writer |-> out.writer]
      /\ out.resp = [q \in Requests |-> out.resp[q]]
      /\ out.writer = [w \in Writers |-> out.writer[w]]
      /\ \A w \in Writers : WriterShape(out.writer[w])
  BY <1>1 DEF Shape
<1>8. /\ \A x : Sound("idle", Idle.kind, AnswerOf(zone, Idle), reply[r], b, x)
      /\ UNCHANGED zone
  <2>1. "idle" \notin Sending /\ b.type \in Types /\ reply[r].type \in Types
    BY TypesAssumption DEF Sending, Blank, IInv, GoodNow, Sound
  <2> QED
    BY <2>1, SoundElsewhere DEF Put
<1>4. \A x : Good("idle", r, Idle.kind, reply[r], b, x)
  <2> TAKE x
  <2>1. ResponseShape(b) /\ Untouched(b)
    BY DEF Blank, ResponseShape, Untouched
  <2>2. ReplyShape(reply[r])
    BY <1>1 DEF Good
  <2> HIDE DEF b
  <2>3. Progress("idle", r, Idle.kind, reply[r], b, x)
    BY <2>1 DEF Progress, Untouched, Working
  <2> QED
    BY <2>1, <2>2, <2>3, UntouchedIsGood
<1>5. b.gz = NoWriter /\ NoWriter \notin Writers
  BY NamesAssumption DEF Blank
<1> HIDE DEF b
<1>6. CASE g = NoWriter
  <2>1. out' = [resp |-> [out.resp EXCEPT ![r] = b], pool |-> out.pool,
                writer |-> out.writer]
    <3>1. PutGzip(out, r) = out
      BY <1>6 DEF PutGzip
    <3> QED
      BY <1>2, <1>3, <3>1
  <2>2. PICK p2, poolNow, writerNow, repNow :
           /\ p2 = b /\ poolNow = out.pool /\ writerNow = out.writer
           /\ repNow = reply[r]
    OBVIOUS
  <2>4. \A w \in Writers : out.resp[r].gz # w
    BY <1>6, NamesAssumption
  <2>3. Moves(r, "idle", Idle, repNow, p2, poolNow, writerNow)
    BY <1>1, <1>2, <1>3, <1>4, <1>5, <1>8, <2>1, <2>2, <2>4 DEF Moves
  <2> QED
    BY <2>3, OutChanges
<1>7. CASE g # NoWriter
  <2>1. g \in Writers
    BY <1>1, <1>7 DEF Good, Body
  <2>2. out' = [resp |-> [out.resp EXCEPT ![r] = b], pool |-> out.pool \cup {g},
                writer |-> W]
    <3>1. PICK gg : gg = g
      OBVIOUS
    <3> DEFINE R1 == [out.resp EXCEPT ![r] = [out.resp[r] EXCEPT !.gz = NoWriter]]
               W1 == [out.writer EXCEPT ![gg] = [target |-> Discard, held |-> <<>>]]
    <3>2. PutGzip(out, r) = [resp |-> R1, pool |-> out.pool \cup {gg}, writer |-> W1]
      BY <1>3, <2>1, <3>1, PutIs
    <3>3. W1 = W
      BY <3>1
    <3>4. [R1 EXCEPT ![r] = b] = [out.resp EXCEPT ![r] = b]
      BY <1>3
    <3> DEFINE x == PutGzip(out, r)
    <3> HIDE DEF W1, W, R1, x
    <3>5. [x EXCEPT !.resp[r] = b] = [resp |-> [R1 EXCEPT ![r] = b],
                                      pool |-> out.pool \cup {g}, writer |-> W]
      BY <3>1, <3>2, <3>3 DEF x
    <3>6. out' = [x EXCEPT !.resp[r] = b]
      BY <1>2 DEF x
    <3> QED
      BY <3>4, <3>5, <3>6
  <2>3. WriterShape(wr2) /\ wr2.target = Discard
    BY DEF WriterShape
  <2> HIDE DEF wr2
  <2>4. /\ W = [w \in Writers |-> W[w]] /\ W[g] = wr2
        /\ \A w \in Writers : w # g => W[w] = out.writer[w]
    BY <1>3, <2>1
  <2> HIDE DEF W
  <2>5. \A w \in Writers : WriterShape(W[w])
    BY <1>3, <2>3, <2>4
  <2>6. PICK p2, poolNow, writerNow, repNow :
           /\ p2 = b /\ poolNow = out.pool \cup {g} /\ writerNow = W
           /\ repNow = reply[r]
    OBVIOUS
  <2>7. /\ poolNow \subseteq out.pool \cup {out.resp[r].gz} /\ poolNow \subseteq Writers
        /\ p2.gz \notin poolNow
    BY <1>1, <1>5, <2>1, <2>6
  <2>8. Moves(r, "idle", Idle, repNow, p2, poolNow, writerNow)
    BY <1>2, <1>4, <1>5, <1>8, <2>2, <2>3, <2>4, <2>5, <2>6, <2>7 DEF Moves
  <2> QED
    BY <2>8, OutChanges
<1> QED
  BY <1>6, <1>7

-----------------------------------------------------------------------------
\* Every step keeps the invariant.
LEMMA NextIInv == IInv /\ RInv /\ [Next]_vars => IInv'
<1> SUFFICES ASSUME IInv, RInv, [Next]_vars PROVE IInv'
  OBVIOUS
<1>1. CASE UNCHANGED vars
  BY <1>1, EnrichStep DEF vars, handlerVars
<1>2. CASE Next
  <2>1. PICK r \in Requests :
            \/ \E q \in Searches \cup Plain, accepts \in BOOLEAN : Arrive(r, q, accepts)
            \/ \E status \in {400, 405} : Refuse(r, status)
            \/ Accept(r)
            \/ SearchFails(r)
            \/ SearchSucceeds(r)
            \/ Enrich(r)
            \/ Enriched(r)
            \/ Encode(r)
            \/ \E status \in {200, 502} : Lookup(r, status)
            \/ ServeFile(r)
            \/ SendStatus(r)
            \/ SendPiece(r)
            \/ HandlerReturns(r)
            \/ Close(r)
            \/ Put(r)
    BY <1>2 DEF Next
  <2>2. CASE Enrich(r)
    BY <2>2, EnrichStep DEF Enrich
  <2> QED
    BY <2>1, <2>2, ArriveStep, RefuseStep, AcceptStep, SearchFailsStep,
       SearchSucceedsStep, EnrichedStep, EncodeStep, LookupStep, ServeFileStep,
       SendStatusStep, SendPieceStep, HandlerReturnsStep, CloseStep, PutStep
<1> QED
  BY <1>1, <1>2

\* The inductive invariant: the zone and the results, which do not depend on
\* what has been written, and the rest.
THEOREM Invariant == Spec => [](IInv /\ RInv)
<1>1. Init => IInv /\ RInv
  BY InitIInv, InitRInv
<1>2. IInv /\ RInv /\ [Next]_vars => IInv' /\ RInv'
  BY NextIInv, NextRInv
<1> QED
  BY <1>1, <1>2, PTL DEF Spec

\* However the writers of the pool pass from one request to another, a client
\* gets all of its own body, in order, and nothing of another's: gzipResponseWriter
\* borrows a writer for one response and gives it back only once closed.
THEOREM BodiesAreWhole == Spec => []WholeAndOwn
<1>1. IInv => WholeAndOwn
  <2> SUFFICES ASSUME IInv, NEW r \in Requests, Answered(r)
               PROVE  LET wire == out.resp[r].wire
                      IN  /\ \A i \in DOMAIN wire : wire[i].piece.for = r
                          /\ CASE query[r].kind \in {"asset", "image"} ->
                                    [i \in DOMAIN wire |-> wire[i].piece.is] =
                                        <<"first", "second">>
                               [] query[r].kind = "unchanged" -> wire = <<>>
                               [] query[r].kind \in {"search", "lookup"} -> Len(wire) = 1
    BY DEF WholeAndOwn
  <2> DEFINE wire == out.resp[r].wire
             kind == query[r].kind
  <2>1. Good("putting", r, kind, reply[r], out.resp[r], out.writer[out.resp[r].gz])
    BY DEF IInv, GoodNow, Answered
  <2>2. /\ kind \in Kinds /\ IsSeq(wire) /\ Len(wire) = Size(kind)
        /\ \A i \in 1 .. Len(wire) : Fits(r, kind, i, wire[i].piece)
    BY <2>1 DEF Good, Progress, Body, Written
  <2> HIDE DEF wire, kind
  <2>3. DOMAIN wire = 1 .. Size(kind)
    BY <2>2 DEF IsSeq
  <2>4. \A i \in DOMAIN wire : wire[i].piece.for = r
    BY <2>2, <2>3 DEF Fits
  <2>5. CASE kind \in {"asset", "image"}
    <3>1. DOMAIN wire = 1 .. 2 /\ Len(wire) = 2
      BY <2>2, <2>3, <2>5 DEF Size
    <3>2. wire[1].piece.is = "first" /\ wire[2].piece.is = "second"
      BY <2>2, <2>5, <3>1 DEF Fits
    <3>3. [i \in DOMAIN wire |-> wire[i].piece.is] = <<"first", "second">>
      BY <3>1, <3>2
    <3> QED
      BY <2>4, <2>5, <3>3 DEF wire, kind
  <2>6. CASE kind = "unchanged"
    <3>1. wire = <<>>
      BY <2>2, <2>3, <2>6, EmptySeq DEF Size, IsSeq
    <3> QED
      BY <2>4, <2>6, <3>1 DEF wire, kind
  <2>7. CASE kind \in {"search", "lookup"}
    <3>1. Len(wire) = 1
      BY <2>2, <2>7 DEF Size
    <3> QED
      BY <2>4, <2>7, <3>1 DEF wire, kind
  <2> QED
    BY <2>2, <2>5, <2>6, <2>7 DEF Kinds
<1> QED
  BY <1>1, Invariant, PTL

\* The header that left describes the body that followed it, because decide
\* settles both at once, before either.
THEOREM HeadersAreTrue == Spec => []HeaderFitsBody
<1>1. IInv => HeaderFitsBody
  <2> SUFFICES ASSUME IInv, NEW r \in Requests, Answered(r)
               PROVE  LET sent == out.resp[r].sent
                          wire == out.resp[r].wire
                      IN  /\ \A i \in DOMAIN wire :
                                wire[i].how =
                                    IF sent.encoding = "gzip" THEN "gzip" ELSE "plain"
                          /\ sent.length # 0 =>
                                sent.encoding = "" /\ Len(wire) = sent.length
                          /\ sent.vary <=> sent.type \in Compressible
    BY DEF HeaderFitsBody
  <2> DEFINE p == out.resp[r]
             kind == query[r].kind
  <2>1. Good("putting", r, kind, reply[r], p, out.writer[p.gz])
    BY DEF IInv, GoodNow, Answered
  <2>2. /\ IsSeq(p.wire) /\ Len(p.wire) = Size(kind) /\ p.length \in {0, Size(kind)}
        /\ \A i \in 1 .. Len(p.wire) :
              p.wire[i].how = IF p.encoding = "gzip" THEN "gzip" ELSE "plain"
        /\ (~p.decided => Untouched(p)) /\ (p.decided => Settled(p))
    BY <2>1 DEF Good, Progress, Body, Written
  <2> HIDE DEF p, kind
  <2>3. DOMAIN p.wire = 1 .. Len(p.wire)
    BY <2>2 DEF IsSeq
  <2>4. CASE p.decided
    <3>1. /\ p.sent.encoding = p.encoding /\ p.sent.length = p.length
          /\ p.sent.vary = p.vary /\ p.sent.type = p.type
      <4>1. p.sent = [status |-> p.sent.status, type |-> p.type,
                      encoding |-> p.encoding, length |-> p.length, vary |-> p.vary]
        BY <2>2, <2>4 DEF Settled
      <4>2. p.sent.encoding = p.encoding
        BY <4>1
      <4>3. p.sent.length = p.length
        BY <4>1
      <4>4. p.sent.vary = p.vary
        BY <4>1
      <4>5. p.sent.type = p.type
        BY <4>1
      <4> QED
        BY <4>2, <4>3, <4>4, <4>5
    <3>2. p.length # 0 => p.encoding = ""
      BY <2>2, <2>4 DEF Settled
    <3>3. p.vary = (p.type \in Compressible)
      BY <2>2, <2>4 DEF Settled
    <3>4. p.sent.vary <=> p.sent.type \in Compressible
      BY <3>1, <3>3
    <3> QED
      BY <2>2, <2>3, <3>1, <3>2, <3>4 DEF p
  <2>5. CASE ~p.decided
    <3>1. p.sent = Unsent /\ p.wire = <<>>
      BY <2>2, <2>5 DEF Untouched
    <3>2. 1 .. Len(p.wire) = {}
      BY <3>1, EmptyFacts
    <3>3. Unsent.length = 0 /\ Unsent.vary = FALSE /\ Unsent.type \notin Compressible
      BY TypesAssumption DEF Unsent
    <3>4. ~p.sent.vary /\ p.sent.type \notin Compressible /\ p.sent.length = 0
      BY <3>1, <3>3
    <3> QED
      BY <2>3, <3>2, <3>4 DEF p
  <2> QED
    BY <2>4, <2>5
<1> QED
  BY <1>1, Invariant, PTL

-----------------------------------------------------------------------------
\* The validation, along the phases of a search.

VInv ==
    \A r \in Requests :
        /\ phase[r] = "validating" => query[r] \in Searches \cup Plain
        /\ phase[r] \in Working => query[r] \in Searches /\ Valid(query[r])

\* A step of r alone keeps it if r's own phase says nothing or what it did.
LEMMA VIsKept ==
    ASSUME Shape, VInv, NEW r \in Requests, NEW ph,
           phase' = [phase EXCEPT ![r] = ph],
           \A q \in Requests \ {r} : query'[q] = query[q],
           ph = "validating" => query'[r] \in Searches \cup Plain,
           ph \in Working => query'[r] \in Searches /\ Valid(query'[r])
    PROVE  VInv'
<1>1. phase'[r] = ph /\ \A q \in Requests \ {r} : phase'[q] = phase[q]
  BY DEF Shape
<1> SUFFICES ASSUME NEW q \in Requests
             PROVE  /\ phase'[q] = "validating" => query'[q] \in Searches \cup Plain
                    /\ phase'[q] \in Working => query'[q] \in Searches /\ Valid(query'[q])
  BY DEF VInv
<1>2. CASE q = r
  BY <1>1, <1>2
<1>3. CASE q # r
  <2>1. phase'[q] = phase[q] /\ query'[q] = query[q]
    BY <1>1, <1>3
  <2> QED
    BY <2>1 DEF VInv
<1> QED
  BY <1>2, <1>3

\* Only Accept leads past validation, and it asks for a valid search.
LEMMA NextVInv == IInv /\ VInv /\ [Next]_vars => VInv'
<1> SUFFICES ASSUME IInv, VInv, [Next]_vars PROVE VInv'
  OBVIOUS
<1>0. Shape
  BY DEF IInv
<1>1. CASE UNCHANGED vars
  BY <1>1 DEF vars, handlerVars, VInv
<1>2. ASSUME NEW r \in Requests, NEW q \in Searches \cup Plain, NEW accepts \in BOOLEAN,
             Arrive(r, q, accepts)
      PROVE  VInv'
  <2>1. /\ phase' = [phase EXCEPT ![r] = "validating"]
        /\ query'[r] = q /\ \A v \in Requests \ {r} : query'[v] = query[v]
    BY <1>0, <1>2 DEF Arrive, Goes, Shape
  <2>2. "validating" \notin Working
    BY DEF Working
  <2> QED
    BY <1>0, <2>1, <2>2, VIsKept
<1>3. ASSUME NEW r \in Requests, Accept(r) PROVE VInv'
  <2>1. /\ phase' = [phase EXCEPT ![r] = "searching"] /\ query' = query
        /\ query[r] \in Searches \cup Plain /\ query[r].kind = "search"
        /\ Valid(query[r])
    BY <1>3 DEF Accept, Goes, VInv
  <2>2. query[r] \in Searches
    BY <2>1 DEF Plain
  <2> QED
    BY <1>0, <2>1, <2>2, VIsKept
<1>4. ASSUME NEW r \in Requests, NEW to \in {"enriching", "encoding"},
             phase[r] \in Working, Goes(r, to), UNCHANGED query
      PROVE  VInv'
  <2>1. query[r] \in Searches /\ Valid(query[r])
    BY <1>4 DEF VInv
  <2> QED
    BY <1>0, <1>4, <2>1, VIsKept DEF Goes
<1>5. ASSUME NEW r \in Requests, NEW to \in {"replying", "closing", "putting"},
             Goes(r, to), UNCHANGED query
      PROVE  VInv'
  <2>1. to # "validating" /\ to \notin Working
    BY DEF Working
  <2> QED
    BY <1>0, <1>5, <2>1, VIsKept DEF Goes
<1>6. ASSUME NEW r \in Requests, UNCHANGED <<phase, query>> PROVE VInv'
  BY <1>6 DEF VInv
<1>7. ASSUME NEW r \in Requests, Put(r) PROVE VInv'
  <2>1. /\ phase' = [phase EXCEPT ![r] = "idle"]
        /\ \A v \in Requests \ {r} : query'[v] = query[v]
    BY <1>0, <1>7 DEF Put, Goes, Shape
  <2>2. "idle" \notin Working
    BY DEF Working
  <2> QED
    BY <1>0, <2>1, <2>2, VIsKept
<1>8. ASSUME NEW r \in Requests, SearchSucceeds(r) PROVE VInv'
  BY <1>4, <1>8 DEF SearchSucceeds, Working
<1>9. ASSUME NEW r \in Requests, Enriched(r) PROVE VInv'
  BY <1>4, <1>9 DEF Enriched, Working
<1>10. ASSUME NEW r \in Requests, NEW what, Replies(r, what), UNCHANGED query
       PROVE  VInv'
  BY <1>5, <1>10 DEF Replies
<1>11. CASE Next
  <2>1. ASSUME NEW r \in Requests, NEW status, Refuse(r, status) \/ Lookup(r, status)
        PROVE  VInv'
    BY <1>10, <2>1 DEF Refuse, Lookup
  <2>2. ASSUME NEW r \in Requests, SearchFails(r) \/ Encode(r) \/ ServeFile(r)
        PROVE  VInv'
    BY <1>10, <2>2 DEF SearchFails, Encode, ServeFile
  <2>3. ASSUME NEW r \in Requests, Enrich(r) \/ SendStatus(r) \/ SendPiece(r)
        PROVE  VInv'
    BY <1>6, <2>3 DEF Enrich, SendStatus, SendPiece
  <2>4. ASSUME NEW r \in Requests, HandlerReturns(r) \/ Close(r)
        PROVE  VInv'
    BY <1>5, <2>4 DEF HandlerReturns, Close
  <2> QED
    BY <1>2, <1>3, <1>7, <1>8, <1>9, <1>11, <2>1, <2>2, <2>3, <2>4 DEF Next
<1> QED
  BY <1>1, <1>11

\* What passes the validation is a number within the bounds.
LEMMA AcceptableIsWithin ==
    ASSUME NEW x, Coordinate(x), NEW low \in Int, NEW high \in Int,
           Acceptable(x, low, high)
    PROVE  x.is = "number" /\ x.at \in low .. high
  BY DEF Coordinate, Acceptable, Less, Greater

\* No search goes to the upstream service before ValidateSearchMiddleware has
\* seen a point within the bounds and a radius within the limit.
THEOREM SearchesAreValid == Spec => []OnlyValidSearches
<1>1. Init => VInv
  BY DEF Init, VInv, Working
<1>2. IInv /\ VInv /\ [Next]_vars => VInv'
  BY NextVInv
<1>3. VInv => OnlyValidSearches
  <2> SUFFICES ASSUME VInv, NEW r \in Requests,
                      phase[r] \in {"searching", "enriching", "encoding"}
               PROVE  /\ query[r].lat.is = "number" /\ query[r].lat.at \in LatMin .. LatMax
                      /\ query[r].lng.is = "number" /\ query[r].lng.at \in LngMin .. LngMax
                      /\ RadiusOf(query[r]) \in 1 .. MaxRadius
    BY DEF OnlyValidSearches
  <2>1. query[r] \in Searches /\ Valid(query[r])
    BY DEF VInv, Working
  <2>2. /\ Coordinate(query[r].lat) /\ Coordinate(query[r].lng)
        /\ query[r].radius \in Int
    BY <2>1, SearchesAssumption
  <2>3. /\ Acceptable(query[r].lat, LatMin, LatMax)
        /\ Acceptable(query[r].lng, LngMin, LngMax)
        /\ RadiusOf(query[r]) <= MaxRadius
    BY <2>1 DEF Valid
  <2>4. LatMin \in Int /\ LatMax \in Int /\ LngMin \in Int /\ LngMax \in Int
    BY BoundsAssumption
  <2>5. RadiusOf(query[r]) \in 1 .. MaxRadius
    BY <2>2, <2>3, MaxRadiusAssumption DEF RadiusOf
  <2> QED
    BY <2>2, <2>3, <2>4, <2>5, AcceptableIsWithin
<1> QED
  BY <1>1, <1>2, <1>3, Invariant, PTL DEF Spec
-----------------------------------------------------------------------------
\* The types.

\* The reply and the response of every request are of their types, and of the
\* gzip writers just those in use send anywhere.
THEOREM TypeCorrect == Spec => []TypeOK
<1>1. IInv /\ RInv => TypeOK
  <2> SUFFICES ASSUME IInv, RInv PROVE TypeOK
    OBVIOUS
  <2>1. phase \in [Requests -> {"idle", "validating", "searching", "enriching",
                                "encoding", "replying", "closing", "putting"}]
    BY DEF IInv, Shape, GoodNow, Good, Progress, Working
  <2>2. ASSUME NEW r \in Requests
        PROVE  /\ query[r] \in Searches \cup Plain \cup {Idle}
               /\ Len(results[r].of) <= Stations
               /\ reply[r].type \in Types /\ out.resp[r].type \in Types
               /\ out.resp[r].passthrough => out.resp[r].gz = NoWriter
               /\ phase[r] = "idle" => out.resp[r].gz = NoWriter
    <3>1. query[r] \in Searches \cup Plain \cup {Idle} /\ Len(results[r].of) <= Stations
      BY DEF RInv, Results, ResultShape
    <3>2. reply[r].type \in Types /\ out.resp[r].type \in Types
      BY DEF IInv, GoodNow, Sound
    <3>3. out.resp[r].passthrough => out.resp[r].gz = NoWriter
      BY DEF IInv, GoodNow, Good, Untouched, Settled
    <3>4. phase[r] = "idle" => out.resp[r].gz = NoWriter
      BY DEF IInv, GoodNow, Good, Progress, Untouched
    <3> QED
      BY <3>1, <3>2, <3>3, <3>4
  <2>3. out.pool \cap InUse(out) = {}
    BY DEF IInv, PoolIsFree, InUse
  <2>4. ASSUME NEW w \in Writers
        PROVE  out.writer[w].target = Discard <=> w \notin InUse(out)
    <3>1. CASE \E q \in Requests : out.resp[q].gz = w
      <4>1. PICK q \in Requests : out.resp[q].gz = w
        BY <3>1
      <4>2. out.writer[w].target = q /\ w \in InUse(out)
        BY <4>1, NamesAssumption DEF IInv, GoodNow, Good, Body, InUse
      <4> QED
        BY <4>2, NamesAssumption
    <3>2. CASE \A q \in Requests : out.resp[q].gz # w
      BY <3>2 DEF IInv, PoolIsFree, InUse
    <3> QED
      BY <3>1, <3>2
  <2> QED
    BY <2>1, <2>2, <2>3, <2>4 DEF TypeOK
<1> QED
  BY <1>1, Invariant, PTL

-----------------------------------------------------------------------------
\* The lowest price of a fuel.

\* Every nonempty set of naturals has a least member.
LEMMA Least ==
    ASSUME NEW T \in SUBSET Nat, T # {}
    PROVE  \E x \in T : \A y \in T : x <= y
<1> DEFINE R == OpToRel(<, Nat)
<1>1. IsWellFoundedOn(R, Nat)
  BY NatLessThanWellFounded
<1>2. \A x, y \in Nat : x < y => <<x, y>> \in R
  BY DEF OpToRel
<1> HIDE DEF R
<1>3. PICK x \in T : \A y \in T : ~ (<<y, x>> \in R)
  BY <1>1, WFMin
<1>4. ASSUME NEW y \in T
      PROVE  x <= y
  <2>1. x \in Nat /\ y \in Nat
    OBVIOUS
  <2>2. ~(y < x)
    BY <1>2, <1>3, <2>1, Zenon
  <2> QED
    BY <2>1, <2>2
<1> QED
  BY <1>4

\* i is the first of the cheapest offers among match.
IsFirst(offers, match, i) ==
    /\ i \in match
    /\ \A j \in match :
          \/ offers[i].price < offers[j].price
          \/ offers[i].price = offers[j].price /\ i <= j

\* There is one.
LEMMA FirstExists ==
    ASSUME NEW offers, NEW match \in SUBSET Nat, match # {},
           \A i \in match : offers[i].price \in Nat
    PROVE  \E i \in match : IsFirst(offers, match, i)
<1> DEFINE prices == {offers[i].price : i \in match}
<1>1. prices \in SUBSET Nat /\ prices # {}
  OBVIOUS
<1>2. \A i \in match : offers[i].price \in prices
  OBVIOUS
<1>3. \A y \in prices : \E i \in match : offers[i].price = y
  OBVIOUS
<1> HIDE DEF prices
<1>4. PICK x \in prices : \A y \in prices : x <= y
  BY <1>1, Least
<1> DEFINE ties == {i \in match : offers[i].price = x}
<1>5. ties \in SUBSET Nat /\ ties # {}
  BY <1>3
<1> HIDE DEF ties
<1>6. PICK i \in ties : \A j \in ties : i <= j
  BY <1>5, Least
<1>7. i \in match /\ offers[i].price = x
  BY <1>6 DEF ties
<1>8. ASSUME NEW j \in match
      PROVE  \/ offers[i].price < offers[j].price
             \/ offers[i].price = offers[j].price /\ i <= j
  <2>1. x <= offers[j].price /\ x \in Nat /\ offers[j].price \in Nat
    BY <1>1, <1>2, <1>4
  <2>2. CASE offers[j].price = x
    BY <1>6, <1>7, <2>2 DEF ties
  <2>3. CASE offers[j].price # x
    BY <1>7, <2>1, <2>3
  <2> QED
    BY <2>2, <2>3
<1> QED
  BY <1>7, <1>8 DEF IsFirst

\* What the first of the cheapest among match costs.
PriceAmong(offers, match) ==
    LET best == CHOOSE i \in match : \A j \in match :
                    \/ offers[i].price < offers[j].price
                    \/ offers[i].price = offers[j].price /\ i <= j
    IN  IF match = {} THEN NoPrice
        ELSE [price |-> offers[best].price, name |-> offers[best].name]

\* There is only one first, so that is its price.
LEMMA PriceIs ==
    ASSUME NEW offers, NEW match \in SUBSET Nat,
           \A i \in match : offers[i].price \in Nat,
           NEW i, IsFirst(offers, match, i)
    PROVE  PriceAmong(offers, match) = [price |-> offers[i].price, name |-> offers[i].name]
<1> DEFINE best == CHOOSE k \in match : \A j \in match :
                       \/ offers[k].price < offers[j].price
                       \/ offers[k].price = offers[j].price /\ k <= j
<1>1. IsFirst(offers, match, best) /\ match # {}
  BY DEF IsFirst
<1>2. PriceAmong(offers, match) =
         [price |-> offers[best].price, name |-> offers[best].name]
  BY <1>1 DEF PriceAmong
<1> HIDE DEF best
<1>3. best \in match /\ i \in match
  BY <1>1 DEF IsFirst
<1>4. /\ best \in Nat /\ i \in Nat /\ offers[best].price \in Nat
      /\ offers[i].price \in Nat
  BY <1>3
<1>5. \/ offers[best].price < offers[i].price
      \/ offers[best].price = offers[i].price /\ best <= i
  BY <1>1, <1>3 DEF IsFirst
<1>6. \/ offers[i].price < offers[best].price
      \/ offers[i].price = offers[best].price /\ i <= best
  BY <1>3 DEF IsFirst
<1>7. best = i
  BY <1>4, <1>5, <1>6
<1> QED
  BY <1>2, <1>7

\* The offers of a fuel among the first n.
Match(offers, fuel, n) == {i \in 1 .. n : offers[i].fuel = fuel}

\* The loop's body: one more offer is the new first, or is not.
LEMMA OneMoreOffer ==
    ASSUME NEW offers, NEW fuel, NEW n \in Nat, n # 0,
           \A i \in Match(offers, fuel, n) : offers[i].price \in Nat /\ offers[i].price # 0,
           NEW before, before = PriceAmong(offers, Match(offers, fuel, n - 1))
    PROVE  PriceAmong(offers, Match(offers, fuel, n)) =
              IF /\ offers[n].fuel = fuel
                 /\ before.price = 0 \/ offers[n].price < before.price
              THEN [price |-> offers[n].price, name |-> offers[n].name]
              ELSE before
<1> DEFINE M == Match(offers, fuel, n)
           L == Match(offers, fuel, n - 1)
           this == [price |-> offers[n].price, name |-> offers[n].name]
<1>1. /\ M \in SUBSET Nat /\ L \in SUBSET Nat /\ L \subseteq M
      /\ offers[n].fuel # fuel => M = L
      /\ offers[n].fuel = fuel => M = L \cup {n} /\ n \in M
      /\ \A i \in L : i < n
  BY DEF Match
<1> HIDE DEF M, L
<1>2. \A i \in M : offers[i].price \in Nat /\ offers[i].price # 0
  BY DEF M
<1>3. CASE offers[n].fuel # fuel
  BY <1>1, <1>3 DEF M, L
<1>4. CASE offers[n].fuel = fuel /\ L = {}
  <2>1. before.price = 0
    BY <1>4 DEF PriceAmong, NoPrice, L
  <2>2. IsFirst(offers, M, n)
    BY <1>1, <1>2, <1>4 DEF IsFirst
  <2>3. PriceAmong(offers, M) = this
    BY <1>1, <1>2, <2>2, PriceIs
  <2> QED
    BY <1>4, <2>1, <2>3 DEF M
<1>5. CASE offers[n].fuel = fuel /\ L # {}
  <2>1. PICK i \in L : IsFirst(offers, L, i)
    BY <1>1, <1>2, <1>5, FirstExists
  <2>2. before = [price |-> offers[i].price, name |-> offers[i].name]
    BY <1>1, <1>2, <2>1, PriceIs DEF L
  <2>3. before.price = offers[i].price /\ before.price # 0 /\ before.price \in Nat
        /\ offers[n].price \in Nat
    BY <1>1, <1>2, <1>5, <2>2
  <2>4. CASE offers[n].price < before.price
    <3>1. ASSUME NEW j \in M
          PROVE  \/ offers[n].price < offers[j].price
                 \/ offers[n].price = offers[j].price /\ n <= j
      <4>1. CASE j = n
        BY <2>3, <4>1
      <4>2. CASE j \in L
        <5>1. offers[i].price <= offers[j].price
          BY <1>2, <1>1, <2>1, <4>2 DEF IsFirst
        <5> QED
          BY <1>1, <1>2, <2>3, <2>4, <4>2, <5>1
      <4> QED
        BY <1>1, <1>5, <4>1, <4>2
    <3>2. IsFirst(offers, M, n)
      BY <1>1, <1>5, <3>1 DEF IsFirst
    <3>3. PriceAmong(offers, M) = this
      BY <1>1, <1>2, <3>2, PriceIs
    <3> QED
      BY <1>5, <2>4, <3>3 DEF M
  <2>5. CASE ~(offers[n].price < before.price)
    <3>1. ASSUME NEW j \in M
          PROVE  \/ offers[i].price < offers[j].price
                 \/ offers[i].price = offers[j].price /\ i <= j
      <4>1. CASE j = n
        <5>1. i \in Nat /\ i < n
          BY <1>1, <2>1
        <5> QED
          BY <2>3, <2>5, <4>1, <5>1
      <4>2. CASE j \in L
        BY <2>1, <4>2 DEF IsFirst
      <4> QED
        BY <1>1, <1>5, <4>1, <4>2
    <3>2. IsFirst(offers, M, i)
      BY <1>1, <2>1, <3>1 DEF IsFirst
    <3>3. PriceAmong(offers, M) = before
      BY <1>1, <1>2, <2>2, <3>2, PriceIs
    <3> QED
      BY <2>3, <2>5, <3>3 DEF M
  <2> QED
    BY <2>4, <2>5
<1> QED
  BY <1>3, <1>4, <1>5

\* The recursion of the loop.
Loops(best, offers, fuel) ==
    best = [n \in 0 .. Len(offers) |->
               IF n = 0 THEN NoPrice
               ELSE IF /\ offers[n].fuel = fuel
                       /\ best[n - 1].price = 0 \/ offers[n].price < best[n - 1].price
                    THEN [price |-> offers[n].price, name |-> offers[n].name]
                    ELSE best[n - 1]]

\* A function that satisfies it is the one it defines.
LEMMA LoopIs ==
    ASSUME NEW station, NEW fuel, NEW offers, offers = station.offers,
           Len(offers) \in Nat, NEW w, Loops(w, offers, fuel)
    PROVE  calculateSelectedPrice(station, fuel) = w[Len(offers)]
<1> DEFINE N == 0 .. Len(offers)
           Recursive(f) == Loops(f, offers, fuel)
           v == CHOOSE f : Recursive(f)
           Differs == {n \in N : v[n] # w[n]}
<1>1. calculateSelectedPrice(station, fuel) = v[Len(offers)]
  BY DEF calculateSelectedPrice, Loops
<1>2. Recursive(w)
  OBVIOUS
<1> HIDE DEF Recursive
<1>3. Recursive(v)
  BY <1>2
<1> HIDE DEF v
<1>4. ASSUME NEW n \in N, n # 0, v[n - 1] = w[n - 1]
      PROVE  v[n] = w[n]
  BY <1>2, <1>3, <1>4, ZenonT(40) DEF Recursive, Loops
<1>5. v[0] = w[0]
  BY <1>2, <1>3 DEF Recursive, Loops
<1>6. ASSUME Differs # {}
      PROVE  FALSE
  <2>1. PICK n \in Differs : \A y \in Differs : n <= y
    <3>1. Differs \in SUBSET Nat
      OBVIOUS
    <3> HIDE DEF Differs
    <3> QED
      BY <1>6, <3>1, Least
  <2>2. n \in Nat /\ n # 0 /\ n <= Len(offers)
    BY <1>5
  <2>3. n - 1 \in N /\ ~(n <= n - 1)
    BY <2>2
  <2> HIDE DEF Differs, N
  <2>4. n - 1 \notin Differs
    BY <2>1, <2>3
  <2>5. n \in N /\ v[n - 1] = w[n - 1]
    BY <2>1, <2>3, <2>4 DEF Differs
  <2> QED
    BY <1>4, <2>1, <2>2, <2>5 DEF Differs
<1> QED
  BY <1>1, <1>6

\* calculateSelectedPrice finds the first of the cheapest offers of the fuel,
\* where every one of them has a price.
LEMMA SelectedIsCheapest ==
    ASSUME NEW station, NEW fuel, station.offers \in Offers, Priced(station.offers, fuel)
    PROVE  calculateSelectedPrice(station, fuel) = Cheapest(station.offers, fuel)
<1> DEFINE offers == station.offers
           P(n) == PriceAmong(offers, Match(offers, fuel, n))
           w == [n \in 0 .. Len(offers) |-> P(n)]
<1>1. /\ Len(offers) \in Nat /\ DOMAIN offers = 1 .. Len(offers)
      /\ \A i \in DOMAIN offers : offers[i].price \in Int
  BY OffersAssumption
<1>2. \A i \in 1 .. Len(offers) : offers[i].fuel = fuel =>
         offers[i].price \in Nat /\ offers[i].price # 0
  BY <1>1 DEF Priced
<1>4. P(0) = NoPrice
  <2>1. Match(offers, fuel, 0) = {}
    BY DEF Match
  <2> QED
    BY <2>1 DEF PriceAmong
<1> HIDE DEF offers
<1>5. ASSUME NEW n \in 1 .. Len(offers)
      PROVE  P(n) = IF /\ offers[n].fuel = fuel
                       /\ P(n - 1).price = 0 \/ offers[n].price < P(n - 1).price
                    THEN [price |-> offers[n].price, name |-> offers[n].name]
                    ELSE P(n - 1)
  <2>1. n \in Nat /\ n # 0
    BY <1>1
  <2>2. \A i \in Match(offers, fuel, n) : offers[i].price \in Nat /\ offers[i].price # 0
    BY <1>1, <1>2 DEF Match
  <2> QED
    BY <2>1, <2>2, OneMoreOffer
<1> HIDE DEF P
<1>6. \A n \in 0 .. Len(offers) : n # 0 => n \in 1 .. Len(offers) /\ n - 1 \in 0 .. Len(offers)
  BY <1>1
<1>7. Loops(w, offers, fuel)
  BY <1>4, <1>5, <1>6 DEF Loops
<1>8. w[Len(offers)] = P(Len(offers))
  BY <1>1
<1> HIDE DEF w
<1>9. calculateSelectedPrice(station, fuel) = P(Len(offers))
  <2>1. offers = station.offers /\ Len(offers) \in Nat
    BY <1>1 DEF offers
  <2>2. calculateSelectedPrice(station, fuel) = w[Len(offers)]
    BY <1>7, <2>1, LoopIs
  <2> QED
    BY <1>8, <2>2
<1>10. Match(offers, fuel, Len(offers)) = {i \in DOMAIN offers : offers[i].fuel = fuel}
  BY <1>1 DEF Match
<1> QED
  BY <1>9, <1>10 DEF P, PriceAmong, Cheapest, offers

-----------------------------------------------------------------------------
\* The answer to a search.

\* Every search that does not fail is answered with the zone's stations and, for
\* each, the lowest price of the fuel it asked for itself: SearchHandler writes
\* into a slice of its own, never into the cached result.
THEOREM AnswersAreOwn == Spec => []AnswersOwnFuel
<1>1. IInv /\ RInv => AnswersOwnFuel
  <2> SUFFICES ASSUME IInv, RInv, NEW r \in Requests, Answered(r),
                      query[r].kind = "search", out.resp[r].sent.status = 200
               PROVE  LET answer == out.resp[r].wire[1].piece.of
                      IN  /\ Len(answer) = Stations
                          /\ \A i \in Indices :
                                /\ answer[i].offers = zone[i].offers
                                /\ Priced(answer[i].offers, query[r].fuel) =>
                                      answer[i].selected =
                                          IF query[r].fuel > 0
                                          THEN Cheapest(answer[i].offers, query[r].fuel)
                                          ELSE NoPrice
    BY DEF AnswersOwnFuel
  <2> DEFINE p == out.resp[r]
             answer == p.wire[1].piece.of
  <2>1. /\ Good("putting", r, query[r].kind, reply[r], p, out.writer[p.gz])
        /\ Sound("putting", query[r].kind, AnswerOf(zone, query[r]), reply[r], p,
                 out.writer[p.gz])
    BY DEF IInv, GoodNow, Answered
  <2>2. p.decided
    <3>1. p.sent.status = 200 /\ Unsent.status # 200
      BY DEF Unsent
    <3> HIDE DEF p
    <3>2. ~p.decided => p.sent = Unsent
      BY <2>1 DEF Good, Untouched
    <3> QED
      BY <3>1, <3>2
  <2>3. Bears(AnswerOf(zone, query[r]), reply[r], p, out.writer[p.gz])
    BY <2>1, <2>2 DEF Sound, Sending, Fails
  <2>4. Len(p.wire) = 1
    BY <2>1 DEF Good, Progress, Written, Size
  <2>5. answer = AnswerOf(zone, query[r])
    <3> HIDE DEF p
    <3>1. \A i \in 1 .. Len(p.wire) : p.wire[i].piece.of = AnswerOf(zone, query[r])
      BY <2>3 DEF Bears
    <3>2. 1 \in 1 .. Len(p.wire)
      BY <2>4
    <3> QED
      BY <3>1, <3>2
  <2> HIDE DEF p, answer
  <2>6. answer = [i \in 1 .. Stations |-> Selected(zone[i], query[r].fuel)]
    BY <2>5 DEF AnswerOf, Indices
  <2>7. Len(answer) = Stations
    BY <2>6, StationsAssumption
  <2>8. ASSUME NEW i \in Indices
        PROVE  /\ answer[i].offers = zone[i].offers
               /\ Priced(answer[i].offers, query[r].fuel) =>
                     answer[i].selected = IF query[r].fuel > 0
                                          THEN Cheapest(answer[i].offers, query[r].fuel)
                                          ELSE NoPrice
    <3>1. StationShape(zone[i])
      BY DEF RInv
    <3> DEFINE station == zone[i]
               price == IF query[r].fuel > 0
                        THEN calculateSelectedPrice(station, query[r].fuel) ELSE NoPrice
    <3>2. answer[i] = [station EXCEPT !.selected = price]
      BY <2>6 DEF Selected, Indices
    <3> HIDE DEF station, price
    <3>3. /\ station = [offers |-> station.offers, selected |-> NoPrice]
          /\ station.offers \in Offers
      BY <3>1 DEF StationShape, station
    <3>4. answer[i].offers = station.offers /\ answer[i].selected = price
      BY <3>2, <3>3
    <3>5. ASSUME Priced(station.offers, query[r].fuel)
          PROVE  price = IF query[r].fuel > 0
                         THEN Cheapest(station.offers, query[r].fuel) ELSE NoPrice
      BY <3>3, <3>5, SelectedIsCheapest DEF price
    <3> QED
      BY <3>4, <3>5 DEF station
  <2> QED
    BY <2>7, <2>8 DEF p, answer
<1> QED
  BY <1>1, Invariant, PTL
=============================================================================
