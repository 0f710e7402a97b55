----------------------------- MODULE GzipWriter -----------------------------
(***************************************************************************)
(* The compressing response writer of internal/app/app.go: it decides      *)
(* once, when the header or the first bytes are about to leave, whether a  *)
(* response is compressed, and borrows a gzip.Writer from a pool for it.   *)
(*                                                                         *)
(* The operators are functions of `out`, the state of all responses and of *)
(* the gzip writers; module Handlers, which extends this one, says when a  *)
(* response is written.  A gzip writer keeps what it is given until it is  *)
(* closed, and sends its own header with the first write.                  *)
(***************************************************************************)
EXTENDS Naturals, Sequences, FiniteSets

CONSTANTS
    Requests,      \* handler goroutines
    Writers,       \* gzip writers that may be made
    Types,         \* content types
    Compressible   \* those with a prefix in compressibleTypes

ASSUME TypesAssumption == Compressible \subseteq Types /\ "" \in Types \ Compressible
ASSUME WritersAssumption == Cardinality(Writers) >= Cardinality(Requests)

VARIABLE out
\* out.resp[r]    the response to r's request
\* out.pool       the gzip writers in the pool
\* out.writer[w]  where gzip writer w sends, and what it still holds

NoWriter == "none"
Discard == "discard"
ASSUME NamesAssumption == NoWriter \notin Writers /\ Discard \notin Requests

Unsent == [status |-> 0, type |-> "", encoding |-> "", length |-> 0, vary |-> FALSE]

\* A response before anything has been written.  length is a Content-Length,
\* 0 if there is none.
Blank(accepts) ==
    [type |-> "", encoding |-> "", length |-> 0, vary |-> FALSE,
     acceptsGzip |-> accepts, decided |-> FALSE, passthrough |-> FALSE,
     gz |-> NoWriter,
     sent |-> Unsent,      \* the header as it left
     wire |-> <<>>]        \* the pieces of the body as they left

NoOutput ==
    [resp   |-> [r \in Requests |-> Blank(FALSE)],
     pool   |-> {},
     writer |-> [w \in Writers |-> [target |-> Discard, held |-> <<>>]]]

InUse(o) == {o.resp[r].gz : r \in Requests} \ {NoWriter}

\* What gzipWriterPool.Get may return: a pooled writer or, as the pool may be
\* empty or drop what it holds, a new one.  Nothing is asked of it once decided.
Gettable(o, r) ==
    IF o.resp[r].decided THEN {NoWriter} ELSE o.pool \cup (Writers \ InUse(o))

-----------------------------------------------------------------------------
\* The net/http response underneath: its header leaves as it is at the first
\* WriteHeader or Write.
SendHeader(p, status) ==
    IF p.sent # Unsent THEN p
    ELSE [p EXCEPT !.sent = [status |-> status, type |-> p.type,
                             encoding |-> p.encoding, length |-> p.length,
                             vary |-> p.vary]]

Sends(p, pieces, how) ==
    [SendHeader(p, 200) EXCEPT
        !.wire = @ \o [i \in 1 .. Len(pieces) |-> [piece |-> pieces[i], how |-> how]]]

\* Definitions named slip_ are plausible mistakes in the definition that
\* follows them; no action uses one.  Each breaks a property.
slip_KeepsLength(p, w) ==
    IF p.decided THEN p
    ELSE IF p.encoding # "" \/ p.type \notin Compressible
         THEN [p EXCEPT !.decided = TRUE, !.passthrough = TRUE]
    ELSE IF ~p.acceptsGzip
         THEN [p EXCEPT !.decided = TRUE, !.vary = TRUE, !.passthrough = TRUE]
    ELSE [p EXCEPT !.decided = TRUE, !.vary = TRUE, !.encoding = "gzip", !.gz = w]

\* decide(), with w the writer the pool would give.
decide(p, w) ==
    IF p.decided THEN p
    ELSE IF p.encoding # "" \/ p.type \notin Compressible
         THEN [p EXCEPT !.decided = TRUE, !.passthrough = TRUE]
    ELSE IF ~p.acceptsGzip
         THEN [p EXCEPT !.decided = TRUE, !.vary = TRUE, !.passthrough = TRUE]
    ELSE [p EXCEPT !.decided = TRUE, !.vary = TRUE, !.length = 0,
                   !.encoding = "gzip", !.gz = w]

\* The response of r becomes p; a writer it has just got sends to r from now.
Updated(o, r, p) ==
    [o EXCEPT !.resp[r] = p,
              !.pool = @ \ {p.gz},
              !.writer = [w \in Writers |->
                  IF w = p.gz /\ o.resp[r].gz # w
                  THEN [target |-> r, held |-> <<>>] ELSE @[w]]]

WriteHeader(o, r, status, w) ==
    Updated(o, r, SendHeader(decide(o.resp[r], w), status))

\* Write; a missing type is detected first, which finds `found`.
Write(o, r, piece, found, w) ==
    LET typed == IF ~o.resp[r].decided /\ o.resp[r].type = ""
                 THEN [o.resp[r] EXCEPT !.type = found] ELSE o.resp[r]
        p == decide(typed, w)
        u == Updated(o, r, IF p.passthrough THEN Sends(p, <<piece>>, "plain")
                                            ELSE SendHeader(p, 200))
    IN  IF p.passthrough THEN u
        ELSE [u EXCEPT !.writer[p.gz].held = Append(@, piece)]

\* close(): gz.Close sends what is held to wherever the writer sends to.
slip_PutBeforeReset(o, r) ==
    LET w == o.resp[r].gz
    IN  IF w = NoWriter \/ o.writer[w].target = Discard THEN o
        ELSE [o EXCEPT !.resp[o.writer[w].target] = Sends(@, o.writer[w].held, "gzip"),
                       !.writer[w].held = <<>>,
                       !.pool = @ \cup {w}]

CloseGzip(o, r) ==
    LET w == o.resp[r].gz
        to == o.writer[w].target
    IN  IF w = NoWriter \/ to = Discard THEN o
        ELSE [o EXCEPT !.resp[to] = Sends(@, o.writer[w].held, "gzip"),
                       !.writer[w].held = <<>>]

\* gz.Reset(io.Discard), then back to the pool.
PutGzip(o, r) ==
    LET w == o.resp[r].gz
    IN  IF w = NoWriter THEN o
        ELSE [o EXCEPT !.writer[w] = [target |-> Discard, held |-> <<>>],
                       !.pool = @ \cup {w},
                       !.resp[r].gz = NoWriter]
=============================================================================
