---------------------------- MODULE MCRateLimit ----------------------------
(***************************************************************************)
(* Model values for RateLimit: three clients and a table of two buckets of *)
(* one request.  A client sends no header of its own or claims, in both    *)
(* headers, to be some client.                                             *)
(***************************************************************************)
EXTENDS RateLimit

Lies == {[forwarded |-> <<>>, realIP |-> NotAnIP]}
            \cup {[forwarded |-> <<c>>, realIP |-> c] : c \in Clients}
=============================================================================
