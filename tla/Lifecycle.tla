------------------------------ MODULE Lifecycle ------------------------------
(***************************************************************************)
(* The life of the server process: main.go, App.Run and App.Close, with the *)
(* timeouts of config.go and of the upstream clients, over the connections *)
(* of net/http.  Time passes in ticks; nothing that is due is passed over. *)
(*                                                                         *)
(* A connection is new until the header of its first request is in, active *)
(* while a handler works, and idle between requests.  It is late, rather   *)
(* than active, if the request came in after main had gone on to close.  A *)
(* handler takes as long as its upstream round trip, no time for the rest. *)
(***************************************************************************)
EXTENDS Naturals

CONSTANTS
    Conns,            \* connections there may be at a time
    ReadTimeout,      \* config.go, in ticks, as the following
    WriteTimeout,
    ShutdownTimeout,  \* app.go
    UpstreamTimeout   \* the longest HTTPClient.Timeout of internal/api

ASSUME TimeoutAssumption ==
    /\ ReadTimeout \in Nat /\ WriteTimeout \in Nat
    /\ ShutdownTimeout \in Nat /\ UpstreamTimeout \in Nat

\* "Must exceed the longest upstream client timeout" (config.go:42, app.go:82).
ASSUME ExceedAssumption ==
    UpstreamTimeout < WriteTimeout /\ UpstreamTimeout < ShutdownTimeout

VARIABLES
    conn,       \* connection -> [at, since: ticks it has been new or at work]
    serve,      \* what Run is doing, or how it ended
    main,       \* where the main goroutine is: select, Shutdown, the stops, exit
    signalled,  \* ctx.Done(): SIGINT or SIGTERM has arrived
    drain,      \* ticks since Shutdown was called
    stopped,    \* how many of the background goroutines have been told to stop
    cut         \* history: connections whose request was cut off, unless it was late

vars == <<conn, serve, main, signalled, drain, stopped, cut>>

\* The background goroutines in the order in which Close stops them.
Background == <<"stationsCache", "detailsCache", "geocodeCache", "rateLimiter">>
Closed == [at |-> "closed", since |-> 0]
InFlight(c) == conn[c].at = "active"
AtWork(c) == conn[c].at \in {"active", "late"}

TypeOK ==
    /\ conn \in [Conns -> [at : {"closed", "new", "active", "late", "idle"}, since : Nat]]
    /\ serve \in {"listening", "failed", "shut"}
    /\ main \in {"select", "draining", "stopping", "exited"}
    /\ signalled \in BOOLEAN
    /\ drain \in Nat
    /\ stopped \in 0 .. 4
    /\ cut \subseteq Conns
    /\ \A c \in Conns :
          /\ conn[c].at = "new" => conn[c].since <= ReadTimeout
          /\ AtWork(c) => conn[c].since <= UpstreamTimeout
          /\ conn[c].at = "late" => main # "select"
    /\ drain <= ShutdownTimeout
    /\ main = "select" => serve # "shut"
    /\ stopped > 0 => main \in {"stopping", "exited"}

\* New, and the goroutine that main starts.
Init ==
    /\ conn = [c \in Conns |-> Closed]
    /\ serve = "listening"
    /\ main = "select"
    /\ signalled = FALSE
    /\ drain = 0
    /\ stopped = 0
    /\ cut = {}

-----------------------------------------------------------------------------
\* Connections.  Definitions named slip_ are plausible mistakes in the
\* definition that follows them; no action uses one.

\* Shutdown closes the listener before anything else, and so does Run when it
\* fails: nothing is accepted while main drains.
Accept(c) ==
    /\ main # "exited"
    /\ serve = "listening"
    /\ conn[c].at = "closed"
    /\ conn' = [conn EXCEPT ![c] = [at |-> "new", since |-> 0]]
    /\ UNCHANGED <<serve, main, signalled, drain, stopped, cut>>

\* A request that comes in on a connection that is still open is handled, also
\* while main drains.
HeaderRead(c) ==
    /\ main # "exited"
    /\ conn[c].at \in {"new", "idle"}
    /\ conn' = [conn EXCEPT ![c] = [at |-> IF main = "select" THEN "active" ELSE "late",
                                    since |-> 0]]
    /\ UNCHANGED <<serve, main, signalled, drain, stopped, cut>>

\* ReadTimeout, IdleTimeout, a malformed request or a client that goes away.
ConnEnds(c) ==
    /\ main # "exited"
    /\ conn[c].at \in {"new", "idle"}
    /\ conn' = [conn EXCEPT ![c] = Closed]
    /\ UNCHANGED <<serve, main, signalled, drain, stopped, cut>>

\* The handler has its answer and writes it.  A write after the deadline fails.
\* A server that is shutting down keeps no connection alive.
Respond(c) ==
    /\ main # "exited"
    /\ AtWork(c)
    /\ \E next \in {Closed} \cup
            (IF main = "select" THEN {[at |-> "idle", since |-> 0]} ELSE {}) :
          conn' = [conn EXCEPT ![c] = next]
    /\ cut' = IF InFlight(c) /\ conn[c].since >= WriteTimeout THEN cut \cup {c} ELSE cut
    /\ UNCHANGED <<serve, main, signalled, drain, stopped>>

-----------------------------------------------------------------------------
\* The main goroutine.

\* The port is in use, or accepting fails for good.
RunFails ==
    /\ main # "exited"
    /\ serve = "listening"
    /\ serve' = "failed"
    /\ UNCHANGED <<conn, main, signalled, drain, stopped, cut>>

SignalArrives ==
    /\ main # "exited"
    /\ ~signalled
    /\ signalled' = TRUE
    /\ UNCHANGED <<conn, serve, main, drain, stopped, cut>>

slip_ErrorOnlyLogged ==
    /\ main = "select"
    /\ serve = "failed"
    /\ serve' = "listening"
    /\ UNCHANGED <<conn, main, signalled, drain, stopped, cut>>

\* Where both are ready, select takes either.
SeeError ==
    /\ main = "select"
    /\ serve = "failed"
    /\ main' = "draining"
    /\ UNCHANGED <<conn, serve, signalled, drain, stopped, cut>>

SeeSignal ==
    /\ main = "select"
    /\ signalled
    /\ main' = "draining"
    /\ serve' = IF serve = "listening" THEN "shut" ELSE serve
    /\ UNCHANGED <<conn, signalled, drain, stopped, cut>>

\* As the server's own Close does.
slip_ClosesAtOnce ==
    /\ main = "draining"
    /\ conn' = [c \in Conns |-> Closed]
    /\ main' = "stopping"
    /\ cut' = cut \cup {c \in Conns : InFlight(c)}
    /\ UNCHANGED <<serve, signalled, drain, stopped>>

\* Shutdown looks at the connections: it closes the idle ones, and is done when
\* there are no others.
Poll ==
    /\ main = "draining"
    /\ conn' = [c \in Conns |-> IF conn[c].at = "idle" THEN Closed ELSE conn[c]]
    /\ main' = IF \E c \in Conns : conn[c].at = "new" \/ AtWork(c)
               THEN "draining" ELSE "stopping"
    /\ UNCHANGED <<serve, signalled, drain, stopped, cut>>

\* shutdownTimeout: Shutdown returns an error, which Close only logs.
Expire ==
    /\ main = "draining"
    /\ drain >= ShutdownTimeout
    /\ main' = "stopping"
    /\ UNCHANGED <<conn, serve, signalled, drain, stopped, cut>>

StopNext ==
    /\ main = "stopping"
    /\ stopped < 4
    /\ stopped' = stopped + 1
    /\ UNCHANGED <<conn, serve, main, signalled, drain, cut>>

\* The process ends, and with it every connection.
Exit ==
    /\ main = "stopping"
    /\ stopped = 4
    /\ main' = "exited"
    /\ conn' = [c \in Conns |-> Closed]
    /\ cut' = cut \cup {c \in Conns : InFlight(c)}
    /\ UNCHANGED <<serve, signalled, drain, stopped>>

-----------------------------------------------------------------------------
slip_RetriesOnce(c) ==
    /\ conn[c].at = "new" => conn[c].since < ReadTimeout
    /\ AtWork(c) => conn[c].since < 2 * UpstreamTimeout

\* What is due happens before time goes on: the read deadline of a connection,
\* the timeout of an upstream round trip, the deadline of Shutdown.
MayWait(c) ==
    /\ conn[c].at = "new" => conn[c].since < ReadTimeout
    /\ AtWork(c) => conn[c].since < UpstreamTimeout

Tick ==
    /\ main # "exited"
    /\ \A c \in Conns : MayWait(c)
    /\ main = "draining" => drain < ShutdownTimeout
    /\ conn' = [c \in Conns |-> IF conn[c].at = "new" \/ AtWork(c)
                                THEN [conn[c] EXCEPT !.since = @ + 1] ELSE conn[c]]
    /\ drain' = IF main = "draining" THEN drain + 1 ELSE drain
    /\ UNCHANGED <<serve, main, signalled, stopped, cut>>

Main == SeeError \/ SeeSignal \/ Poll \/ Expire \/ StopNext \/ Exit

Next ==
    \/ \E c \in Conns : Accept(c) \/ HeaderRead(c) \/ ConnEnds(c) \/ Respond(c)
    \/ RunFails
    \/ SignalArrives
    \/ Main
    \/ Tick

Spec == Init /\ [][Next]_vars

\* Time goes on, the main goroutine runs when it can, a read ends at its
\* deadline and a handler when its round trip does.  Nobody owes the server a
\* signal, a request or a failure.
FairSpec ==
    /\ Spec
    /\ WF_vars(Tick)
    /\ WF_vars(SeeError) /\ WF_vars(SeeSignal) /\ WF_vars(Expire)
    /\ WF_vars(StopNext) /\ WF_vars(Exit)
    /\ \A c \in Conns : WF_vars(ConnEnds(c)) /\ WF_vars(Respond(c))

-----------------------------------------------------------------------------
\* "So an in-flight request can finish draining instead of being cut off", and
\* the goroutines "those requests might still touch" stop only then (app.go:82-93);
\* no slow upstream reply "gets truncated by the write deadline" (config.go:42).
\* A request that was in when main went on to close is never cut off, neither by
\* the write deadline nor by the end of the process, and runs no handler while
\* the goroutines are being stopped.
InFlightIsServed ==
    /\ cut = {}
    /\ stopped > 0 => \A c \in Conns : ~InFlight(c)

\* A signal, or the failure of Run, ends the process, whatever clients do.
ProcessEnds == (signalled \/ serve = "failed") ~> main = "exited"
=============================================================================
