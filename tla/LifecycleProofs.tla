--------------------------- MODULE LifecycleProofs ---------------------------
(***************************************************************************)
(* Whatever the timeouts are, as long as the write deadline and the        *)
(* deadline of Shutdown exceed the longest upstream timeout, no request    *)
(* that was in when main went on to close is cut off.                      *)
(*                                                                         *)
(* The reason is OlderThanDrain: such a request has been at work for at    *)
(* least as long as Shutdown has been waiting, so its round trip ends      *)
(* before Shutdown gives up.                                               *)
(***************************************************************************)
EXTENDS Lifecycle, TLAPS

OlderThanDrain ==
    main = "draining" => \A c \in Conns : InFlight(c) => drain <= conn[c].since

NoneLeft ==
    main \in {"stopping", "exited"} => \A c \in Conns : ~InFlight(c)

IInv ==
    /\ TypeOK
    /\ main = "select" => drain = 0
    /\ OlderThanDrain
    /\ NoneLeft
    /\ cut = {}

\* A server that has just begun satisfies the invariant.
LEMMA InitIInv == Init => IInv
<1> SUFFICES ASSUME Init
             PROVE  IInv
  OBVIOUS
<1>1. \A c \in Conns : conn[c].at = "closed"
  BY DEF Init, Closed
<1>2. conn \in [Conns -> [at : {"closed", "new", "active", "late", "idle"}, since : Nat]]
  BY DEF Init, Closed
<1>3. signalled \in BOOLEAN
  BY DEF Init
<1>4. TypeOK
  BY <1>1, <1>2, <1>3, TimeoutAssumption DEF Init, TypeOK, AtWork
<1> QED
  BY <1>1, <1>4 DEF Init, IInv, OlderThanDrain, NoneLeft, InFlight

\* A handler answers before its write deadline.
LEMMA RespondsInTime ==
    ASSUME TypeOK, NEW c \in Conns, AtWork(c)
    PROVE  conn[c].since < WriteTimeout
<1>1. conn[c].since \in Nat /\ conn[c].since <= UpstreamTimeout
  BY DEF TypeOK
<1> QED
  BY <1>1, TimeoutAssumption, ExceedAssumption

\* When Shutdown gives up, no request is left that was in when it was called.
LEMMA NoneLeftAtDeadline ==
    ASSUME IInv, Expire
    PROVE  \A c \in Conns : ~InFlight(c)
<1>1. SUFFICES ASSUME NEW c \in Conns, InFlight(c)
               PROVE  FALSE
  OBVIOUS
<1>2. drain <= conn[c].since
  BY <1>1 DEF IInv, OlderThanDrain, Expire
<1>3. conn[c].since <= UpstreamTimeout
  BY <1>1 DEF IInv, TypeOK, InFlight, AtWork
<1>4. drain >= ShutdownTimeout
  BY DEF Expire
<1>5. drain \in Nat /\ conn[c].since \in Nat
  BY DEF IInv, TypeOK
<1> QED
  BY <1>2, <1>3, <1>4, <1>5, TimeoutAssumption, ExceedAssumption

\* Every step keeps it.
LEMMA NextPreserves == IInv /\ [Next]_vars => IInv'
<1> SUFFICES ASSUME IInv, [Next]_vars
             PROVE  IInv'
  OBVIOUS
<1> USE TimeoutAssumption DEF IInv
<1>1. CASE \E c \in Conns : Accept(c)
  BY <1>1 DEF Accept, TypeOK, OlderThanDrain, NoneLeft, InFlight, AtWork
<1>2. CASE \E c \in Conns : HeaderRead(c)
  BY <1>2 DEF HeaderRead, TypeOK, OlderThanDrain, NoneLeft, InFlight, AtWork
<1>3. CASE \E c \in Conns : ConnEnds(c)
  BY <1>3 DEF ConnEnds, TypeOK, OlderThanDrain, NoneLeft, InFlight, AtWork, Closed
<1>4. CASE \E c \in Conns : Respond(c)
  <2>1. PICK c \in Conns : Respond(c)
    BY <1>4
  <2>2. cut' = {}
    <3>1. conn[c].since < WriteTimeout
      BY <2>1, RespondsInTime DEF Respond
    <3>2. conn[c].since \in Nat
      BY DEF TypeOK
    <3> QED
      BY <2>1, <3>1, <3>2 DEF Respond
  <2>3. PICK next \in [at : {"closed", "idle"}, since : Nat] :
            conn' = [conn EXCEPT ![c] = next]
    BY <2>1 DEF Respond, Closed
  <2>4. UNCHANGED <<serve, main, signalled, drain, stopped>>
    BY <2>1 DEF Respond
  <2>5. \A d \in Conns : conn'[d] = IF d = c THEN next ELSE conn[d]
    BY <2>3 DEF TypeOK
  <2>6. TypeOK'
    BY <2>2, <2>3, <2>4, <2>5 DEF TypeOK, AtWork
  <2> QED
    BY <2>2, <2>4, <2>5, <2>6 DEF OlderThanDrain, NoneLeft, InFlight
<1>5. CASE RunFails \/ SignalArrives
  BY <1>5 DEF RunFails, SignalArrives, TypeOK, OlderThanDrain, NoneLeft, InFlight, AtWork
<1>6. CASE SeeError \/ SeeSignal
  BY <1>6 DEF SeeError, SeeSignal, TypeOK, OlderThanDrain, NoneLeft, InFlight, AtWork
<1>7. CASE Poll
  BY <1>7 DEF Poll, TypeOK, OlderThanDrain, NoneLeft, InFlight, AtWork, Closed
<1>8. CASE Expire
  <2>1. \A c \in Conns : ~InFlight(c)
    BY <1>8, NoneLeftAtDeadline
  <2> QED
    BY <1>8, <2>1 DEF Expire, TypeOK, OlderThanDrain, NoneLeft, InFlight, AtWork
<1>9. CASE StopNext
  BY <1>9 DEF StopNext, TypeOK, OlderThanDrain, NoneLeft, InFlight, AtWork
<1>10. CASE Exit
  BY <1>10 DEF Exit, TypeOK, OlderThanDrain, NoneLeft, InFlight, AtWork, Closed
<1>11. CASE Tick
  <2>1. TypeOK'
    BY <1>11 DEF Tick, MayWait, TypeOK, AtWork
  <2>2. OlderThanDrain'
    BY <1>11 DEF Tick, TypeOK, OlderThanDrain, InFlight, AtWork
  <2>3. NoneLeft'
    BY <1>11 DEF Tick, TypeOK, NoneLeft, InFlight, AtWork
  <2> QED
    BY <1>11, <2>1, <2>2, <2>3 DEF Tick
<1>12. CASE UNCHANGED vars
  BY <1>12 DEF vars, TypeOK, OlderThanDrain, NoneLeft, InFlight, AtWork
<1> QED
  BY <1>1, <1>2, <1>3, <1>4, <1>5, <1>6, <1>7, <1>8, <1>9, <1>10, <1>11, <1>12
  DEF Next, Main

\* The inductive invariant: with every deadline kept, a request in flight when
\* main goes on to close (main.go:42-44) is older than the wait for it.
THEOREM Invariant == Spec => []IInv
<1>1. Init => IInv
  BY InitIInv
<1>2. IInv /\ [Next]_vars => IInv'
  BY NextPreserves
<1> QED
  BY <1>1, <1>2, PTL DEF Spec

\* No connection is kept waiting beyond what config.go and the HTTP clients
\* allow, and nothing stops before Shutdown has returned.
THEOREM TypeCorrect == Spec => []TypeOK
<1>1. IInv => TypeOK
  BY DEF IInv
<1> QED
  BY <1>1, Invariant, PTL

\* What config.go:41-43 and app.go:82-84 want of the timeouts is enough: no
\* request in flight is cut off, nor loses a goroutine it might still touch.
THEOREM DrainIsLongEnough == Spec => []InFlightIsServed
<1>1. IInv => InFlightIsServed
  BY DEF IInv, TypeOK, NoneLeft, InFlight, InFlightIsServed
<1> QED
  BY <1>1, Invariant, PTL
=============================================================================
