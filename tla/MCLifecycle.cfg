CONSTANTS
    Conns = {c1, c2, c3}
    ReadTimeout = 1
    WriteTimeout = 4
    ShutdownTimeout = 4
    UpstreamTimeout = 3

SPECIFICATION FairSpec

INVARIANTS
    TypeOK
    InFlightIsServed

PROPERTY ProcessEnds

\* A process that has ended does nothing.
CHECK_DEADLOCK FALSE
