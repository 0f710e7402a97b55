----------------------------- MODULE RateLimit -----------------------------
(***************************************************************************)
(* internal/app/ratelimit.go: a token bucket per client address, a table   *)
(* of buckets with a ceiling, pruning of idle buckets (by a cleanup        *)
(* goroutine, and on demand when the table is full), and the rule that     *)
(* picks a request's client address from its headers.                      *)
(*                                                                         *)
(* Time is counted in ticks.  A bucket earns a tick of credit per tick, up *)
(* to Burst requests' worth, and a request costs Cost ticks of credit.     *)
(***************************************************************************)
EXTENDS Integers, Sequences, FiniteSets

CONSTANTS
    Clients,      \* the addresses requests really come from
    NotAnIP,      \* a header entry net.ParseIP rejects, or no header
    Proxy,        \* the address of the reverse proxy
    TrustProxy,   \* trustProxy: the server sits behind that proxy
    Forgeries,    \* headers a client may send: [forwarded, realIP]
    Burst,        \* apiRateBurst
    Cost,         \* ticks per request: 1/apiRatePerSec
    IdleTTL,      \* limiterIdleTTL
    MaxLimiters,  \* maxLimiters
    MaxTime       \* bound: the clock stops here

ASSUME AddressAssumption == IsFiniteSet(Clients) /\ NotAnIP \notin Clients
ASSUME TrustProxyAssumption == TrustProxy \in BOOLEAN
ASSUME ForgeriesAssumption ==
    Forgeries \subseteq [forwarded : Seq(Clients \cup {NotAnIP}),
                        realIP    : Clients \cup {NotAnIP}]
ASSUME RateAssumption == Burst \in Nat \ {0} /\ Cost \in Nat \ {0}
ASSUME MaxLimitersAssumption == MaxLimiters \in Nat \ {0}
ASSUME MaxTimeAssumption == MaxTime \in Nat
\* A bucket is full again before it can count as idle: ten minutes against
\* the two seconds it takes 20 requests per second to earn a burst of 40.
ASSUME IdleTTLAssumption == IdleTTL \in Nat /\ IdleTTL >= Burst * Cost

VARIABLES
    limiters,     \* rl.limiters: address -> [credit, last, lastSeen]
    cleaner,      \* the cleanup goroutine: "waiting" or "gone"
    stopped,      \* stopCh is closed
    now,          \* time.Now()
    grants,       \* history: when each client's requests were let through
    asked,        \* history: when each client last asked, whatever the answer
    refusals      \* history: how many requests were refused, modulo 2, so
                  \* that a refusal is a step even if it leaves all else alone

vars == <<limiters, cleaner, stopped, now, grants, asked, refusals>>

Never == -1
FullCredit == Burst * Cost
Tracked == DOMAIN limiters
Entry == [credit : 0 .. FullCredit, last : Nat, lastSeen : Nat]

TypeOK ==
    /\ Tracked \subseteq Clients
    /\ limiters \in [Tracked -> Entry]
    /\ cleaner \in {"waiting", "gone"}
    /\ stopped \in BOOLEAN
    /\ now \in Nat
    /\ grants \in [Clients -> Seq(Nat)]
    /\ asked \in [Clients -> Nat \cup {Never}]
    /\ refusals \in {0, 1}

-----------------------------------------------------------------------------
\* Definitions named slip_ are plausible mistakes in the definition that
\* follows them; no action uses one.  Each breaks a property.

\* What the server receives.  The proxy appends the address it saw to the
\* list the client sent; X-Real-IP, which it does not set, stays the client's.
RequestOf(c, forged) ==
    IF TrustProxy
    THEN [forwarded |-> Append(forged.forwarded, c),
          realIP    |-> forged.realIP,
          remote    |-> Proxy]
    ELSE [forwarded |-> forged.forwarded,
          realIP    |-> forged.realIP,
          remote    |-> c]

slip_LeftMostEntry(r) ==
    IF TrustProxy /\ r.forwarded # <<>> /\ Head(r.forwarded) # NotAnIP
    THEN Head(r.forwarded)
    ELSE r.remote

clientKey(r) ==
    LET rightMost == IF r.forwarded = <<>> THEN NotAnIP
                                           ELSE r.forwarded[Len(r.forwarded)]
    IN  IF TrustProxy /\ rightMost # NotAnIP THEN rightMost
        ELSE IF TrustProxy /\ r.realIP # NotAnIP THEN r.realIP
        ELSE r.remote

\* rate.Limiter: the credit an entry has now.
Credit(entry) ==
    IF entry.credit + (now - entry.last) > FullCredit
    THEN FullCredit
    ELSE entry.credit + (now - entry.last)

\* rate.Limiter.Allow: a refusal leaves the bucket as it was.
Spend(entry) == [entry EXCEPT !.credit = Credit(entry) - Cost, !.last = now]

NewEntry == [credit |-> FullCredit, last |-> now, lastSeen |-> now]

slip_HalfTheTTL == {k \in Tracked : limiters[k].lastSeen < now - IdleTTL \div 2}

\* pruneStaleLocked: the entries not seen since the cutoff.
Stale == {k \in Tracked : limiters[k].lastSeen < now - IdleTTL}

Pruned == [k \in Tracked \ Stale |-> limiters[k]]

slip_OneTooMany ==
    \/ Cardinality(Tracked) <= MaxLimiters
    \/ Cardinality(Tracked \ Stale) < MaxLimiters

slip_NoRoomMade == Cardinality(Tracked) < MaxLimiters

\* allow() finds or makes room for a newcomer; with no room it fails closed.
HasRoom ==
    \/ Cardinality(Tracked) < MaxLimiters
    \/ Cardinality(Tracked \ Stale) < MaxLimiters

\* The table after allow() has looked k up: pruned only if k is new to a full
\* table, and with an entry for k if there is room.
TableFor(k) ==
    LET kept == IF k \notin Tracked /\ Cardinality(Tracked) >= MaxLimiters
                THEN Pruned ELSE limiters
    IN  IF k \in Tracked \/ ~HasRoom
        THEN kept
        ELSE [a \in DOMAIN kept \cup {k} |-> IF a = k THEN NewEntry ELSE kept[a]]

-----------------------------------------------------------------------------
Init ==
    /\ limiters = [k \in {} |-> NewEntry]
    /\ cleaner = "waiting"
    /\ stopped = FALSE
    /\ now = 0
    /\ grants = [c \in Clients |-> <<>>]
    /\ asked = [c \in Clients |-> Never]
    /\ refusals = 0

slip_AnyCreditWillDo(c, k) ==
    /\ k \in Tracked \/ HasRoom
    /\ Credit(TableFor(k)[k]) > 0
    /\ limiters' = [TableFor(k) EXCEPT ![k] = [Spend(@) EXCEPT !.lastSeen = now]]
    /\ grants' = [grants EXCEPT ![c] = Append(@, now)]
    /\ UNCHANGED refusals

Grant(c, k) ==
    /\ k \in Tracked \/ HasRoom
    /\ Credit(TableFor(k)[k]) >= Cost
    /\ limiters' = [TableFor(k) EXCEPT ![k] = [Spend(@) EXCEPT !.lastSeen = now]]
    /\ grants' = [grants EXCEPT ![c] = Append(@, now)]
    /\ UNCHANGED refusals

slip_RefusalCosts(c, k) ==
    /\ k \in Tracked
    /\ Credit(limiters[k]) < Cost
    /\ limiters' = [limiters EXCEPT ![k] = [credit |-> 0, last |-> now, lastSeen |-> now]]
    /\ refusals' = 1 - refusals
    /\ UNCHANGED grants

\* The bucket is empty: 429, and the client counts as seen.
Refuse(c, k) ==
    /\ k \in Tracked
    /\ Credit(limiters[k]) < Cost
    /\ limiters' = [limiters EXCEPT ![k].lastSeen = now]
    /\ refusals' = 1 - refusals
    /\ UNCHANGED grants

\* The table is full even after pruning: 429 for a client with no bucket.
TurnAway(c, k) ==
    /\ k \notin Tracked
    /\ ~HasRoom
    /\ limiters' = Pruned
    /\ refusals' = 1 - refusals
    /\ UNCHANGED grants

\* A request for /api/ through the middleware; allow() holds the mutex.  Other
\* paths never reach it and change nothing here.
ApiRequest(c) ==
    /\ \E forged \in Forgeries :
        LET k == clientKey(RequestOf(c, forged))
        IN  Grant(c, k) \/ Refuse(c, k) \/ TurnAway(c, k)
    /\ asked' = [asked EXCEPT ![c] = now]
    /\ UNCHANGED <<cleaner, stopped, now>>

slip_OnlyAFullTable ==
    /\ cleaner = "waiting"
    /\ Cardinality(Tracked) >= MaxLimiters
    /\ limiters' = Pruned
    /\ UNCHANGED <<cleaner, stopped, now, grants, asked, refusals>>

\* A round of cleanup(), under the mutex; the ticker may make it at any time.
Cleanup ==
    /\ cleaner = "waiting"
    /\ limiters' = Pruned
    /\ UNCHANGED <<cleaner, stopped, now, grants, asked, refusals>>

CleanupReturns ==
    /\ cleaner = "waiting"
    /\ stopped
    /\ cleaner' = "gone"
    /\ UNCHANGED <<limiters, stopped, now, grants, asked, refusals>>

stop ==
    /\ ~stopped
    /\ stopped' = TRUE
    /\ UNCHANGED <<limiters, cleaner, now, grants, asked, refusals>>

ClockTick ==
    /\ now < MaxTime
    /\ now' = now + 1
    /\ UNCHANGED <<limiters, cleaner, stopped, grants, asked, refusals>>

Next ==
    \/ \E c \in Clients : ApiRequest(c)
    \/ Cleanup
    \/ CleanupReturns
    \/ stop
    \/ ClockTick

Spec == Init /\ [][Next]_vars

\* The ticker keeps ticking and the cleanup goroutine is scheduled.
FairSpec == Spec /\ WF_vars(Cleanup)

-----------------------------------------------------------------------------
\* The credit of client c, tracked or not: an unknown client starts full.
Level(c) == IF c \in Tracked THEN Credit(limiters[c]) ELSE FullCredit

\* Requests i to j of a client cost no more than a burst and what was earned
\* between them.  It is stated of the client, not of the key its requests are
\* charged to, so neither forged headers nor being pruned and re-admitted at
\* the table's limit buys a client more than "20 per second, burst of 40".
WithinRate ==
    \A c \in Clients : \A i, j \in 1 .. Len(grants[c]) :
        i <= j => (j - i + 1) * Cost <= FullCredit + (grants[c][j] - grants[c][i])

\* The table never outgrows maxLimiters, whoever asks.
TableBounded == Cardinality(Tracked) <= MaxLimiters

\* Some run of the client's latest grants leaves no credit for one more now.
RateExhausted(c) ==
    \E i \in 1 .. Len(grants[c]) :
        (Len(grants[c]) - i + 2) * Cost > FullCredit + (now - grants[c][i])

\* The clients that have asked for something within IdleTTL.
Active == {c \in Clients : asked[c] # Never /\ now - asked[c] <= IdleTTL}

\* A request is refused for one of two reasons.  The client has a bucket, and
\* its own latest grants leave no credit: refused calls are not charged, and no
\* other client's calls count against it.  Or it has none, and as many other
\* clients as the table holds have asked within IdleTTL: idle buckets and a
\* late cleanup keep nobody out.  A refusal may change nothing in the table;
\* the history of refusals makes it a step all the same.
RefusedOnlyWithCause ==
    [][\A c \in Clients :
        (ApiRequest(c) /\ refusals' # refusals) =>
            IF c \in Tracked
            THEN RateExhausted(c)
            ELSE Cardinality(Active \ {c}) >= MaxLimiters]_vars

\* Pruning is invisible: no step but a grant to c or the passing of time
\* changes the credit of c, although an entry may be deleted and made anew.
CreditChangesOnlyByGrant ==
    [][\A c \in Clients :
        (grants'[c] = grants[c] /\ now' = now) => Level(c)' = Level(c)]_vars

\* A client that falls silent is forgotten even if nobody calls again.
IdleIsForgotten ==
    \A c \in Clients :
        (c \in Stale) ~> (stopped \/ c \notin Stale)

-----------------------------------------------------------------------------
\* The invariant behind the properties above.
EntriesInOrder ==
    \A k \in Tracked :
        limiters[k].last <= limiters[k].lastSeen /\ limiters[k].lastSeen <= now

\* A bucket was last seen when its client last asked.
SeenWhenAsked == \A k \in Tracked : limiters[k].lastSeen = asked[k]

GrantsInPast ==
    \A c \in Clients : \A i \in 1 .. Len(grants[c]) : grants[c][i] <= now

\* What a client has spent since its i-th grant and what it may still spend.
Spent(c, i) == (Len(grants[c]) - i + 1) * Cost + Level(c)
Earned(c, i) == FullCredit + (now - grants[c][i])

\* A client's credit never exceeds what any run of its grants has left over,
WithinBudget ==
    \A c \in Clients : \A i \in 1 .. Len(grants[c]) : Spent(c, i) <= Earned(c, i)

\* and falls short of a full bucket only because some run used it up exactly.
NothingLost ==
    \A c \in Clients :
        \/ Level(c) = FullCredit
        \/ \E i \in 1 .. Len(grants[c]) : Spent(c, i) = Earned(c, i)

IInv ==
    /\ TypeOK
    /\ EntriesInOrder
    /\ SeenWhenAsked
    /\ GrantsInPast
    /\ WithinBudget
    /\ NothingLost
    /\ WithinRate
=============================================================================
