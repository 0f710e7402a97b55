------------------------------- MODULE Cache -------------------------------
(***************************************************************************)
(* internal/cache/cache.go: a map and a doubly linked list behind one      *)
(* mutex, entries with an optional deadline, eviction from the back of the *)
(* list, and a janitor goroutine that sweeps expired entries on a ticker.  *)
(*                                                                         *)
(* The list is a sequence of keys, front (most recently used) first.  Set  *)
(* reads the clock before it takes the mutex, so it is two steps; Get is   *)
(* one.  The sweep holds the mutex from its first element to its last and  *)
(* is a step per element.                                                  *)
(***************************************************************************)
EXTENDS Integers, Sequences, FiniteSets, SequencesExt

CONSTANTS
    Keys,        \* cache keys
    Values,      \* cached values
    Procs,       \* goroutines that call Set
    MaxSize,     \* maxSize
    Durations,   \* the durations passed to Set; 0 means "never expires"
    MaxTime      \* bound: the clock stops here

ASSUME MaxSizeAssumption == MaxSize \in Nat \ {0}
ASSUME DurationsAssumption == Durations \subseteq Nat
ASSUME MaxTimeAssumption == MaxTime \in Nat \ {0}

VARIABLES
    items,       \* c.items: key -> [value, expiration]
    lru,         \* c.lru: the keys, front first
    pending,     \* pending[p]: the Set that p has begun and not yet committed
    janitor,     \* "waiting" in select, "sweeping" under mu, or "gone"
    cursor,      \* the element the sweep looks at next; 0 is nil
    sweepNow,    \* the time the sweep captured
    tickDue,     \* a tick is in the ticker's channel (it holds one)
    stopped,     \* stopCh is closed
    now,         \* time.Now()
    answer       \* what the latest Get returned

vars == <<items, lru, pending, janitor, cursor, sweepNow, tickDue, stopped,
          now, answer>>
janitorVars == <<janitor, cursor, sweepNow, tickDue, stopped>>

Never == 0
NoSet == [busy |-> FALSE]
NoAnswer == [hit |-> FALSE]
Times == 0 .. MaxTime
Item == [value : Values, expiration : Nat]
SetCall == [busy : {TRUE}, key : Keys, value : Values, expiration : Nat]

\* Every key of the map is on the list exactly once, and nothing else is: an
\* insertion, an eviction, an expiry in Get and a sweep all touch both
\* structures, and no sequence of them may leave an element without its item
\* (evictOldest would then delete the wrong key) or an item without its
\* element (it could never be evicted again).
ListMatchesMap ==
    /\ DOMAIN items = {lru[i] : i \in 1 .. Len(lru)}
    /\ \A i, j \in 1 .. Len(lru) : lru[i] = lru[j] => i = j

TypeOK ==
    /\ ListMatchesMap
    /\ DOMAIN items \subseteq Keys
    /\ items \in [DOMAIN items -> Item]
    /\ lru \in Seq(Keys)
    /\ pending \in [Procs -> SetCall \cup {NoSet}]
    /\ janitor \in {"waiting", "sweeping", "gone"}
    /\ cursor \in 0 .. Len(lru)
    /\ sweepNow \in Times
    /\ tickDue \in BOOLEAN
    /\ stopped \in BOOLEAN
    /\ now \in Times
    /\ answer \in [hit : {TRUE}, key : Keys, value : Values] \cup {NoAnswer}

-----------------------------------------------------------------------------
\* Definitions named slip_ are plausible mistakes in the definition that
\* follows them; no action uses one.  Each breaks a property.
slip_NoMutex == TRUE

MuFree == janitor # "sweeping"

Place(k) == CHOOSE i \in 1 .. Len(lru) : lru[i] = k

Expired(k, t) == items[k].expiration > 0 /\ t > items[k].expiration

slip_GetLeavesPlace(k) == lru

MoveToFront(k) == <<k>> \o RemoveAt(lru, Place(k))

slip_ItemStaysInMap(k) ==
    /\ lru' = RemoveAt(lru, Place(k))
    /\ UNCHANGED items

removeItem(k) ==
    /\ lru' = RemoveAt(lru, Place(k))
    /\ items' = [other \in DOMAIN items \ {k} |-> items[other]]

Init ==
    /\ items = [k \in {} |-> NoAnswer]
    /\ lru = <<>>
    /\ pending = [p \in Procs |-> NoSet]
    /\ janitor = "waiting"
    /\ cursor = 0
    /\ sweepNow = 0
    /\ tickDue = FALSE
    /\ stopped = FALSE
    /\ now = 1
    /\ answer = NoAnswer

\* Set, up to c.mu.Lock(): the deadline is fixed before the mutex is held.
expirationOf(duration) == IF duration > 0 THEN now + duration ELSE Never

SetBegin(p) ==
    /\ ~pending[p].busy
    /\ \E k \in Keys, v \in Values, d \in Durations :
        pending' = [pending EXCEPT ![p] =
            [busy |-> TRUE, key |-> k, value |-> v, expiration |-> expirationOf(d)]]
    /\ UNCHANGED <<items, lru, now, answer>>
    /\ UNCHANGED janitorVars

\* Set under the mutex, the three ways it ends.
Overwrite(k, it) ==
    /\ k \in DOMAIN items
    /\ items' = [items EXCEPT ![k] = it]
    /\ lru' = MoveToFront(k)

PushFront(k, it) ==
    /\ k \notin DOMAIN items
    /\ Len(lru) + 1 <= MaxSize
    /\ items' = [other \in DOMAIN items \cup {k} |->
                    IF other = k THEN it ELSE items[other]]
    /\ lru' = <<k>> \o lru

PushFrontAndEvict(k, it) ==
    /\ k \notin DOMAIN items
    /\ Len(lru) + 1 > MaxSize
    /\ LET oldest == lru[Len(lru)] IN
        /\ items' = [other \in (DOMAIN items \ {oldest}) \cup {k} |->
                        IF other = k THEN it ELSE items[other]]
        /\ lru' = <<k>> \o RemoveAt(lru, Len(lru))

SetCommit(p) ==
    /\ pending[p].busy
    /\ MuFree
    /\ LET k == pending[p].key
           it == [value |-> pending[p].value, expiration |-> pending[p].expiration]
       IN  Overwrite(k, it) \/ PushFront(k, it) \/ PushFrontAndEvict(k, it)
    /\ pending' = [pending EXCEPT ![p] = NoSet]
    /\ UNCHANGED <<now, answer>>
    /\ UNCHANGED janitorVars

GetHit(k) ==
    /\ MuFree
    /\ k \in DOMAIN items
    /\ ~Expired(k, now)
    /\ lru' = MoveToFront(k)
    /\ answer' = [hit |-> TRUE, key |-> k, value |-> items[k].value]
    /\ UNCHANGED <<items, pending, now>>
    /\ UNCHANGED janitorVars

GetMiss(k) ==
    /\ MuFree
    /\ \/ k \notin DOMAIN items /\ UNCHANGED <<items, lru>>
       \/ k \in DOMAIN items /\ Expired(k, now) /\ removeItem(k)
    /\ answer' = NoAnswer
    /\ UNCHANGED <<pending, now>>
    /\ UNCHANGED janitorVars

\* Stop closes stopCh once; every later call changes nothing.
Stop ==
    /\ ~stopped
    /\ stopped' = TRUE
    /\ UNCHANGED <<items, lru, pending, janitor, cursor, sweepNow, tickDue, now,
                   answer>>

-----------------------------------------------------------------------------
\* The runtime's ticker: a tick that finds the channel full is dropped.
TickerFires ==
    /\ janitor # "gone"
    /\ ~tickDue
    /\ tickDue' = TRUE
    /\ UNCHANGED <<items, lru, pending, janitor, cursor, sweepNow, stopped, now,
                   answer>>

SweepBegin ==
    /\ janitor = "waiting"
    /\ tickDue
    /\ tickDue' = FALSE
    /\ janitor' = "sweeping"
    /\ sweepNow' = now
    /\ cursor' = Len(lru)
    /\ UNCHANGED <<items, lru, pending, stopped, now, answer>>

slip_SweepStopsAtLiveItem ==
    /\ janitor = "sweeping"
    /\ cursor > 0
    /\ IF Expired(lru[cursor], sweepNow)
       THEN removeItem(lru[cursor]) /\ cursor' = cursor - 1
       ELSE UNCHANGED <<items, lru>> /\ cursor' = 0
    /\ UNCHANGED <<pending, janitor, sweepNow, tickDue, stopped, now, answer>>

SweepStep ==
    /\ janitor = "sweeping"
    /\ cursor > 0
    /\ IF Expired(lru[cursor], sweepNow) THEN removeItem(lru[cursor])
                                         ELSE UNCHANGED <<items, lru>>
    /\ cursor' = cursor - 1
    /\ UNCHANGED <<pending, janitor, sweepNow, tickDue, stopped, now, answer>>

SweepEnd ==
    /\ janitor = "sweeping"
    /\ cursor = 0
    /\ janitor' = "waiting"
    /\ UNCHANGED <<items, lru, pending, cursor, sweepNow, tickDue, stopped, now,
                   answer>>

slip_TickBeforeStop ==
    /\ janitor = "waiting"
    /\ stopped
    /\ ~tickDue
    /\ janitor' = "gone"
    /\ UNCHANGED <<items, lru, pending, cursor, sweepNow, tickDue, stopped, now,
                   answer>>

JanitorReturns ==
    /\ janitor = "waiting"
    /\ stopped
    /\ janitor' = "gone"
    /\ UNCHANGED <<items, lru, pending, cursor, sweepNow, tickDue, stopped, now,
                   answer>>

ClockTick ==
    /\ now < MaxTime
    /\ now' = now + 1
    /\ UNCHANGED <<items, lru, pending, answer>>
    /\ UNCHANGED janitorVars

Next ==
    \/ \E p \in Procs : SetBegin(p) \/ SetCommit(p)
    \/ \E k \in Keys : GetHit(k) \/ GetMiss(k)
    \/ Stop
    \/ TickerFires
    \/ SweepBegin
    \/ SweepStep
    \/ SweepEnd
    \/ JanitorReturns
    \/ ClockTick

Spec == Init /\ [][Next]_vars

\* A runnable goroutine runs, a ticker ticks, and Go's select, which draws at
\* random among its ready cases, does not pass over a closed channel forever.
Fairness ==
    /\ WF_vars(TickerFires)
    /\ WF_vars(SweepBegin)
    /\ WF_vars(SweepStep)
    /\ WF_vars(SweepEnd)
    /\ SF_vars(JanitorReturns)

FairSpec == Spec /\ Fairness

-----------------------------------------------------------------------------
\* The abstract store this cache implements.  A key further from the front
\* was used before every key nearer to it.
Store == INSTANCE LRUStore WITH
    Deadlines  <- Times \cup {now0 + d : now0 \in Times, d \in Durations},
    Capacity   <- MaxSize,
    NoDeadline <- Never,
    store  <- [k \in DOMAIN items |->
                 [value |-> items[k].value, deadline |-> items[k].expiration]],
    before <- {<<lru[ij[2]], lru[ij[1]]>> :
                 ij \in {ij \in (1 .. Len(lru)) \X (1 .. Len(lru)) : ij[1] < ij[2]}}

\* The cache is a store with deadlines that evicts the longest unused key:
\* Set and Get at the mutex, and the sweep one element at a time by the clock it
\* read when it began, never drop a live entry, never serve an expired one, and
\* never evict anything but the key unused for longest.
ImplementsStore == Store!Spec

\* An entry that has expired leaves the cache (or is set again) unless the
\* janitor was stopped: nobody needs to ask for it.
ExpiredIsCollected ==
    \A k \in Keys :
        (k \in DOMAIN items /\ Expired(k, now))
            ~> (stopped \/ k \notin DOMAIN items \/ ~Expired(k, now))

\* Stop reaches the janitor even when a tick is always ready beside it, so no
\* goroutine outlives the cache.
StopEndsJanitor == stopped ~> janitor = "gone"
=============================================================================
