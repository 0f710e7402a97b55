------------------------------ MODULE LRUStore ------------------------------
(***************************************************************************)
(* What a bounded store with deadlines promises its callers.  Both caches  *)
(* of the program make this promise: the server's cache.Cache (module      *)
(* Cache) and the browser's TTLCache.  The store says nothing of lists,    *)
(* maps, locks or sweeps: it knows which key was used before which, and    *)
(* that when room is needed the key unused for longest has to go.          *)
(***************************************************************************)
EXTENDS Naturals, FiniteSets, Functions

CONSTANTS
    Keys,        \* what callers look up
    Values,      \* what callers store
    Deadlines,   \* the instants at which an entry may expire
    Capacity,    \* how many keys the store may hold
    NoDeadline   \* the deadline of an entry that never expires

VARIABLES
    store,       \* key -> [value, deadline], for the keys held
    before,      \* <<a, b>> \in before: a was last used before b was
    now,         \* the clock
    answer       \* what the latest lookup told its caller

vars == <<store, before, now, answer>>

Held == DOMAIN store

NoAnswer == [hit |-> FALSE]

Expired(k) == store[k].deadline # NoDeadline /\ now > store[k].deadline

\* The order of use with every pair about k dropped.
Without(k) == {p \in before : p[1] # k /\ p[2] # k}

\* k has just been used: every other key of S was used before it.
UsedLast(k, S) == Without(k) \cup {<<other, k>> : other \in S \ {k}}

\* The store s with k holding v until d.
With(s, k, v, d) ==
    [key \in DOMAIN s \cup {k} |->
        IF key = k THEN [value |-> v, deadline |-> d] ELSE s[key]]

LongestUnused(k) == \A other \in Held \ {k} : <<k, other>> \in before

Init ==
    /\ store = [k \in {} |-> [value |-> k, deadline |-> NoDeadline]]
    /\ before = {}
    /\ now \in Nat
    /\ answer = NoAnswer

\* A stored value replaces the one the key had, whatever its deadline.
Replace(k, v, d) ==
    /\ k \in Held
    /\ store' = With(store, k, v, d)
    /\ before' = UsedLast(k, Held)

Insert(k, v, d) ==
    /\ k \notin Held
    /\ Cardinality(Held) < Capacity
    /\ store' = With(store, k, v, d)
    /\ before' = UsedLast(k, Held)

\* With no room left the key unused for longest makes way.
Supplant(k, v, d) ==
    /\ k \notin Held
    /\ Cardinality(Held) = Capacity
    /\ \E victim \in Held :
        /\ LongestUnused(victim)
        /\ store' = With(Restrict(store, Held \ {victim}), k, v, d)
        /\ before' = {p \in UsedLast(k, Held) : p[1] # victim}

Put ==
    /\ \E k \in Keys, v \in Values, d \in Deadlines :
        Replace(k, v, d) \/ Insert(k, v, d) \/ Supplant(k, v, d)
    /\ UNCHANGED <<now, answer>>

Hit(k) ==
    /\ k \in Held
    /\ ~Expired(k)
    /\ answer' = [hit |-> TRUE, key |-> k, value |-> store[k].value]
    /\ before' = UsedLast(k, Held)
    /\ UNCHANGED <<store, now>>

Forget(k) ==
    /\ k \in Held
    /\ Expired(k)
    /\ store' = Restrict(store, Held \ {k})
    /\ before' = Without(k)

\* A lookup misses only a key that is absent or expired.
Miss(k) ==
    /\ \/ k \notin Held /\ UNCHANGED <<store, before>>
       \/ Forget(k)
    /\ answer' = NoAnswer
    /\ UNCHANGED now

\* The store may drop an expired key at any moment, and no other key.
Collect(k) ==
    /\ Forget(k)
    /\ UNCHANGED <<now, answer>>

Passes ==
    /\ now' \in Nat
    /\ now' > now
    /\ UNCHANGED <<store, before, answer>>

Next ==
    \/ Put
    \/ \E k \in Keys : Hit(k) \/ Miss(k) \/ Collect(k)
    \/ Passes

Spec == Init /\ [][Next]_vars
=============================================================================
