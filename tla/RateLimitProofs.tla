-------------------------- MODULE RateLimitProofs --------------------------
(***************************************************************************)
(* Proofs about RateLimit for every number of clients, burst, rate, idle   *)
(* time and table size: the rate a client can get, and what its requests   *)
(* can be refused for.                                                     *)
(***************************************************************************)
EXTENDS RateLimit, FiniteSetTheorems, TLAPS

\* A bucket holds at least one request's worth.
LEMMA CreditConstants ==
    /\ Cost \in Nat /\ Cost > 0
    /\ FullCredit \in Nat
    /\ Cost <= FullCredit
    /\ IdleTTL \in Nat /\ FullCredit <= IdleTTL
<1>1. Burst \in Nat /\ Burst >= 1 /\ Cost \in Nat /\ Cost >= 1
  BY RateAssumption
<1>2. Burst * Cost \in Nat /\ Burst * Cost >= Cost
  BY <1>1, Z3
<1> QED
  BY <1>1, <1>2, IdleTTLAssumption DEF FullCredit

\* Whatever headers a client writes, the server keys it by its own address.
LEMMA KeyIsClient ==
    ASSUME NEW c \in Clients, NEW f \in Forgeries
    PROVE  clientKey(RequestOf(c, f)) = c
<1>1. f.forwarded \in Seq(Clients \cup {NotAnIP})
  BY ForgeriesAssumption
<1>2. c # NotAnIP
  BY AddressAssumption
<1>3. /\ Append(f.forwarded, c) # <<>>
      /\ Append(f.forwarded, c)[Len(Append(f.forwarded, c))] = c
  BY <1>1
<1> QED
  BY <1>2, <1>3, TrustProxyAssumption DEF clientKey, RequestOf

\* The credit of an entry of the table, and of a client, is a credit.
LEMMA CreditRange ==
    ASSUME TypeOK, EntriesInOrder
    PROVE  /\ \A k \in Tracked : Credit(limiters[k]) \in 0 .. FullCredit
           /\ \A c \in Clients : Level(c) \in 0 .. FullCredit
<1>1. ASSUME NEW k \in Tracked
      PROVE  Credit(limiters[k]) \in 0 .. FullCredit
  <2>1. limiters[k] \in Entry
    BY DEF TypeOK
  <2>2. limiters[k].credit \in 0 .. FullCredit /\ limiters[k].last \in Nat
         /\ limiters[k].lastSeen \in Nat /\ now \in Nat
    BY <2>1 DEF Entry, TypeOK
  <2>3. limiters[k].last <= now
    BY <2>2 DEF EntriesInOrder
  <2> QED
    BY <2>2, <2>3, CreditConstants DEF Credit
<1>2. ASSUME NEW c \in Clients
      PROVE  Level(c) \in 0 .. FullCredit
  BY <1>1, CreditConstants DEF Level
<1> QED
  BY <1>1, <1>2

\* A bucket idle for long enough to be pruned is full: forgetting it is safe.
LEMMA StaleIsFull ==
    ASSUME TypeOK, EntriesInOrder, NEW k \in Stale
    PROVE  Credit(limiters[k]) = FullCredit
<1>1. k \in Tracked /\ limiters[k] \in Entry /\ now \in Nat
  BY DEF TypeOK, Stale
<1>2. limiters[k].credit \in 0 .. FullCredit /\ limiters[k].last \in Nat
       /\ limiters[k].lastSeen \in Nat
  BY <1>1 DEF Entry
<1>3. limiters[k].last <= limiters[k].lastSeen
  BY <1>1 DEF EntriesInOrder
<1>4. limiters[k].lastSeen < now - IdleTTL
  BY DEF Stale
<1>5. now - limiters[k].last > FullCredit
  BY <1>1, <1>2, <1>3, <1>4, CreditConstants
<1> QED
  BY <1>1, <1>2, <1>5, CreditConstants DEF Credit

-----------------------------------------------------------------------------
\* A table seen as a value: what it must be, and the credit a client has in it.
Sound(T) ==
    /\ DOMAIN T \subseteq Clients
    /\ T \in [DOMAIN T -> Entry]
    /\ \A k \in DOMAIN T : T[k].last <= T[k].lastSeen /\ T[k].lastSeen <= now

LevelIn(T, c) == IF c \in DOMAIN T THEN Credit(T[c]) ELSE FullCredit

\* Pruning keeps the table sound and everybody's credit.
LEMMA PrunedKeepsLevels ==
    ASSUME TypeOK, EntriesInOrder
    PROVE  /\ Sound(Pruned)
           /\ \A c \in Clients : LevelIn(Pruned, c) = Level(c)
<1>1. Sound(Pruned)
  BY DEF Sound, Pruned, TypeOK, EntriesInOrder
<1>2. ASSUME NEW c \in Clients
      PROVE  LevelIn(Pruned, c) = Level(c)
  <2>1. CASE c \in Stale
    BY <2>1, StaleIsFull DEF LevelIn, Pruned, Level, Stale
  <2>2. CASE c \notin Stale
    BY <2>2 DEF LevelIn, Pruned, Level
  <2> QED
    BY <2>1, <2>2
<1> QED
  BY <1>1, <1>2

\* A new bucket is a sound entry with the credit an unknown client has.
LEMMA NewEntryIsFull ==
    ASSUME TypeOK
    PROVE  NewEntry \in Entry /\ Credit(NewEntry) = FullCredit
           /\ NewEntry.last = now /\ NewEntry.lastSeen = now
<1>1. now \in Nat
  BY DEF TypeOK
<1> QED
  BY <1>1, CreditConstants DEF NewEntry, Entry, Credit

\* Looking a client up - pruning a full table and adding a bucket - keeps the
\* table sound and everybody's credit, and finds the client if there is room.
LEMMA TableForKeepsLevels ==
    ASSUME TypeOK, EntriesInOrder, NEW k \in Clients
    PROVE  /\ Sound(TableFor(k))
           /\ \A c \in Clients : LevelIn(TableFor(k), c) = Level(c)
           /\ (k \in Tracked \/ HasRoom) => k \in DOMAIN TableFor(k)
<1> DEFINE kept == IF k \notin Tracked /\ Cardinality(Tracked) >= MaxLimiters
                   THEN Pruned ELSE limiters
<1>1. Sound(limiters) /\ \A c \in Clients : LevelIn(limiters, c) = Level(c)
  BY DEF Sound, TypeOK, EntriesInOrder, LevelIn, Level
<1>2. Sound(kept) /\ \A c \in Clients : LevelIn(kept, c) = Level(c)
  BY <1>1, PrunedKeepsLevels
<1>3. DOMAIN kept \subseteq Tracked
  <2>1. DOMAIN Pruned \subseteq Tracked
    BY DEF Pruned
  <2>2. kept = Pruned \/ kept = limiters
    OBVIOUS
  <2> QED
    BY <2>1, <2>2 DEF Tracked
<1>4. CASE k \in Tracked \/ ~HasRoom
  <2>1. TableFor(k) = kept
    BY <1>4 DEF TableFor
  <2>2. k \in Tracked => kept = limiters
    OBVIOUS
  <2> HIDE DEF kept
  <2> QED
    BY <1>2, <1>4, <2>1, <2>2 DEF Tracked
<1>5. CASE k \notin Tracked /\ HasRoom
  <2>1. TableFor(k) = [a \in DOMAIN kept \cup {k} |->
                           IF a = k THEN NewEntry ELSE kept[a]]
    BY <1>5 DEF TableFor
  <2>2. k \notin DOMAIN kept
    BY <1>3, <1>5
  <2> HIDE DEF kept
  <2> DEFINE T == TableFor(k)
  <2>3. DOMAIN T = DOMAIN kept \cup {k}
    BY <2>1
  <2>4. T[k] = NewEntry /\ \A a \in DOMAIN kept : T[a] = kept[a]
    BY <2>1, <2>2
  <2> HIDE DEF T
  <2>5. Sound(T)
    <3>1. DOMAIN T \subseteq Clients
      BY <1>2, <2>3 DEF Sound
    <3>2. \A a \in DOMAIN T : T[a] \in Entry
      BY <1>2, <2>3, <2>4, NewEntryIsFull DEF Sound
    <3>3. T \in [DOMAIN T -> Entry]
      <4>1. T = [a \in DOMAIN T |-> T[a]]
        BY <2>1, <2>3 DEF T
      <4> QED
        BY <3>2, <4>1
    <3>4. \A a \in DOMAIN T : T[a].last <= T[a].lastSeen /\ T[a].lastSeen <= now
      <4>1. now \in Nat
        BY DEF TypeOK
      <4> QED
        BY <1>2, <2>3, <2>4, <4>1, NewEntryIsFull DEF Sound
    <3> QED
      BY <3>1, <3>3, <3>4 DEF Sound
  <2>6. ASSUME NEW c \in Clients
        PROVE  LevelIn(T, c) = Level(c)
    <3>1. CASE c = k
      BY <1>5, <2>3, <2>4, <3>1, NewEntryIsFull DEF LevelIn, Level
    <3>2. CASE c # k
      <4>1. LevelIn(T, c) = LevelIn(kept, c)
        BY <2>3, <2>4, <3>2 DEF LevelIn
      <4> QED
        BY <1>2, <4>1
    <3> QED
      BY <3>1, <3>2
  <2> QED
    BY <2>3, <2>5, <2>6 DEF T
<1> QED
  BY <1>4, <1>5

-----------------------------------------------------------------------------
\* What the invariant says of the grants made so far.
History == GrantsInPast /\ WithinBudget /\ NothingLost /\ WithinRate

\* A step that grants nothing, takes no time and keeps everybody's credit.
LEMMA HistoryKept ==
    ASSUME History, grants' = grants, now' = now,
           \A c \in Clients : Level(c)' = Level(c)
    PROVE  History'
<1>1. \A c \in Clients, i \in Int : /\ Spent(c, i)' = Spent(c, i)
                                    /\ Earned(c, i)' = Earned(c, i)
  BY DEF Spent, Earned
<1>2. GrantsInPast' /\ WithinRate'
  BY DEF History, GrantsInPast, WithinRate
<1>3. WithinBudget'
  BY <1>1 DEF History, WithinBudget
<1>4. NothingLost'
  BY <1>1 DEF History, NothingLost
<1> QED
  BY <1>2, <1>3, <1>4 DEF History

\* A tick earns every client a tick of credit, unless it is full already.
LEMMA TickEarns ==
    ASSUME TypeOK, EntriesInOrder, ClockTick, NEW c \in Clients
    PROVE  Level(c)' = IF Level(c) < FullCredit THEN Level(c) + 1 ELSE FullCredit
<1>1. now \in Nat /\ now' = now + 1 /\ limiters' = limiters
  BY DEF TypeOK, ClockTick
<1>2. CASE c \in Tracked
  <2>1. limiters[c] \in Entry
    BY <1>2 DEF TypeOK
  <2>2. limiters[c].credit \in 0 .. FullCredit /\ limiters[c].last \in Nat
    BY <2>1 DEF Entry
  <2>3. Level(c) = Credit(limiters[c])
    BY <1>2 DEF Level
  <2>4. Level(c)' = Credit(limiters[c])'
    BY <1>1, <1>2 DEF Level, Tracked
  <2>5. Credit(limiters[c])' =
            IF Credit(limiters[c]) < FullCredit
            THEN Credit(limiters[c]) + 1 ELSE FullCredit
    BY <1>1, <2>2, CreditConstants DEF Credit
  <2> QED
    BY <2>3, <2>4, <2>5
<1>3. CASE c \notin Tracked
  <2>1. Level(c) = FullCredit /\ Level(c)' = FullCredit
    BY <1>1, <1>3 DEF Level, Tracked
  <2> QED
    BY <2>1, CreditConstants
<1> QED
  BY <1>2, <1>3

\* Spent and earned are numbers.
LEMMA BudgetType ==
    ASSUME TypeOK, EntriesInOrder, NEW c \in Clients, NEW i \in 1 .. Len(grants[c])
    PROVE  /\ grants[c] \in Seq(Nat) /\ Len(grants[c]) \in Nat
           /\ grants[c][i] \in Nat
           /\ Level(c) \in 0 .. FullCredit
           /\ Spent(c, i) \in Int /\ Earned(c, i) \in Int
<1>1. grants[c] \in Seq(Nat) /\ now \in Nat
  BY DEF TypeOK
<1>2. Len(grants[c]) \in Nat /\ grants[c][i] \in Nat
  BY <1>1
<1>3. Level(c) \in 0 .. FullCredit
  BY CreditRange
<1>4. (Len(grants[c]) - i + 1) * Cost \in Int
  <2>1. Len(grants[c]) - i + 1 \in Int
    BY <1>2
  <2> QED
    BY <2>1, CreditConstants
<1>5. Spent(c, i) \in Int
  BY <1>3, <1>4, CreditConstants DEF Spent
<1>6. Earned(c, i) \in Int
  BY <1>1, <1>2, CreditConstants DEF Earned
<1> QED
  BY <1>1, <1>2, <1>3, <1>5, <1>6

\* Time passing keeps the history's invariant.
LEMMA HistoryAfterTick ==
    ASSUME TypeOK, EntriesInOrder, History, ClockTick
    PROVE  History'
<1>1. now \in Nat /\ now' = now + 1 /\ grants' = grants
  BY DEF TypeOK, ClockTick
<1>2. ASSUME NEW c \in Clients, NEW i \in 1 .. Len(grants[c])
      PROVE  /\ Earned(c, i)' = Earned(c, i) + 1
             /\ Spent(c, i)' = Spent(c, i) + (Level(c)' - Level(c))
  <2>1. Earned(c, i)' = Earned(c, i) + 1
    <3>1. grants[c][i] \in Nat /\ FullCredit \in Nat
      BY BudgetType, CreditConstants
    <3>2. Earned(c, i)' = FullCredit + ((now + 1) - grants[c][i])
      BY <1>1 DEF Earned, FullCredit
    <3> QED
      BY <1>1, <3>1, <3>2 DEF Earned
  <2> DEFINE cost == (Len(grants[c]) - i + 1) * Cost
  <2>2. cost \in Int
    BY BudgetType, CreditConstants
  <2>3. Spent(c, i) = cost + Level(c) /\ Spent(c, i)' = cost + Level(c)'
    BY <1>1 DEF Spent
  <2>4. Level(c) \in Int /\ Level(c)' \in Int
    BY TickEarns, CreditRange, CreditConstants
  <2> HIDE DEF cost
  <2> QED
    BY <2>1, <2>2, <2>3, <2>4
<1>3. GrantsInPast' /\ WithinRate'
  <2>1. ASSUME NEW c \in Clients, NEW i \in 1 .. Len(grants[c])
        PROVE  grants[c][i] <= now + 1
    BY <1>1, BudgetType DEF History, GrantsInPast
  <2> QED
    BY <1>1, <2>1 DEF History, GrantsInPast, WithinRate
<1>4. WithinBudget'
  <2>1. ASSUME NEW c \in Clients, NEW i \in 1 .. Len(grants[c])
        PROVE  Spent(c, i)' <= Earned(c, i)'
    <3>1. Spent(c, i) <= Earned(c, i)
      BY DEF History, WithinBudget
    <3>2. Level(c)' - Level(c) <= 1 /\ Level(c)' - Level(c) \in Int
      BY TickEarns, BudgetType, CreditConstants
    <3> QED
      BY <1>2, <3>1, <3>2, BudgetType
  <2> QED
    BY <1>1, <2>1 DEF WithinBudget
<1>5. NothingLost'
  <2>1. ASSUME NEW c \in Clients
        PROVE  \/ Level(c)' = FullCredit
               \/ \E i \in 1 .. Len(grants[c]) : Spent(c, i)' = Earned(c, i)'
    <3>1. CASE Level(c) = FullCredit
      BY <3>1, TickEarns, CreditConstants
    <3>2. CASE Level(c) # FullCredit
      <4>1. PICK i \in 1 .. Len(grants[c]) : Spent(c, i) = Earned(c, i)
        BY <3>2 DEF History, NothingLost
      <4>2. Level(c)' = Level(c) + 1
        BY <3>2, TickEarns, CreditRange, CreditConstants
      <4>3. Level(c)' - Level(c) = 1
        BY <4>2, CreditRange, CreditConstants
      <4> QED
        BY <1>2, <4>1, <4>3
    <3> QED
      BY <3>1, <3>2
  <2> QED
    BY <1>1, <2>1 DEF NothingLost
<1> QED
  BY <1>3, <1>4, <1>5 DEF History

\* While no time passes, credit is a matter of the table alone.
LEMMA LevelAfter ==
    ASSUME now' = now, NEW c
    PROVE  Level(c)' = LevelIn(limiters', c)
BY DEF Level, LevelIn, Credit, Tracked, FullCredit

\* A grant costs the client one request's credit, and nobody else anything.
LEMMA GrantSpends ==
    ASSUME TypeOK, EntriesInOrder, NEW c \in Clients, Grant(c, c), now' = now
    PROVE  /\ Sound(limiters')
           /\ Level(c) >= Cost /\ Level(c)' = Level(c) - Cost
           /\ \A d \in Clients \ {c} : Level(d)' = Level(d)
<1> DEFINE T == TableFor(c)
           spent == [Spend(T[c]) EXCEPT !.lastSeen = now]
<1>1. /\ Sound(T) /\ c \in DOMAIN T
      /\ \A d \in Clients : LevelIn(T, d) = Level(d)
  BY TableForKeepsLevels DEF Grant
<1>2. Credit(T[c]) >= Cost /\ limiters' = [T EXCEPT ![c] = spent]
  BY DEF Grant
<1>3. Level(c) = Credit(T[c])
  BY <1>1 DEF LevelIn
<1>4. now \in Nat /\ Level(c) \in 0 .. FullCredit
  BY CreditRange DEF TypeOK
<1>5. T[c] \in Entry
  BY <1>1 DEF Sound
<1>6. /\ spent \in Entry
      /\ spent.credit = Level(c) - Cost /\ spent.last = now /\ spent.lastSeen = now
  <2>1. Level(c) - Cost \in 0 .. FullCredit
    BY <1>2, <1>3, <1>4, CreditConstants
  <2> QED
    BY <1>3, <1>4, <1>5, <2>1 DEF Spend, Entry
<1> HIDE DEF T, spent
<1>7. Credit(spent) = Level(c) - Cost
  BY <1>2, <1>3, <1>4, <1>6, CreditConstants DEF Credit
<1>8. /\ DOMAIN limiters' = DOMAIN T
      /\ limiters'[c] = spent
      /\ \A d \in DOMAIN T \ {c} : limiters'[d] = T[d]
  BY <1>1, <1>2 DEF Sound
<1>9. Sound(limiters')
  <2>1. limiters' = [d \in DOMAIN T |-> limiters'[d]]
    BY <1>1, <1>2, <1>8 DEF Sound
  <2>2. \A d \in DOMAIN T : limiters'[d] \in Entry
    BY <1>1, <1>6, <1>8 DEF Sound
  <2>3. limiters' \in [DOMAIN T -> Entry]
    BY <2>1, <2>2
  <2> QED
    BY <1>1, <1>4, <1>6, <1>8, <2>3 DEF Sound
<1>10. LevelIn(limiters', c) = Level(c) - Cost
  BY <1>1, <1>7, <1>8 DEF LevelIn
<1>11. \A d \in Clients \ {c} : LevelIn(limiters', d) = Level(d)
  BY <1>1, <1>8 DEF LevelIn
<1> QED
  BY <1>2, <1>3, <1>9, <1>10, <1>11, LevelAfter

\* Granting a request within its client's credit keeps the client's budget: an
\* earlier run of grants grows by what the credit shrinks.
LEMMA HistoryAfterGrant ==
    ASSUME TypeOK, EntriesInOrder, History, NEW c \in Clients, Grant(c, c),
           now' = now
    PROVE  History'
<1>0. PICK n \in Nat : n = Len(grants[c])
  BY DEF TypeOK
<1>1. now \in Nat /\ grants[c] \in Seq(Nat) /\ n \in Nat
  BY DEF TypeOK
<1>2. /\ grants' \in [Clients -> Seq(Nat)]
      /\ grants'[c] = Append(grants[c], now)
      /\ \A d \in Clients \ {c} : grants'[d] = grants[d]
  BY <1>1 DEF TypeOK, Grant
<1>3. /\ Len(grants'[c]) = n + 1 /\ grants'[c][n + 1] = now
      /\ \A i \in 1 .. n : grants'[c][i] = grants[c][i]
  BY <1>0, <1>1, <1>2
<1>4. /\ Level(c) \in 0 .. FullCredit /\ Level(c) >= Cost
      /\ Level(c)' = Level(c) - Cost
  BY GrantSpends, CreditRange
<1>5. ASSUME NEW d \in Clients \ {c}, NEW i \in Int
      PROVE  Spent(d, i)' = Spent(d, i) /\ Earned(d, i)' = Earned(d, i)
  BY <1>2, GrantSpends DEF Spent, Earned
<1>6. ASSUME NEW i \in 1 .. n
      PROVE  Spent(c, i)' = Spent(c, i) /\ Earned(c, i)' = Earned(c, i)
  <2>1. Earned(c, i)' = Earned(c, i)
    BY <1>3 DEF Earned, FullCredit
  <2>2. (n + 1 - i + 1) * Cost = (n - i + 1) * Cost + Cost
    BY <1>1, CreditConstants, Z3
  <2>3. (n - i + 1) * Cost \in Int
    BY <1>1, CreditConstants, Z3
  <2>4. Spent(c, i)' = (n + 1 - i + 1) * Cost + Level(c)'
    BY <1>3 DEF Spent
  <2>5. Spent(c, i) = (n - i + 1) * Cost + Level(c)
    BY <1>0 DEF Spent
  <2> QED
    BY <1>4, <2>1, <2>2, <2>3, <2>4, <2>5, CreditConstants
<1>7. Spent(c, n + 1)' = Level(c) /\ Earned(c, n + 1)' = FullCredit
  <2>1. (n + 1) - (n + 1) + 1 = 1 /\ 1 * Cost = Cost
    BY <1>1, CreditConstants
  <2>2. Spent(c, n + 1)' = Cost + Level(c)'
    BY <1>3, <2>1 DEF Spent
  <2>3. Earned(c, n + 1)' = FullCredit + (now - now)
    BY <1>3 DEF Earned, FullCredit
  <2> QED
    BY <1>1, <1>4, <2>2, <2>3, CreditConstants
<1>8. GrantsInPast'
  <2>1. ASSUME NEW i \in 1 .. n + 1
        PROVE  grants'[c][i] <= now
    <3>1. CASE i \in 1 .. n
      BY <1>0, <1>3, <3>1 DEF History, GrantsInPast
    <3>2. CASE i = n + 1
      BY <1>1, <1>3, <3>2
    <3> QED
      BY <1>1, <3>1, <3>2
  <2>2. \A d \in Clients \ {c} : \A i \in 1 .. Len(grants'[d]) : grants'[d][i] <= now
    BY <1>2 DEF History, GrantsInPast
  <2> QED
    BY <1>3, <2>1, <2>2 DEF GrantsInPast
<1>9. WithinBudget'
  <2>1. ASSUME NEW i \in 1 .. n + 1
        PROVE  Spent(c, i)' <= Earned(c, i)'
    <3>1. CASE i \in 1 .. n
      BY <1>0, <1>6, <3>1 DEF History, WithinBudget
    <3>2. CASE i = n + 1
      BY <1>4, <1>7, <3>2, CreditConstants
    <3> QED
      BY <1>1, <3>1, <3>2
  <2>2. ASSUME NEW d \in Clients \ {c}, NEW i \in 1 .. Len(grants'[d])
        PROVE  Spent(d, i)' <= Earned(d, i)'
    BY <1>2, <1>5 DEF History, WithinBudget
  <2> QED
    BY <1>3, <2>1, <2>2 DEF WithinBudget
<1>10. NothingLost'
  <2>1. \E i \in 1 .. n + 1 : Spent(c, i)' = Earned(c, i)'
    <3>1. CASE Level(c) = FullCredit
      BY <1>1, <1>7, <3>1
    <3>2. CASE Level(c) # FullCredit
      <4>1. PICK i \in 1 .. n : Spent(c, i) = Earned(c, i)
        BY <1>0, <3>2 DEF History, NothingLost
      <4> QED
        BY <1>1, <1>6, <4>1
    <3> QED
      BY <3>1, <3>2
  <2>2. ASSUME NEW d \in Clients \ {c}
        PROVE  \/ Level(d)' = FullCredit
               \/ \E i \in 1 .. Len(grants'[d]) : Spent(d, i)' = Earned(d, i)'
    <3>1. Level(d)' = Level(d)
      BY GrantSpends
    <3>2. CASE Level(d) = FullCredit
      BY <3>1, <3>2
    <3>3. CASE Level(d) # FullCredit
      <4>1. PICK i \in 1 .. Len(grants[d]) : Spent(d, i) = Earned(d, i)
        BY <3>3 DEF History, NothingLost
      <4> QED
        BY <1>2, <1>5, <4>1
    <3> QED
      BY <3>2, <3>3
  <2> QED
    BY <1>3, <2>1, <2>2 DEF NothingLost
<1>11. WithinRate'
  <2>1. ASSUME NEW i \in 1 .. n + 1, NEW j \in 1 .. n + 1, i <= j
        PROVE  (j - i + 1) * Cost <= FullCredit + (grants'[c][j] - grants'[c][i])
    <3>1. CASE j \in 1 .. n
      <4>1. i \in 1 .. n /\ j \in 1 .. n
        BY <1>1, <2>1, <3>1
      <4>2. (j - i + 1) * Cost <= FullCredit + (grants[c][j] - grants[c][i])
        BY <1>0, <2>1, <4>1 DEF History, WithinRate
      <4> QED
        BY <1>3, <4>1, <4>2
    <3>2. CASE j = n + 1
      <4>1. Spent(c, i)' <= Earned(c, i)'
        BY <1>3, <1>9 DEF WithinBudget
      <4>2. /\ Spent(c, i)' = (j - i + 1) * Cost + Level(c)'
            /\ Earned(c, i)' = FullCredit + (grants'[c][j] - grants'[c][i])
        BY <1>3, <3>2 DEF Spent, Earned, FullCredit
      <4>3. /\ (j - i + 1) * Cost \in Int
            /\ Level(c)' \in Int /\ Level(c)' >= 0
            /\ grants'[c][j] \in Int /\ grants'[c][i] \in Int
        <5>1. j - i + 1 \in Int
          BY <1>1
        <5>2. (j - i + 1) * Cost \in Int
          BY <5>1, CreditConstants
        <5>3. grants'[c][j] \in Nat /\ grants'[c][i] \in Nat
          <6>1. grants'[c] \in Seq(Nat)
            BY <1>2
          <6>2. i \in 1 .. Len(grants'[c]) /\ j \in 1 .. Len(grants'[c])
            BY <1>1, <1>3
          <6> QED
            BY <6>1, <6>2
        <5> QED
          BY <1>4, <5>2, <5>3, CreditConstants
      <4> DEFINE cost == (j - i + 1) * Cost
      <4> HIDE DEF cost
      <4>4. cost \in Int /\ cost + Level(c)' <= FullCredit + (grants'[c][j] - grants'[c][i])
        BY <4>1, <4>2, <4>3 DEF cost
      <4>5. cost <= FullCredit + (grants'[c][j] - grants'[c][i])
        BY <4>3, <4>4, CreditConstants
      <4> QED
        BY <4>5 DEF cost
    <3>3. j \in 1 .. n \/ j = n + 1
      BY <1>1
    <3> QED
      BY <3>1, <3>2, <3>3, Zenon
  <2>2. ASSUME NEW d \in Clients \ {c}
        PROVE  \A i, j \in 1 .. Len(grants'[d]) : i <= j =>
                   (j - i + 1) * Cost <= FullCredit + (grants'[d][j] - grants'[d][i])
    BY <1>2 DEF History, WithinRate
  <2>3. \A d \in Clients : \A i, j \in 1 .. Len(grants'[d]) : i <= j =>
            (j - i + 1) * Cost <= FullCredit + (grants'[d][j] - grants'[d][i])
    BY <1>3, <2>1, <2>2
  <2> QED
    BY <2>3 DEF WithinRate, FullCredit
<1> QED
  BY <1>8, <1>9, <1>10, <1>11 DEF History

-----------------------------------------------------------------------------
\* Steps that leave everybody's credit alone.
Quiet ==
    /\ grants' = grants /\ now' = now
    /\ Sound(limiters')
    /\ \A c \in Clients : Level(c)' = Level(c)

\* Pruning is quiet.
LEMMA PruneIsQuiet ==
    ASSUME TypeOK, EntriesInOrder, limiters' = Pruned, grants' = grants, now' = now
    PROVE  Quiet
BY PrunedKeepsLevels, LevelAfter DEF Quiet

\* So is a refusal: it only notes that the client was seen.
LEMMA RefuseIsQuiet ==
    ASSUME TypeOK, EntriesInOrder, NEW k \in Clients, Refuse(k, k), now' = now
    PROVE  Quiet
<1>1. k \in Tracked /\ limiters' = [limiters EXCEPT ![k].lastSeen = now]
      /\ grants' = grants
  BY DEF Refuse
<1>2. now \in Nat /\ limiters \in [Tracked -> Entry] /\ Tracked \subseteq Clients
  BY DEF TypeOK
<1>3. limiters[k] \in Entry
  BY <1>1, <1>2
<1> DEFINE seen == [limiters[k] EXCEPT !.lastSeen = now]
<1>4. /\ seen \in Entry /\ seen.lastSeen = now
      /\ seen.credit = limiters[k].credit /\ seen.last = limiters[k].last
  BY <1>2, <1>3 DEF Entry
<1>5. Credit(seen) = Credit(limiters[k])
  BY <1>4 DEF Credit
<1>6. limiters' = [limiters EXCEPT ![k] = seen]
  BY <1>1
<1> HIDE DEF seen
<1>7. /\ DOMAIN limiters' = Tracked /\ limiters'[k] = seen
      /\ \A d \in Tracked \ {k} : limiters'[d] = limiters[d]
      /\ limiters' \in [Tracked -> Entry]
  BY <1>1, <1>2, <1>4, <1>6
<1>8. limiters[k].last <= now
  <2>1. limiters[k].last \in Nat /\ limiters[k].lastSeen \in Nat
    BY <1>3 DEF Entry
  <2> QED
    BY <1>1, <1>2, <2>1 DEF EntriesInOrder
<1>9. Sound(limiters')
  BY <1>2, <1>4, <1>7, <1>8 DEF Sound, EntriesInOrder
<1>10. \A d \in Clients : LevelIn(limiters', d) = Level(d)
  BY <1>1, <1>5, <1>7 DEF LevelIn, Level
<1> QED
  BY <1>1, <1>9, <1>10, LevelAfter DEF Quiet

\* What a request does: grant at its own address's expense, or quietly refuse.
LEMMA RequestCases ==
    ASSUME TypeOK, EntriesInOrder, NEW c \in Clients, ApiRequest(c)
    PROVE  /\ now' = now /\ UNCHANGED <<cleaner, stopped>>
           /\ \/ Grant(c, c)
              \/ Refuse(c, c) /\ Quiet
              \/ TurnAway(c, c) /\ Quiet
<1>1. now' = now /\ UNCHANGED <<cleaner, stopped>>
  BY DEF ApiRequest
<1>2. Grant(c, c) \/ Refuse(c, c) \/ TurnAway(c, c)
  BY KeyIsClient DEF ApiRequest
<1>3. Refuse(c, c) => Quiet
  BY <1>1, RefuseIsQuiet
<1>4. TurnAway(c, c) => Quiet
  BY <1>1, PruneIsQuiet DEF TurnAway
<1> QED
  BY <1>1, <1>2, <1>3, <1>4

\* A step that takes no time and leaves a sound table keeps the types.
LEMMA TypesAfter ==
    ASSUME TypeOK, now' = now, Sound(limiters'),
           grants' \in [Clients -> Seq(Nat)],
           asked' \in [Clients -> Nat \cup {Never}], refusals' \in {0, 1},
           cleaner' \in {"waiting", "gone"}, stopped' \in BOOLEAN
    PROVE  TypeOK' /\ EntriesInOrder'
BY DEF TypeOK, EntriesInOrder, Sound, Tracked, Entry, FullCredit

\* Every step keeps the types of the histories of requests and refusals.
LEMMA RequestsTyped ==
    ASSUME TypeOK, EntriesInOrder, [Next]_vars
    PROVE  asked' \in [Clients -> Nat \cup {Never}] /\ refusals' \in {0, 1}
<1>1. asked \in [Clients -> Nat \cup {Never}] /\ refusals \in {0, 1} /\ now \in Nat
  BY DEF TypeOK
<1>2. ASSUME NEW c \in Clients, ApiRequest(c)
      PROVE  asked' \in [Clients -> Nat \cup {Never}] /\ refusals' \in {0, 1}
  <2>1. asked' = [asked EXCEPT ![c] = now]
    BY <1>2 DEF ApiRequest
  <2>2. refusals' = refusals \/ refusals' = 1 - refusals
    BY <1>2, RequestCases DEF Grant, Refuse, TurnAway
  <2> QED
    BY <1>1, <2>1, <2>2
<1>3. CASE UNCHANGED <<asked, refusals>>
  BY <1>1, <1>3
<1> QED
  BY <1>2, <1>3 DEF Next, Cleanup, CleanupReturns, stop, ClockTick, vars

\* Looking a client up leaves the other buckets as they were.
LEMMA TableForKeepsOthers ==
    ASSUME NEW k, NEW d \in DOMAIN TableFor(k), d # k
    PROVE  d \in Tracked /\ TableFor(k)[d] = limiters[d]
<1>1. /\ DOMAIN Pruned \subseteq Tracked
      /\ \A a \in DOMAIN Pruned : Pruned[a] = limiters[a]
  BY DEF Pruned
<1> QED
  BY <1>1 DEF TableFor, Tracked

\* A bucket is seen whenever its client asks, and then only.
LEMMA SeenPreserved ==
    ASSUME TypeOK, EntriesInOrder, SeenWhenAsked, [Next]_vars
    PROVE  SeenWhenAsked'
<1>1. /\ asked \in [Clients -> Nat \cup {Never}]
      /\ limiters \in [Tracked -> Entry] /\ Tracked \subseteq Clients
  BY DEF TypeOK
<1>2. ASSUME limiters' = Pruned,
             \A d \in Tracked : asked'[d] = asked[d]
      PROVE  SeenWhenAsked'
  BY <1>2 DEF SeenWhenAsked, Pruned, Tracked
<1>3. ASSUME NEW c \in Clients, ApiRequest(c)
      PROVE  SeenWhenAsked'
  <2>1. asked'[c] = now /\ \A d \in Clients \ {c} : asked'[d] = asked[d]
    BY <1>1, <1>3 DEF ApiRequest
  <2>2. CASE Grant(c, c)
    <3> DEFINE T == TableFor(c)
    <3>1. limiters' = [T EXCEPT ![c] = [Spend(T[c]) EXCEPT !.lastSeen = now]]
      BY <2>2 DEF Grant
    <3>2. Sound(T) /\ c \in DOMAIN T
      BY <2>2, TableForKeepsLevels DEF Grant
    <3>3. Spend(T[c]) = [[T[c] EXCEPT !.credit = Credit(T[c]) - Cost] EXCEPT !.last = now]
      BY DEF Spend
    <3>4. T[c] \in Entry /\ T = [d \in DOMAIN T |-> T[d]]
      BY <3>2 DEF Sound
    <3>5. \A d \in DOMAIN T \ {c} : d \in Tracked /\ T[d] = limiters[d]
      BY TableForKeepsOthers
    <3> HIDE DEF T
    <3>6. /\ DOMAIN limiters' = DOMAIN T
          /\ limiters'[c].lastSeen = now
          /\ \A d \in DOMAIN T \ {c} : limiters'[d] = T[d]
      BY <3>1, <3>2, <3>3, <3>4 DEF Entry
    <3> QED
      BY <1>1, <2>1, <3>5, <3>6 DEF SeenWhenAsked, Tracked
  <2>3. CASE Refuse(c, c)
    <3>1. c \in Tracked /\ limiters' = [limiters EXCEPT ![c].lastSeen = now]
      BY <2>3 DEF Refuse
    <3>2. /\ DOMAIN limiters' = Tracked
          /\ limiters'[c].lastSeen = now
          /\ \A d \in Tracked \ {c} : limiters'[d] = limiters[d]
      BY <1>1, <3>1 DEF Entry
    <3> QED
      BY <1>1, <2>1, <3>2 DEF SeenWhenAsked, Tracked
  <2>4. CASE TurnAway(c, c)
    BY <1>1, <1>2, <2>1, <2>4 DEF TurnAway
  <2> QED
    BY <1>3, <2>2, <2>3, <2>4, RequestCases
<1>4. CASE UNCHANGED <<limiters, asked>>
  BY <1>4 DEF SeenWhenAsked, Tracked
<1>5. CASE Cleanup
  BY <1>2, <1>5 DEF Cleanup
<1> QED
  BY <1>3, <1>4, <1>5 DEF Next, CleanupReturns, stop, ClockTick, vars

\* The table is empty and nothing was granted.
LEMMA InitEstablishes ==
    ASSUME Init
    PROVE  IInv
<1>1. Tracked = {}
  BY DEF Init, Tracked
<1>2. TypeOK
  <2>1. limiters \in [Tracked -> Entry]
    BY <1>1 DEF Init, Tracked
  <2>2. grants \in [Clients -> Seq(Nat)]
    BY DEF Init
  <2> QED
    BY <1>1, <2>1, <2>2 DEF Init, TypeOK
<1>3. EntriesInOrder /\ SeenWhenAsked
  BY <1>1 DEF EntriesInOrder, SeenWhenAsked
<1>4. \A c \in Clients : Len(grants[c]) = 0 /\ Level(c) = FullCredit
  BY <1>1 DEF Init, Level
<1>5. GrantsInPast /\ WithinBudget /\ NothingLost /\ WithinRate
  BY <1>4 DEF GrantsInPast, WithinBudget, NothingLost, WithinRate
<1> QED
  BY <1>2, <1>3, <1>5 DEF IInv

\* The invariant is inductive.
LEMMA NextPreserves ==
    ASSUME IInv, [Next]_vars
    PROVE  IInv'
<1>1. TypeOK /\ EntriesInOrder /\ SeenWhenAsked /\ History
  BY DEF IInv, History
<1>0. SeenWhenAsked' /\ asked' \in [Clients -> Nat \cup {Never}] /\ refusals' \in {0, 1}
  BY <1>1, SeenPreserved, RequestsTyped
<1>2. (TypeOK' /\ EntriesInOrder' /\ History') => IInv'
  BY <1>0 DEF IInv, History
<1>3. grants \in [Clients -> Seq(Nat)] /\ stopped \in BOOLEAN /\ now \in Nat
      /\ cleaner \in {"waiting", "gone"}
  BY <1>1 DEF TypeOK
<1>4. ASSUME Quiet, cleaner' \in {"waiting", "gone"}, stopped' \in BOOLEAN
      PROVE  IInv'
  <2>1. TypeOK' /\ EntriesInOrder'
    BY <1>0, <1>1, <1>3, <1>4, TypesAfter DEF Quiet
  <2>2. History'
    BY <1>1, <1>4, HistoryKept DEF Quiet
  <2> QED
    BY <1>2, <2>1, <2>2
<1>5. ASSUME NEW c \in Clients, ApiRequest(c)
      PROVE  IInv'
  <2>1. CASE Grant(c, c)
    <3>1. now' = now /\ UNCHANGED <<cleaner, stopped>>
      BY <1>5 DEF ApiRequest
    <3>2. Sound(limiters')
      BY <1>1, <2>1, <3>1, GrantSpends
    <3>3. grants' \in [Clients -> Seq(Nat)]
      BY <1>3, <2>1 DEF Grant
    <3>4. TypeOK' /\ EntriesInOrder'
      BY <1>0, <1>1, <1>3, <3>1, <3>2, <3>3, TypesAfter
    <3>5. History'
      BY <1>1, <2>1, <3>1, HistoryAfterGrant
    <3> QED
      BY <1>2, <3>4, <3>5
  <2>2. CASE Quiet
    BY <1>3, <1>4, <2>2, <1>5 DEF ApiRequest
  <2> QED
    BY <1>1, <1>5, <2>1, <2>2, RequestCases
<1>6. CASE Cleanup
  <2>1. Quiet
    BY <1>1, <1>6, PruneIsQuiet DEF Cleanup
  <2> QED
    BY <1>3, <1>4, <1>6, <2>1 DEF Cleanup
<1>7. ASSUME UNCHANGED <<limiters, now, grants>>
      PROVE  Quiet
  BY <1>1, <1>7, LevelAfter DEF Quiet, Sound, TypeOK, EntriesInOrder, Level, LevelIn
<1>8. CASE CleanupReturns
  BY <1>3, <1>4, <1>7, <1>8 DEF CleanupReturns
<1>9. CASE stop
  BY <1>3, <1>4, <1>7, <1>9 DEF stop
<1>10. CASE ClockTick
  <2>1. TypeOK' /\ EntriesInOrder'
    <3>1. TypeOK'
      BY <1>0, <1>1, <1>10 DEF ClockTick, TypeOK, Tracked, Entry, FullCredit
    <3>2. ASSUME NEW k \in Tracked
          PROVE  limiters[k].last <= limiters[k].lastSeen
                 /\ limiters[k].lastSeen <= now + 1
      <4>1. limiters[k].lastSeen \in Nat
        BY <1>1 DEF TypeOK, Entry
      <4> QED
        BY <1>1, <1>3, <4>1 DEF EntriesInOrder
    <3> QED
      BY <1>10, <3>1, <3>2 DEF ClockTick, EntriesInOrder, Tracked
  <2>2. History'
    BY <1>1, <1>10, HistoryAfterTick
  <2> QED
    BY <1>2, <2>1, <2>2
<1>11. CASE UNCHANGED vars
  BY <1>3, <1>4, <1>7, <1>11 DEF vars
<1> QED
  BY <1>5, <1>6, <1>8, <1>9, <1>10, <1>11 DEF Next

\* The invariant holds throughout.
THEOREM Invariant == Spec => []IInv
<1>1. Init => IInv
  BY InitEstablishes
<1>2. IInv /\ [Next]_vars => IInv'
  BY NextPreserves
<1> QED
  BY <1>1, <1>2, PTL DEF Spec

\* Every reachable table, clock and history is well-formed.
THEOREM TypeCorrect == Spec => []TypeOK
<1>1. IInv => TypeOK
  BY DEF IInv
<1> QED
  BY <1>1, Invariant, PTL

\* No client gets more than a burst plus the rate, for every number of
\* clients, whatever headers they send and however often their buckets are
\* pruned and made anew.
THEOREM RateHolds == Spec => []WithinRate
<1>1. IInv => WithinRate
  BY DEF IInv
<1> QED
  BY <1>1, Invariant, PTL

\* Nothing but its own grants and the passing of time changes a client's
\* credit: pruning and the other clients' requests are invisible to it.
THEOREM CreditIsOwn == Spec => CreditChangesOnlyByGrant
<1>1. ASSUME IInv, [Next]_vars, NEW c \in Clients, grants'[c] = grants[c], now' = now
      PROVE  Level(c)' = Level(c)
  <2>1. TypeOK /\ EntriesInOrder
    BY <1>1 DEF IInv
  <2>2. ASSUME NEW d \in Clients, ApiRequest(d), Grant(d, d)
        PROVE  Level(c)' = Level(c)
    <3>1. d # c
      <4>1. grants[d] \in Seq(Nat) /\ grants'[d] = Append(grants[d], now)
        BY <2>1, <2>2 DEF TypeOK, Grant
      <4>2. Len(grants'[d]) # Len(grants[d])
        BY <4>1
      <4> QED
        BY <1>1, <4>2
    <3> QED
      BY <1>1, <2>1, <2>2, <3>1, GrantSpends
  <2>3. ASSUME NEW d \in Clients, ApiRequest(d)
        PROVE  Level(c)' = Level(c)
    BY <2>1, <2>2, <2>3, RequestCases DEF Quiet
  <2>4. CASE Cleanup
    BY <1>1, <2>1, <2>4, PruneIsQuiet DEF Cleanup, Quiet
  <2>5. CASE UNCHANGED limiters
    BY <1>1, <2>5, LevelAfter DEF LevelIn, Level, Tracked
  <2> QED
    BY <1>1, <2>3, <2>4, <2>5 DEF Next, CleanupReturns, stop, ClockTick, vars
<1>2. IInv /\ [Next]_vars =>
        [\A c \in Clients :
            (grants'[c] = grants[c] /\ now' = now) => Level(c)' = Level(c)]_vars
  BY <1>1
<1> QED
  BY <1>2, Invariant, PTL DEF Spec, CreditChangesOnlyByGrant

-----------------------------------------------------------------------------
\* The number of buckets.
Bounded == IsFiniteSet(Tracked) /\ TableBounded

\* Pruning does not add buckets.
LEMMA PrunedIsBounded ==
    ASSUME Bounded
    PROVE  /\ IsFiniteSet(Tracked \ Stale)
           /\ Cardinality(Tracked \ Stale) \in Nat
           /\ Cardinality(Tracked \ Stale) <= Cardinality(Tracked)
           /\ Cardinality(Tracked) \in Nat /\ Cardinality(Tracked) <= MaxLimiters
<1>1. IsFiniteSet(Tracked) /\ Tracked \ Stale \in SUBSET Tracked
  BY DEF Bounded
<1> QED
  BY <1>1, FS_Subset, FS_CardinalityType DEF Bounded, TableBounded

\* A newcomer's bucket fits.
LEMMA TableForIsBounded ==
    ASSUME Bounded, NEW k, k \in Tracked \/ HasRoom
    PROVE  /\ IsFiniteSet(DOMAIN TableFor(k))
           /\ Cardinality(DOMAIN TableFor(k)) <= MaxLimiters
<1>1. CASE k \in Tracked
  <2>1. TableFor(k) = limiters
    BY <1>1 DEF TableFor
  <2> QED
    BY <2>1 DEF Bounded, TableBounded, Tracked
<1>2. CASE k \notin Tracked /\ Cardinality(Tracked) >= MaxLimiters
  <2>1. HasRoom
    BY <1>2
  <2>2. DOMAIN TableFor(k) = (Tracked \ Stale) \cup {k}
    BY <1>2, <2>1 DEF TableFor, Pruned
  <2>3. Cardinality(Tracked \ Stale) < MaxLimiters
    BY <1>2, <2>1, PrunedIsBounded, MaxLimitersAssumption DEF HasRoom
  <2>4. IsFiniteSet(Tracked \ Stale) /\ k \notin Tracked \ Stale
    BY <1>2, PrunedIsBounded
  <2>5. /\ IsFiniteSet((Tracked \ Stale) \cup {k})
        /\ Cardinality((Tracked \ Stale) \cup {k}) = Cardinality(Tracked \ Stale) + 1
    BY <2>4, FS_AddElement
  <2> QED
    BY <2>2, <2>3, <2>5, PrunedIsBounded, MaxLimitersAssumption
<1>3. CASE k \notin Tracked /\ ~(Cardinality(Tracked) >= MaxLimiters)
  <2>1. HasRoom
    BY <1>3
  <2>2. DOMAIN TableFor(k) = Tracked \cup {k}
    BY <1>3, <2>1 DEF TableFor, Tracked
  <2>3. Cardinality(Tracked) < MaxLimiters /\ IsFiniteSet(Tracked)
    BY <1>3, PrunedIsBounded, MaxLimitersAssumption DEF Bounded
  <2>4. /\ IsFiniteSet(Tracked \cup {k})
        /\ Cardinality(Tracked \cup {k}) = Cardinality(Tracked) + 1
    BY <1>3, <2>3, FS_AddElement
  <2> QED
    BY <2>2, <2>3, <2>4, PrunedIsBounded, MaxLimitersAssumption
<1> QED
  BY <1>1, <1>2, <1>3

\* The table is finite and stays within maxLimiters.
LEMMA BoundedThroughout == Spec => []Bounded
<1>1. Init => Bounded
  <2>1. Init => Tracked = {}
    BY DEF Init, Tracked
  <2> QED
    BY <2>1, FS_EmptySet, MaxLimitersAssumption DEF Bounded, TableBounded
<1>2. ASSUME IInv, Bounded, [Next]_vars
      PROVE  Bounded'
  <2>1. TypeOK /\ EntriesInOrder
    BY <1>2 DEF IInv
  <2>2. CASE limiters' = Pruned
    <3>1. Tracked' = Tracked \ Stale
      BY <2>2 DEF Tracked, Pruned
    <3> QED
      BY <1>2, <3>1, PrunedIsBounded, MaxLimitersAssumption DEF Bounded, TableBounded
  <2>3. CASE Tracked' = Tracked
    BY <1>2, <2>3 DEF Bounded, TableBounded
  <2>4. ASSUME NEW c \in Clients, Grant(c, c)
        PROVE  Bounded'
    <3>1. Tracked' = DOMAIN TableFor(c)
      BY <2>4 DEF Grant, Tracked
    <3> QED
      BY <1>2, <2>4, <3>1, TableForIsBounded DEF Grant, Bounded, TableBounded
  <2>5. ASSUME NEW c \in Clients, ApiRequest(c)
        PROVE  Bounded'
    <3>1. Refuse(c, c) => Tracked' = Tracked
      BY DEF Refuse, Tracked
    <3> QED
      BY <2>1, <2>2, <2>3, <2>4, <2>5, <3>1, RequestCases DEF TurnAway
  <2>6. UNCHANGED limiters => Tracked' = Tracked
    BY DEF Tracked
  <2> QED
    BY <1>2, <2>2, <2>3, <2>5, <2>6
    DEF Next, Cleanup, CleanupReturns, stop, ClockTick, vars
<1> QED
  BY <1>1, <1>2, Invariant, PTL DEF Spec

\* The table never outgrows maxLimiters, whoever asks and in whatever order.
THEOREM TableIsBounded == Spec => []TableBounded
<1>1. Bounded => TableBounded
  BY DEF Bounded
<1> QED
  BY <1>1, BoundedThroughout, PTL

\* A client with a bucket is refused only when its own latest grants leave no
\* credit, and one without only when as many others as the table holds have
\* asked within IdleTTL.
THEOREM RefusalHasCause == Spec => RefusedOnlyWithCause
<1>1. ASSUME IInv, Bounded, NEW c \in Clients, ApiRequest(c), refusals' # refusals
      PROVE  IF c \in Tracked
             THEN RateExhausted(c)
             ELSE Cardinality(Active \ {c}) >= MaxLimiters
  <2>1. TypeOK /\ EntriesInOrder
    BY <1>1 DEF IInv
  <2>2. ~Grant(c, c)
    BY <1>1 DEF Grant
  <2>3. CASE Refuse(c, c)
    <3>1. c \in Tracked /\ Level(c) < Cost
      BY <2>3 DEF Refuse, Level
    <3>2. Level(c) \in 0 .. FullCredit
      BY <2>1, CreditRange
    <3>3. PICK i \in 1 .. Len(grants[c]) : Spent(c, i) = Earned(c, i)
      BY <1>1, <3>1, <3>2, CreditConstants DEF IInv, NothingLost
    <3>4. (Len(grants[c]) - i + 2) * Cost > FullCredit + (now - grants[c][i])
      <4> DEFINE len == Len(grants[c])
      <4>1. len \in Nat
        BY <2>1, BudgetType
      <4>2. (len - i + 2) * Cost = (len - i + 1) * Cost + Cost
        BY <4>1, CreditConstants, Z3
      <4>3. (len - i + 1) * Cost \in Int
        BY <4>1, CreditConstants, Z3
      <4>4. Spent(c, i) = (len - i + 1) * Cost + Level(c)
            /\ Earned(c, i) = FullCredit + (now - grants[c][i])
        BY DEF Spent, Earned
      <4>5. Earned(c, i) \in Int
        BY <2>1, BudgetType
      <4> HIDE DEF len
      <4>6. (len - i + 1) * Cost + Cost > Earned(c, i)
        BY <3>1, <3>2, <3>3, <4>3, <4>4, <4>5, CreditConstants
      <4> QED
        BY <4>2, <4>4, <4>6 DEF len
    <3> QED
      BY <3>1, <3>4 DEF RateExhausted
  <2>4. CASE TurnAway(c, c)
    <3>1. c \notin Tracked /\ ~HasRoom /\ limiters' = Pruned
      BY <2>4 DEF TurnAway
    <3>2. Cardinality(Tracked \ Stale) >= MaxLimiters
      BY <1>1, <3>1, PrunedIsBounded, MaxLimitersAssumption DEF HasRoom
    <3>3. ASSUME NEW k \in Tracked \ Stale
          PROVE  k \in Active \ {c}
      <4>1. k \in Clients /\ k # c /\ asked[k] = limiters[k].lastSeen
        BY <1>1, <2>1, <3>1 DEF IInv, SeenWhenAsked, TypeOK
      <4>2. ~(limiters[k].lastSeen < now - IdleTTL)
        BY DEF Stale
      <4>3. limiters[k].lastSeen \in Nat /\ now \in Nat
        BY <2>1 DEF TypeOK, Entry
      <4> QED
        BY <4>1, <4>2, <4>3, CreditConstants DEF Active, Never
    <3>4. IsFiniteSet(Active \ {c})
      BY AddressAssumption, FS_Subset DEF Active
    <3>5. Cardinality(Tracked \ Stale) <= Cardinality(Active \ {c})
      BY <3>3, <3>4, FS_Subset
    <3>6. /\ Cardinality(Active \ {c}) \in Nat
          /\ Cardinality(Tracked \ Stale) \in Nat
      BY <1>1, <3>4, PrunedIsBounded, FS_CardinalityType
    <3> QED
      BY <3>1, <3>2, <3>5, <3>6, MaxLimitersAssumption
  <2> QED
    BY <1>1, <2>1, <2>2, <2>3, <2>4, RequestCases
<1>2. IInv /\ Bounded /\ [Next]_vars =>
        [\A c \in Clients :
            (ApiRequest(c) /\ refusals' # refusals) =>
                IF c \in Tracked
                THEN RateExhausted(c)
                ELSE Cardinality(Active \ {c}) >= MaxLimiters]_vars
  BY <1>1
<1> QED
  BY <1>2, Invariant, BoundedThroughout, PTL DEF Spec, RefusedOnlyWithCause
=============================================================================
