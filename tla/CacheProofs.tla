----------------------------- MODULE CacheProofs -----------------------------
(***************************************************************************)
(* The server's cache, for any keys, values, durations and sizes and any   *)
(* number of goroutines: its map and its list agree, and it implements     *)
(* the store of module LRUStore.                                           *)
(***************************************************************************)
EXTENDS Cache, FiniteSetTheorems, SequenceTheorems, TLAPS

-----------------------------------------------------------------------------
\* Lists of keys, and the order of use they stand for.

Members(s) == {s[i] : i \in 1 .. Len(s)}

Distinct(s) == \A i, j \in 1 .. Len(s) : s[i] = s[j] => i = j

OrderOf(s) ==
    {<<s[ij[2]], s[ij[1]]>> :
        ij \in {ij \in (1 .. Len(s)) \X (1 .. Len(s)) : ij[1] < ij[2]}}

\* A pair of the order: the first key is behind the second on the list.
LEMMA InOrder ==
    ASSUME NEW s, NEW a, NEW b
    PROVE  <<a, b>> \in OrderOf(s) <=>
               \E i, j \in 1 .. Len(s) : i < j /\ s[i] = b /\ s[j] = a
<1>1. ASSUME NEW i \in 1 .. Len(s), NEW j \in 1 .. Len(s), i < j
      PROVE  <<s[j], s[i]>> \in OrderOf(s)
  <2>1. <<i, j>> \in {ij \in (1 .. Len(s)) \X (1 .. Len(s)) : ij[1] < ij[2]}
    BY <1>1
  <2> QED
    BY <2>1 DEF OrderOf
<1> QED
  BY <1>1 DEF OrderOf

\* RemoveAt closes the gap it makes.
LEMMA RemoveAtFacts ==
    ASSUME NEW S, NEW s \in Seq(S), NEW i \in 1 .. Len(s)
    PROVE  /\ RemoveAt(s, i) \in Seq(S)
           /\ Len(RemoveAt(s, i)) = Len(s) - 1
           /\ \A j \in 1 .. Len(s) - 1 :
                 RemoveAt(s, i)[j] = IF j < i THEN s[j] ELSE s[j + 1]
<1> DEFINE front == SubSeq(s, 1, i - 1)
           back == SubSeq(s, i + 1, Len(s))
<1>1. Len(s) \in Nat /\ i \in Nat
  OBVIOUS
<1>2. /\ front \in Seq(S) /\ Len(front) = i - 1
      /\ \A j \in 1 .. i - 1 : front[j] = s[j]
  BY <1>1
<1>3. /\ back \in Seq(S) /\ Len(back) = Len(s) - i
      /\ \A j \in 1 .. Len(s) - i : back[j] = s[i + j]
  BY <1>1
<1> HIDE DEF front, back
<1>4. /\ front \o back \in Seq(S) /\ Len(front \o back) = Len(s) - 1
      /\ \A j \in 1 .. Len(s) - 1 :
            (front \o back)[j] = IF j <= i - 1 THEN front[j] ELSE back[j - (i - 1)]
  <2>1. Len(front) + Len(back) = Len(s) - 1
    BY <1>1, <1>2, <1>3
  <2>2. /\ front \o back \in Seq(S)
        /\ Len(front \o back) = Len(front) + Len(back)
        /\ \A j \in 1 .. Len(front) + Len(back) :
              (front \o back)[j] =
                  IF j <= Len(front) THEN front[j] ELSE back[j - Len(front)]
    BY <1>2, <1>3, ConcatProperties
  <2> QED
    BY <1>2, <2>1, <2>2
<1>5. \A j \in 1 .. Len(s) - 1 : j >= i =>
          j - (i - 1) \in 1 .. Len(s) - i /\ i + (j - (i - 1)) = j + 1
  BY <1>1
<1>6. \A j \in 1 .. Len(s) - 1 : j < i => j \in 1 .. i - 1
  BY <1>1
<1>7. \A j \in 1 .. Len(s) - 1 :
          (front \o back)[j] = IF j < i THEN s[j] ELSE s[j + 1]
  BY <1>1, <1>2, <1>3, <1>4, <1>5, <1>6
<1> QED
  BY <1>4, <1>7 DEF RemoveAt, front, back

\* What a removal takes away is the key and every pair about it.
LEMMA Removed ==
    ASSUME NEW S, NEW s \in Seq(S), Distinct(s), NEW i \in 1 .. Len(s)
    PROVE  /\ RemoveAt(s, i) \in Seq(S)
           /\ Len(RemoveAt(s, i)) = Len(s) - 1
           /\ Members(RemoveAt(s, i)) = Members(s) \ {s[i]}
           /\ Distinct(RemoveAt(s, i))
           /\ \A a, b : <<a, b>> \in OrderOf(RemoveAt(s, i)) <=>
                 <<a, b>> \in OrderOf(s) /\ a # s[i] /\ b # s[i]
<1> DEFINE r == RemoveAt(s, i)
           n == Len(s)
           From(j) == IF j < i THEN j ELSE j + 1
           To(j) == IF j < i THEN j ELSE j - 1
<1>1. /\ r \in Seq(S) /\ Len(r) = n - 1 /\ n \in Nat
      /\ \A j \in 1 .. n - 1 : r[j] = s[From(j)]
  BY RemoveAtFacts
<1>2. \A j \in 1 .. n - 1 : From(j) \in 1 .. n /\ From(j) # i
  BY <1>1
<1>3. \A j \in 1 .. n : j # i => To(j) \in 1 .. n - 1 /\ From(To(j)) = j
  BY <1>1
<1>4. \A j, l \in 1 .. n - 1 : (From(j) = From(l) => j = l) /\ (j < l => From(j) < From(l))
  BY <1>1
<1>5. \A j, l \in 1 .. n : j # i /\ l # i /\ j < l => To(j) < To(l)
  BY <1>1
<1> HIDE DEF r, From, To
<1>6. \A j \in 1 .. n : j # i => s[j] # s[i]
  BY DEF Distinct
<1>7. Members(r) = Members(s) \ {s[i]}
  <2>1. ASSUME NEW j \in 1 .. n - 1
        PROVE  r[j] \in Members(s) \ {s[i]}
    BY <1>1, <1>2, <1>6, <2>1 DEF Members
  <2>2. ASSUME NEW j \in 1 .. n, j # i
        PROVE  \E l \in 1 .. n - 1 : r[l] = s[j]
    BY <1>1, <1>3, <2>2
  <2>3. Members(r) = {r[j] : j \in 1 .. n - 1}
    BY <1>1 DEF Members
  <2>4. ASSUME NEW m \in Members(s) \ {s[i]}
        PROVE  m \in Members(r)
    <3>1. PICK j \in 1 .. n : m = s[j]
      BY DEF Members
    <3>2. j # i
      BY <3>1
    <3> QED
      BY <2>2, <2>3, <3>1, <3>2
  <2>5. \A m \in Members(r) : m \in Members(s) \ {s[i]}
    BY <2>1, <2>3
  <2> QED
    BY <2>4, <2>5
<1>8. Distinct(r)
  BY <1>1, <1>2, <1>4 DEF Distinct
<1>9. ASSUME NEW a, NEW b
      PROVE  <<a, b>> \in OrderOf(r) <=>
                 <<a, b>> \in OrderOf(s) /\ a # s[i] /\ b # s[i]
  <2>1. ASSUME <<a, b>> \in OrderOf(r)
        PROVE  <<a, b>> \in OrderOf(s) /\ a # s[i] /\ b # s[i]
    <3>1. \E j, l \in 1 .. Len(r) : j < l /\ r[j] = b /\ r[l] = a
      BY <2>1, InOrder
    <3>2. PICK j, l \in 1 .. n - 1 : j < l /\ r[j] = b /\ r[l] = a
      BY <1>1, <3>1
    <3>3. /\ From(j) \in 1 .. n /\ From(l) \in 1 .. n /\ From(j) < From(l)
          /\ s[From(j)] = b /\ s[From(l)] = a
      BY <1>1, <1>2, <1>4, <3>2
    <3> QED
      BY <1>2, <1>6, <3>2, <3>3, InOrder
  <2>2. ASSUME <<a, b>> \in OrderOf(s), a # s[i], b # s[i]
        PROVE  <<a, b>> \in OrderOf(r)
    <3>1. PICK j, l \in 1 .. n : j < l /\ s[j] = b /\ s[l] = a
      BY <2>2, InOrder
    <3>2. /\ To(j) \in 1 .. n - 1 /\ To(l) \in 1 .. n - 1 /\ To(j) < To(l)
          /\ r[To(j)] = b /\ r[To(l)] = a
      BY <1>1, <1>3, <1>5, <2>2, <3>1
    <3> QED
      BY <1>1, <3>2, InOrder
  <2> QED
    BY <2>1, <2>2
<1> QED
  BY <1>1, <1>7, <1>8, <1>9 DEF r

\* What a push adds is the key and, for every other one, that it was used before.
LEMMA Pushed ==
    ASSUME NEW S, NEW s \in Seq(S), Distinct(s), NEW k \in S, k \notin Members(s)
    PROVE  /\ <<k>> \o s \in Seq(S)
           /\ Len(<<k>> \o s) = Len(s) + 1
           /\ Members(<<k>> \o s) = Members(s) \cup {k}
           /\ Distinct(<<k>> \o s)
           /\ \A a, b : <<a, b>> \in OrderOf(<<k>> \o s) <=>
                 <<a, b>> \in OrderOf(s) \/ (a \in Members(s) /\ b = k)
<1> DEFINE r == <<k>> \o s
           n == Len(s)
<1>1. /\ r \in Seq(S) /\ Len(r) = n + 1 /\ n \in Nat /\ r[1] = k
      /\ \A j \in 1 .. n : r[j + 1] = s[j]
      /\ \A j \in 1 .. n + 1 : j # 1 => j - 1 \in 1 .. n /\ r[j] = s[j - 1]
  OBVIOUS
<1>2. \A j \in 1 .. n : j + 1 \in 1 .. n + 1 /\ j + 1 # 1
  BY <1>1
<1> HIDE DEF r
<1>3. Members(r) = Members(s) \cup {k}
  <2>1. ASSUME NEW j \in 1 .. n + 1
        PROVE  r[j] \in Members(s) \cup {k}
    BY <1>1, <2>1 DEF Members
  <2>2. ASSUME NEW j \in 1 .. n
        PROVE  \E l \in 1 .. n + 1 : r[l] = s[j]
    BY <1>1, <1>2, <2>2
  <2>3. 1 \in 1 .. n + 1
    BY <1>1
  <2> QED
    BY <1>1, <2>1, <2>2, <2>3 DEF Members
<1>4. Distinct(r)
  <2> SUFFICES ASSUME NEW i \in 1 .. n + 1, NEW j \in 1 .. n + 1, r[i] = r[j]
               PROVE  i = j
    BY <1>1 DEF Distinct
  <2>1. CASE i = 1 \/ j = 1
    BY <1>1, <2>1 DEF Members
  <2>2. CASE i # 1 /\ j # 1
    <3>1. s[i - 1] = s[j - 1] /\ i - 1 \in 1 .. n /\ j - 1 \in 1 .. n
      BY <1>1, <2>2
    <3>2. i - 1 = j - 1
      BY <3>1 DEF Distinct
    <3> QED
      BY <3>2
  <2> QED
    BY <2>1, <2>2
<1>5. ASSUME NEW a, NEW b
      PROVE  <<a, b>> \in OrderOf(r) <=>
                 <<a, b>> \in OrderOf(s) \/ (a \in Members(s) /\ b = k)
  <2>1. ASSUME <<a, b>> \in OrderOf(r)
        PROVE  <<a, b>> \in OrderOf(s) \/ (a \in Members(s) /\ b = k)
    <3>1. PICK i, j \in 1 .. n + 1 : i < j /\ r[i] = b /\ r[j] = a
      BY <1>1, <2>1, InOrder
    <3>2. j # 1 /\ j - 1 \in 1 .. n /\ s[j - 1] = a
      BY <1>1, <3>1
    <3>3. CASE i = 1
      BY <1>1, <3>1, <3>2, <3>3 DEF Members
    <3>4. CASE i # 1
      <4>1. i - 1 \in 1 .. n /\ s[i - 1] = b /\ i - 1 < j - 1
        BY <1>1, <3>1, <3>4
      <4> QED
        BY <3>2, <4>1, InOrder
    <3> QED
      BY <3>3, <3>4
  <2>2. ASSUME <<a, b>> \in OrderOf(s)
        PROVE  <<a, b>> \in OrderOf(r)
    <3>1. PICK i, j \in 1 .. n : i < j /\ s[i] = b /\ s[j] = a
      BY <2>2, InOrder
    <3>2. i + 1 < j + 1 /\ r[i + 1] = b /\ r[j + 1] = a
      BY <1>1, <3>1
    <3> QED
      BY <1>1, <1>2, <3>1, <3>2, InOrder
  <2>3. ASSUME a \in Members(s), b = k
        PROVE  <<a, b>> \in OrderOf(r)
    <3>1. PICK j \in 1 .. n : s[j] = a
      BY <2>3 DEF Members
    <3>2. 1 \in 1 .. n + 1 /\ 1 < j + 1 /\ r[j + 1] = a
      BY <1>1, <3>1
    <3> QED
      BY <1>1, <1>2, <2>3, <3>2, InOrder
  <2> QED
    BY <2>1, <2>2, <2>3
<1> QED
  BY <1>1, <1>3, <1>4, <1>5 DEF r

\* A list without repetitions is as long as it has members.
LEMMA LengthIsCardinality ==
    ASSUME NEW S, NEW s \in Seq(S), Distinct(s)
    PROVE  Cardinality(Members(s)) = Len(s)
<1> DEFINE f == [i \in 1 .. Len(s) |-> s[i]]
<1>1. f \in [1 .. Len(s) -> Members(s)]
  BY DEF Members
<1>2. \A i, j \in 1 .. Len(s) : f[i] = f[j] => i = j
  BY DEF Distinct
<1>3. \A m \in Members(s) : \E i \in 1 .. Len(s) : f[i] = m
  BY DEF Members
<1> HIDE DEF f
<1>4. f \in Bijection(1 .. Len(s), Members(s))
  BY <1>1, <1>2, <1>3 DEF Bijection, Injection, Surjection, IsInjective
<1>5. Len(s) \in Nat
  OBVIOUS
<1> QED
  BY <1>4, <1>5, FS_CountingElements DEF ExistsBijection

-----------------------------------------------------------------------------
\* The map and the list, and the instants at which entries may expire.

Instants == Times \cup {t + d : t \in Times, d \in Durations}

Expires(it) == it \in Item /\ it.expiration \in Instants

Coherent ==
    /\ lru \in Seq(Keys) /\ Distinct(lru) /\ Len(lru) <= MaxSize
    /\ DOMAIN items = Members(lru)
    /\ items = [k \in DOMAIN items |-> items[k]]
    /\ \A k \in DOMAIN items : k \in Keys /\ Expires(items[k])

\* What the list becomes under the three operations on it, as members and as an
\* order of use.
LEMMA FrontMoved ==
    ASSUME Coherent, NEW k \in DOMAIN items
    PROVE  /\ MoveToFront(k) \in Seq(Keys) /\ Distinct(MoveToFront(k))
           /\ Members(MoveToFront(k)) = Members(lru)
           /\ Len(MoveToFront(k)) = Len(lru)
           /\ \A a, b : <<a, b>> \in OrderOf(MoveToFront(k)) <=>
                 \/ <<a, b>> \in OrderOf(lru) /\ a # k /\ b # k
                 \/ a \in Members(lru) \ {k} /\ b = k
<1>1. Place(k) \in 1 .. Len(lru) /\ lru[Place(k)] = k /\ k \in Keys
  BY DEF Coherent, Members, Place
<1> DEFINE r == RemoveAt(lru, Place(k))
<1>2. /\ r \in Seq(Keys) /\ Len(r) = Len(lru) - 1 /\ Distinct(r)
      /\ Members(r) = Members(lru) \ {k}
      /\ \A a, b : <<a, b>> \in OrderOf(r) <=> <<a, b>> \in OrderOf(lru) /\ a # k /\ b # k
  BY <1>1, Removed DEF Coherent
<1> HIDE DEF r
<1>3. /\ <<k>> \o r \in Seq(Keys) /\ Len(<<k>> \o r) = Len(r) + 1 /\ Distinct(<<k>> \o r)
      /\ Members(<<k>> \o r) = Members(r) \cup {k}
      /\ \A a, b : <<a, b>> \in OrderOf(<<k>> \o r) <=>
            <<a, b>> \in OrderOf(r) \/ (a \in Members(r) /\ b = k)
  BY <1>1, <1>2, Pushed
<1>4. MoveToFront(k) = <<k>> \o r
  BY DEF MoveToFront, r
<1>5. k \in Members(lru) /\ Len(lru) \in Nat
  BY DEF Coherent
<1>6. Members(<<k>> \o r) = Members(lru)
  <2>1. Members(<<k>> \o r) = (Members(lru) \ {k}) \cup {k}
    BY <1>2, <1>3
  <2> QED
    BY <1>5, <2>1
<1>7. Len(<<k>> \o r) = Len(lru)
  BY <1>2, <1>3, <1>5
<1> QED
  BY <1>2, <1>3, <1>4, <1>6, <1>7

\* removeItem takes a key out of map and list, and out of the order.
LEMMA ItemRemoved ==
    ASSUME Coherent, NEW k \in DOMAIN items, removeItem(k)
    PROVE  /\ Coherent' /\ Len(lru') = Len(lru) - 1
           /\ DOMAIN items' = DOMAIN items \ {k}
           /\ \A other \in DOMAIN items' : items'[other] = items[other]
           /\ \A a, b : <<a, b>> \in OrderOf(lru') <=>
                 <<a, b>> \in OrderOf(lru) /\ a # k /\ b # k
<1>1. Place(k) \in 1 .. Len(lru) /\ lru[Place(k)] = k
  BY DEF Coherent, Members, Place
<1>2. /\ lru' \in Seq(Keys) /\ Len(lru') = Len(lru) - 1 /\ Distinct(lru')
      /\ Members(lru') = Members(lru) \ {k}
      /\ \A a, b : <<a, b>> \in OrderOf(lru') <=>
            <<a, b>> \in OrderOf(lru) /\ a # k /\ b # k
  BY <1>1, Removed DEF Coherent, removeItem
<1>3. /\ DOMAIN items' = DOMAIN items \ {k}
      /\ items' = [other \in DOMAIN items' |-> items'[other]]
      /\ \A other \in DOMAIN items' : items'[other] = items[other]
  BY DEF removeItem
<1>4. Len(lru) \in Nat /\ Len(lru) <= MaxSize /\ MaxSize \in Nat
  BY MaxSizeAssumption DEF Coherent
<1>5. Coherent'
  BY <1>2, <1>3, <1>4 DEF Coherent
<1> QED
  BY <1>2, <1>3, <1>5

\* The key at the back was used before all others; with it gone and a new key in
\* front, the order is as long as it was.
LEMMA BackEvicted ==
    ASSUME Coherent, Len(lru) > 0, NEW k \in Keys, k \notin DOMAIN items
    PROVE  LET v == lru[Len(lru)]
               e == <<k>> \o RemoveAt(lru, Len(lru))
           IN  /\ v \in DOMAIN items
               /\ \A other \in DOMAIN items \ {v} : <<v, other>> \in OrderOf(lru)
               /\ e \in Seq(Keys) /\ Distinct(e) /\ Len(e) = Len(lru)
               /\ Members(e) = (DOMAIN items \ {v}) \cup {k}
               /\ \A a, b : <<a, b>> \in OrderOf(e) <=>
                     \/ <<a, b>> \in OrderOf(lru) /\ a # v
                     \/ a \in DOMAIN items \ {v} /\ b = k
<1> DEFINE v == lru[Len(lru)]
           r == RemoveAt(lru, Len(lru))
<1>1. Len(lru) \in 1 .. Len(lru) /\ Len(lru) \in Nat /\ v \in DOMAIN items
  BY DEF Coherent, Members
<1>2. \A other \in DOMAIN items \ {v} : <<v, other>> \in OrderOf(lru)
  <2> SUFFICES ASSUME NEW other \in DOMAIN items \ {v}
               PROVE  <<v, other>> \in OrderOf(lru)
    OBVIOUS
  <2>1. PICK i \in 1 .. Len(lru) : lru[i] = other
    BY DEF Coherent, Members
  <2>2. i < Len(lru)
    BY <1>1, <2>1
  <2> QED
    BY <1>1, <2>1, <2>2, InOrder
<1>3. \A a, b : <<a, b>> \in OrderOf(lru) => b # v
  <2> SUFFICES ASSUME NEW a, NEW b, <<a, b>> \in OrderOf(lru), b = v
               PROVE  FALSE
    OBVIOUS
  <2>1. PICK i, j \in 1 .. Len(lru) : i < j /\ lru[i] = b /\ lru[j] = a
    BY InOrder
  <2>2. i = Len(lru)
    BY <1>1, <2>1 DEF Coherent, Distinct
  <2> QED
    BY <1>1, <2>1, <2>2
<1>4. /\ r \in Seq(Keys) /\ Len(r) = Len(lru) - 1 /\ Distinct(r)
      /\ Members(r) = Members(lru) \ {v}
      /\ \A a, b : <<a, b>> \in OrderOf(r) <=> <<a, b>> \in OrderOf(lru) /\ a # v /\ b # v
  BY <1>1, Removed DEF Coherent
<1> HIDE DEF r, v
<1>5. k \notin Members(r) /\ Members(r) = DOMAIN items \ {v}
  BY <1>4 DEF Coherent
<1>6. /\ <<k>> \o r \in Seq(Keys) /\ Len(<<k>> \o r) = Len(r) + 1 /\ Distinct(<<k>> \o r)
      /\ Members(<<k>> \o r) = Members(r) \cup {k}
      /\ \A a, b : <<a, b>> \in OrderOf(<<k>> \o r) <=>
            <<a, b>> \in OrderOf(r) \/ (a \in Members(r) /\ b = k)
  BY <1>4, <1>5, Pushed
<1>7. Len(<<k>> \o r) = Len(lru)
  BY <1>1, <1>4, <1>6
<1>8. Members(<<k>> \o r) = (DOMAIN items \ {v}) \cup {k}
  BY <1>5, <1>6
<1>9. \A a, b : <<a, b>> \in OrderOf(<<k>> \o r) <=>
          \/ <<a, b>> \in OrderOf(lru) /\ a # v
          \/ a \in DOMAIN items \ {v} /\ b = k
  BY <1>3, <1>4, <1>5, <1>6
<1> QED
  BY <1>1, <1>2, <1>6, <1>7, <1>8, <1>9 DEF r, v

-----------------------------------------------------------------------------
\* The inductive invariant.  Between sweeps no element is looked at, and a sweep
\* judges by a time that has passed.

IInv ==
    /\ Coherent
    /\ pending \in [Procs -> SetCall \cup {NoSet}]
    /\ \A p \in Procs : pending[p].busy => pending[p].expiration \in Instants
    /\ janitor \in {"waiting", "sweeping", "gone"}
    /\ cursor \in 0 .. Len(lru)
    /\ janitor # "sweeping" => cursor = 0
    /\ sweepNow \in Times /\ now \in Times /\ sweepNow <= now
    /\ tickDue \in BOOLEAN /\ stopped \in BOOLEAN
    /\ answer \in [hit : {TRUE}, key : Keys, value : Values] \cup {NoAnswer}

\* Deadlines are natural numbers, and never is one of them.
LEMMA InstantFacts ==
    /\ Instants \subseteq Nat /\ Never \in Instants
    /\ \A t \in Times, d \in Durations : t + d \in Instants
  BY DurationsAssumption, MaxTimeAssumption DEF Instants, Times, Never

\* The invariant implies the types and that list and map agree.
LEMMA InvariantMeans == IInv => TypeOK
<1> SUFFICES ASSUME IInv
             PROVE  TypeOK
  OBVIOUS
<1>1. ListMatchesMap
  BY DEF IInv, Coherent, ListMatchesMap, Members, Distinct
<1>2. items \in [DOMAIN items -> Item]
  BY DEF IInv, Coherent, Expires
<1>3. DOMAIN items \subseteq Keys
  BY DEF IInv, Coherent
<1> QED
  BY <1>1, <1>2, <1>3 DEF IInv, Coherent, TypeOK

\* An empty cache satisfies the invariant.
LEMMA InitIInv == Init => IInv
<1> SUFFICES ASSUME Init
             PROVE  IInv
  OBVIOUS
<1>1. Coherent
  BY MaxSizeAssumption DEF Init, Coherent, Distinct, Members
<1>2. /\ pending \in [Procs -> SetCall \cup {NoSet}]
      /\ \A p \in Procs : ~pending[p].busy
  BY DEF Init, NoSet
<1>3. /\ cursor = 0 /\ cursor \in 0 .. Len(lru)
      /\ sweepNow \in Times /\ now \in Times /\ sweepNow <= now
  BY MaxTimeAssumption DEF Init, Times
<1> QED
  BY <1>1, <1>2, <1>3 DEF Init, IInv

\* A Set that commits: whichever way, the key is at the front with its new item.
LEMMA CommitKeeps ==
    ASSUME Coherent, NEW k \in Keys, NEW it, Expires(it),
           Overwrite(k, it) \/ PushFront(k, it) \/ PushFrontAndEvict(k, it)
    PROVE  Coherent' /\ Len(lru') >= Len(lru)
<1>1. Len(lru) \in Nat /\ MaxSize \in Nat /\ MaxSize > 0
  BY MaxSizeAssumption DEF Coherent
<1>2. CASE Overwrite(k, it)
  <2>1. /\ lru' \in Seq(Keys) /\ Distinct(lru') /\ Members(lru') = Members(lru)
        /\ Len(lru') = Len(lru)
    BY <1>2, FrontMoved DEF Overwrite
  <2>2. /\ DOMAIN items' = DOMAIN items
        /\ items' = [key \in DOMAIN items' |-> items'[key]]
        /\ \A key \in DOMAIN items' : Expires(items'[key])
    BY <1>2 DEF Overwrite, Coherent
  <2> QED
    BY <1>1, <2>1, <2>2 DEF Coherent
<1>3. CASE PushFront(k, it)
  <2>1. k \notin Members(lru)
    BY <1>3 DEF PushFront, Coherent
  <2>2. /\ lru' \in Seq(Keys) /\ Distinct(lru') /\ Members(lru') = Members(lru) \cup {k}
        /\ Len(lru') = Len(lru) + 1
    BY <1>3, <2>1, Pushed DEF PushFront, Coherent
  <2>3. /\ DOMAIN items' = DOMAIN items \cup {k}
        /\ items' = [key \in DOMAIN items' |-> items'[key]]
        /\ \A key \in DOMAIN items' : key \in Keys /\ Expires(items'[key])
    BY <1>3 DEF PushFront, Coherent
  <2> QED
    BY <1>1, <1>3, <2>2, <2>3 DEF Coherent, PushFront
<1>4. CASE PushFrontAndEvict(k, it)
  <2> DEFINE v == lru[Len(lru)]
  <2>1. k \notin DOMAIN items /\ Len(lru) > 0
    BY <1>1, <1>4 DEF PushFrontAndEvict
  <2>2. /\ lru' \in Seq(Keys) /\ Distinct(lru') /\ Len(lru') = Len(lru)
        /\ Members(lru') = (DOMAIN items \ {v}) \cup {k}
    BY <1>4, <2>1, BackEvicted DEF PushFrontAndEvict
  <2>3. /\ DOMAIN items' = (DOMAIN items \ {v}) \cup {k}
        /\ items' = [key \in DOMAIN items' |-> items'[key]]
        /\ \A key \in DOMAIN items' : key \in Keys /\ Expires(items'[key])
    BY <1>4 DEF PushFrontAndEvict, Coherent
  <2> QED
    BY <1>1, <2>2, <2>3 DEF Coherent
<1> QED
  BY <1>2, <1>3, <1>4

\* Every step keeps the invariant, whoever takes it.
LEMMA NextIInv == IInv /\ [Next]_vars => IInv'
<1> SUFFICES ASSUME IInv, [Next]_vars
             PROVE  IInv'
  OBVIOUS
<1> USE DEF IInv, janitorVars
<1>1. Len(lru) \in Nat /\ MaxTime \in Nat
  BY MaxTimeAssumption DEF Coherent
<1>2. UNCHANGED <<items, lru>> => Coherent'
  BY DEF Coherent
<1>3. ASSUME NEW p \in Procs, SetBegin(p)
      PROVE  IInv'
  <2>1. PICK k \in Keys, v \in Values, d \in Durations :
            pending' = [pending EXCEPT ![p] =
                [busy |-> TRUE, key |-> k, value |-> v, expiration |-> expirationOf(d)]]
    BY <1>3 DEF SetBegin
  <2>2. expirationOf(d) \in Instants /\ expirationOf(d) \in Nat
    BY InstantFacts DEF expirationOf
  <2> QED
    BY <1>2, <1>3, <2>1, <2>2 DEF SetBegin, SetCall
<1>4. ASSUME NEW p \in Procs, SetCommit(p)
      PROVE  IInv'
  <2> DEFINE k == pending[p].key
             it == [value |-> pending[p].value, expiration |-> pending[p].expiration]
  <2>1. k \in Keys /\ Expires(it)
    <3>1. pending[p].busy /\ pending[p] \in SetCall
      BY <1>4 DEF SetCommit, NoSet
    <3>2. /\ pending[p].key \in Keys /\ pending[p].value \in Values
          /\ pending[p].expiration \in Nat
      BY <3>1 DEF SetCall
    <3> QED
      BY <3>1, <3>2 DEF Expires, Item
  <2>2. Coherent' /\ Len(lru') >= Len(lru)
    BY <1>4, <2>1, CommitKeeps DEF SetCommit
  <2>3. Len(lru') \in Nat
    BY <2>2 DEF Coherent
  <2>4. cursor' = 0 /\ cursor' \in 0 .. Len(lru')
    BY <1>4, <2>3 DEF SetCommit, MuFree
  <2>5. /\ pending' \in [Procs -> SetCall \cup {NoSet}]
        /\ \A q \in Procs : pending'[q].busy => pending'[q].expiration \in Instants
    BY <1>4 DEF SetCommit, NoSet
  <2> QED
    BY <1>4, <2>2, <2>4, <2>5 DEF SetCommit
<1>5. ASSUME NEW k \in Keys, GetHit(k)
      PROVE  IInv'
  <2>1. Coherent' /\ Len(lru') = Len(lru)
    BY <1>5, FrontMoved DEF GetHit, Coherent
  <2>2. items[k].value \in Values
    BY <1>5 DEF GetHit, Coherent, Expires, Item
  <2> QED
    BY <1>5, <2>1, <2>2 DEF GetHit
<1>6. ASSUME NEW k \in Keys, GetMiss(k)
      PROVE  IInv'
  <2>1. Coherent'
    BY <1>2, <1>6, ItemRemoved DEF GetMiss
  <2>2. cursor' \in 0 .. Len(lru')
    BY <1>6, <2>1 DEF GetMiss, MuFree, Coherent
  <2> QED
    BY <1>6, <2>1, <2>2 DEF GetMiss
<1>7. ASSUME SweepStep
      PROVE  IInv'
  <2>1. lru[cursor] \in DOMAIN items
    BY <1>7 DEF SweepStep, Coherent, Members
  <2>2. /\ Coherent'
        /\ Len(lru') \in {Len(lru), Len(lru) - 1}
    BY <1>2, <1>7, <2>1, ItemRemoved DEF SweepStep
  <2>3. cursor' \in 0 .. Len(lru')
    BY <1>1, <1>7, <2>2 DEF SweepStep
  <2> QED
    BY <1>7, <2>2, <2>3 DEF SweepStep
<1>8. ASSUME SweepBegin \/ SweepEnd
      PROVE  IInv'
  <2>1. /\ Coherent'
        /\ UNCHANGED <<lru, pending, stopped, now, answer>>
        /\ tickDue' \in BOOLEAN
        /\ janitor' \in {"waiting", "sweeping", "gone"}
    BY <1>2, <1>8 DEF SweepBegin, SweepEnd
  <2>2. cursor' \in 0 .. Len(lru') /\ (janitor' # "sweeping" => cursor' = 0)
    BY <1>1, <1>8, <2>1 DEF SweepBegin, SweepEnd
  <2>3. sweepNow' \in Times /\ sweepNow' <= now'
    BY <1>1, <1>8 DEF SweepBegin, SweepEnd, Times
  <2> QED
    BY <2>1, <2>2, <2>3
<1>9. CASE Stop \/ TickerFires \/ JanitorReturns
  BY <1>2, <1>9 DEF Stop, TickerFires, JanitorReturns
<1>10. ASSUME ClockTick
       PROVE  IInv'
  <2>1. now' \in Times /\ sweepNow <= now'
    BY <1>1, <1>10 DEF ClockTick, Times
  <2> QED
    BY <1>2, <1>10, <2>1 DEF ClockTick
<1>11. CASE UNCHANGED vars
  BY <1>2, <1>11 DEF vars
<1> QED
  BY <1>3, <1>4, <1>5, <1>6, <1>7, <1>8, <1>9, <1>10, <1>11 DEF Next

\* The inductive invariant holds of every run of the cache.
THEOREM Invariant == Spec => []IInv
  BY InitIInv, NextIInv, PTL DEF Spec

\* Map and list agree, and every part of the cache keeps its type.
THEOREM TypeCorrect == Spec => []TypeOK
  BY Invariant, InvariantMeans, PTL

-----------------------------------------------------------------------------
\* The refinement.  The store is the map; what was used before what is what is
\* behind it on the list.

StoreOf(its) ==
    [k \in DOMAIN its |-> [value |-> its[k].value, deadline |-> its[k].expiration]]

\* An order of use holds pairs and nothing else.
LEMMA OnlyPairs == \A s : \A p \in OrderOf(s) : p = <<p[1], p[2]>>
  BY DEF OrderOf

\* An empty cache is an empty store.
LEMMA InitImplements == Init => Store!Init
<1> SUFFICES ASSUME Init
             PROVE  Store!Init
  OBVIOUS
<1>1. OrderOf(lru) = {}
  BY DEF Init, OrderOf
<1>2. StoreOf(items) = [k \in {} |-> [value |-> k, deadline |-> Never]]
  BY DEF Init, StoreOf
<1> QED
  BY <1>1, <1>2 DEF Init, Store!Init, StoreOf, OrderOf, Store!NoAnswer, NoAnswer

\* Dropping an entry that had expired at a time that has passed.
LEMMA RemovalForgets ==
    ASSUME IInv, NEW k \in Keys, k \in DOMAIN items, NEW t \in Times, t <= now,
           Expired(k, t), removeItem(k)
    PROVE  Store!Forget(k)
<1>1. /\ DOMAIN items' = DOMAIN items \ {k}
      /\ \A other \in DOMAIN items' : items'[other] = items[other]
      /\ \A a, b : <<a, b>> \in OrderOf(lru') <=>
            <<a, b>> \in OrderOf(lru) /\ a # k /\ b # k
  BY ItemRemoved DEF IInv
<1>2. k \in Store!Held /\ Store!Expired(k)
  <2>1. items[k].expiration \in Nat /\ now \in Nat /\ t \in Nat
    BY MaxTimeAssumption, InstantFacts DEF IInv, Coherent, Expires, Times
  <2> QED
    BY <2>1 DEF Expired, Store!Expired, Store!Held, Never
<1>3. StoreOf(items') = [key \in DOMAIN items \ {k} |-> StoreOf(items)[key]]
  BY <1>1 DEF StoreOf
<1>4. OrderOf(lru') = {p \in OrderOf(lru) : p[1] # k /\ p[2] # k}
  <2>1. \A p \in OrderOf(lru') : p \in OrderOf(lru) /\ p[1] # k /\ p[2] # k
    BY <1>1, OnlyPairs
  <2>2. \A p \in OrderOf(lru) : p[1] # k /\ p[2] # k => p \in OrderOf(lru')
    BY <1>1, OnlyPairs
  <2> QED
    BY <2>1, <2>2
<1> QED
  BY <1>2, <1>3, <1>4
  DEF Store!Forget, Store!Without, Store!Held, Store!Restrict, StoreOf, OrderOf

\* A list with k at its front that otherwise keeps its order is the store's
\* order after a use of k.
LEMMA FrontIsUsedLast ==
    ASSUME NEW k, NEW s,
           \A a, b : <<a, b>> \in OrderOf(s) <=>
               \/ <<a, b>> \in OrderOf(lru) /\ a # k /\ b # k
               \/ a \in DOMAIN items \ {k} /\ b = k
    PROVE  OrderOf(s) = Store!UsedLast(k, Store!Held)
<1> DEFINE used == {p \in OrderOf(lru) : p[1] # k /\ p[2] # k}
                       \cup {<<other, k>> : other \in DOMAIN items \ {k}}
<1>1. \A p \in OrderOf(s) : p \in used
  <2> SUFFICES ASSUME NEW p \in OrderOf(s)
               PROVE  p \in used
    OBVIOUS
  <2>1. p = <<p[1], p[2]>>
    BY OnlyPairs
  <2>2. \/ p \in OrderOf(lru) /\ p[1] # k /\ p[2] # k
        \/ p[1] \in DOMAIN items \ {k} /\ p[2] = k
    BY <2>1
  <2> QED
    BY <2>1, <2>2
<1>2. \A p \in used : p \in OrderOf(s)
  <2>1. \A p \in OrderOf(lru) : p[1] # k /\ p[2] # k => p \in OrderOf(s)
    BY OnlyPairs
  <2> QED
    BY <2>1
<1>3. OrderOf(s) = used
  BY <1>1, <1>2
<1> QED
  BY <1>3 DEF Store!UsedLast, Store!Without, Store!Held, StoreOf, OrderOf

\* A Get that hits is a lookup that hits.
LEMMA HitImplements ==
    ASSUME IInv, NEW k \in Keys, GetHit(k)
    PROVE  Store!Hit(k)
<1>1. k \in DOMAIN items /\ lru' = MoveToFront(k) /\ Members(lru) = DOMAIN items
  BY DEF GetHit, IInv, Coherent
<1>2. OrderOf(lru') = Store!UsedLast(k, Store!Held)
  BY <1>1, FrontMoved, FrontIsUsedLast DEF IInv
<1>3. ~Store!Expired(k)
  <2>1. items[k].expiration \in Nat
    BY <1>1, InstantFacts DEF IInv, Coherent, Expires
  <2> QED
    BY <1>1, <2>1 DEF GetHit, Expired, Store!Expired, Never
<1>4. answer' = [hit |-> TRUE, key |-> k, value |-> StoreOf(items)[k].value]
  BY <1>1 DEF GetHit, StoreOf
<1> QED
  BY <1>1, <1>2, <1>3, <1>4 DEF GetHit, Store!Hit, Store!Held, StoreOf, OrderOf

\* The store counts its keys as anybody does.
LEMMA StoreCounts == \A S : Store!Cardinality(S) = Cardinality(S)
  BY DEF Store!Cardinality, Cardinality

\* A Set that commits is a Put: it replaces, inserts or supplants.
LEMMA CommitImplements ==
    ASSUME IInv, NEW k \in Keys, NEW v \in Values, NEW d \in Instants,
           NEW it, it = [value |-> v, expiration |-> d], UNCHANGED <<now, answer>>,
           Overwrite(k, it) \/ PushFront(k, it) \/ PushFrontAndEvict(k, it)
    PROVE  Store!Put
<1>1. /\ Members(lru) = DOMAIN items /\ Distinct(lru) /\ lru \in Seq(Keys)
      /\ Len(lru) \in Nat /\ Len(lru) <= MaxSize /\ MaxSize \in Nat /\ MaxSize > 0
      /\ Cardinality(DOMAIN items) = Len(lru)
  BY LengthIsCardinality, MaxSizeAssumption DEF IInv, Coherent
<1>2. Store!Held = DOMAIN items /\ Store!Cardinality(Store!Held) = Len(lru)
  BY <1>1, StoreCounts DEF Store!Held
<1>3. Store!Replace(k, v, d) \/ Store!Insert(k, v, d) \/ Store!Supplant(k, v, d)
        => Store!Put
  BY DEF Store!Put, Instants
<1>4. CASE Overwrite(k, it)
  <2>1. k \in DOMAIN items /\ lru' = MoveToFront(k)
    BY <1>4 DEF Overwrite
  <2>2. OrderOf(lru') = Store!UsedLast(k, Store!Held)
    BY <1>1, <2>1, FrontMoved, FrontIsUsedLast DEF IInv
  <2>3. StoreOf(items') = Store!With(StoreOf(items), k, v, d)
    BY <1>4, <2>1 DEF Overwrite, StoreOf, Store!With
  <2>4. Store!Replace(k, v, d)
    BY <1>2, <2>1, <2>2, <2>3 DEF Store!Replace, StoreOf, OrderOf
  <2> QED
    BY <1>3, <2>4
<1>5. CASE PushFront(k, it)
  <2>1. k \notin DOMAIN items /\ lru' = <<k>> \o lru /\ Len(lru) + 1 <= MaxSize
    BY <1>5 DEF PushFront
  <2>2. \A a, b : <<a, b>> \in OrderOf(lru) => a # k /\ b # k
    BY <1>1, <2>1, InOrder DEF Members
  <2>3. OrderOf(lru') = Store!UsedLast(k, Store!Held)
    <3>1. \A a, b : <<a, b>> \in OrderOf(lru') <=>
              <<a, b>> \in OrderOf(lru) \/ (a \in DOMAIN items /\ b = k)
      BY <1>1, <2>1, Pushed
    <3>2. DOMAIN items \ {k} = DOMAIN items
      BY <2>1
    <3> QED
      BY <2>2, <3>1, <3>2, FrontIsUsedLast
  <2>4. StoreOf(items') = Store!With(StoreOf(items), k, v, d)
    BY <1>5, <2>1 DEF PushFront, StoreOf, Store!With
  <2>5. k \notin Store!Held /\ Store!Cardinality(Store!Held) < MaxSize
    BY <1>1, <1>2, <2>1
  <2>6. Store!Insert(k, v, d)
    BY <2>3, <2>4, <2>5 DEF Store!Insert, StoreOf, OrderOf
  <2> QED
    BY <1>3, <2>6
<1>6. CASE PushFrontAndEvict(k, it)
  <2>0. PICK w : w = lru[Len(lru)]
    OBVIOUS
  <2>1. k \notin DOMAIN items /\ lru' = <<k>> \o RemoveAt(lru, Len(lru)) /\ Len(lru) = MaxSize
    BY <1>1, <1>6 DEF PushFrontAndEvict
  <2>2. /\ w \in DOMAIN items
        /\ \A other \in DOMAIN items \ {w} : <<w, other>> \in OrderOf(lru)
        /\ \A a, b : <<a, b>> \in OrderOf(lru') <=>
              \/ <<a, b>> \in OrderOf(lru) /\ a # w
              \/ a \in DOMAIN items \ {w} /\ b = k
    BY <1>1, <2>1, <2>0, BackEvicted DEF IInv
  <2>3. \A a, b : <<a, b>> \in OrderOf(lru) => a # k /\ b # k
    BY <1>1, <2>1, InOrder DEF Members
  <2>4. OrderOf(lru') = {q \in Store!UsedLast(k, Store!Held) : q[1] # w}
    <3> DEFINE used == {q \in OrderOf(lru) : q[1] # k /\ q[2] # k}
                           \cup {<<other, k>> : other \in DOMAIN items \ {k}}
    <3>1. Store!UsedLast(k, Store!Held) = used
      BY DEF Store!UsedLast, Store!Without, Store!Held, OrderOf
    <3>2. \A q \in OrderOf(lru') : q \in used /\ q[1] # w
      <4> SUFFICES ASSUME NEW q \in OrderOf(lru')
                   PROVE  q \in used /\ q[1] # w
        OBVIOUS
      <4>1. q = <<q[1], q[2]>>
        BY OnlyPairs
      <4>2. \/ q \in OrderOf(lru) /\ q[1] # w
            \/ q[1] \in DOMAIN items \ {w} /\ q[2] = k
        BY <2>2, <4>1
      <4>3. CASE q \in OrderOf(lru) /\ q[1] # w
        BY <2>3, <4>1, <4>3
      <4>4. CASE q[1] \in DOMAIN items \ {w} /\ q[2] = k
        BY <2>1, <4>1, <4>4
      <4> QED
        BY <4>2, <4>3, <4>4
    <3>3. \A q \in used : q[1] # w => q \in OrderOf(lru')
      <4>1. \A q \in OrderOf(lru) : q[1] # w => q \in OrderOf(lru')
        BY <2>2, OnlyPairs
      <4>2. \A other \in DOMAIN items \ {k} : other # w => <<other, k>> \in OrderOf(lru')
        BY <2>2
      <4> QED
        BY <4>1, <4>2
    <3> QED
      BY <3>1, <3>2, <3>3
  <2>5. StoreOf(items') =
            Store!With([key \in DOMAIN items \ {w} |-> StoreOf(items)[key]], k, v, d)
    BY <1>6, <2>1, <2>0 DEF PushFrontAndEvict, StoreOf, Store!With
  <2>6. Store!LongestUnused(w)
    BY <1>2, <2>2 DEF Store!LongestUnused, OrderOf
  <2>7. k \notin Store!Held /\ Store!Cardinality(Store!Held) = MaxSize /\ w \in Store!Held
    BY <1>2, <2>1, <2>2
  <2>8. Store!Restrict(StoreOf(items), Store!Held \ {w}) =
            [key \in DOMAIN items \ {w} |-> StoreOf(items)[key]]
    BY <1>2 DEF Store!Restrict
  <2>9. Store!Supplant(k, v, d)
    <3>1. StoreOf(items') =
              Store!With(Store!Restrict(StoreOf(items), Store!Held \ {w}), k, v, d)
      BY <2>5, <2>8
    <3> QED
      BY <2>4, <2>6, <2>7, <3>1 DEF Store!Supplant, StoreOf, OrderOf
  <2> QED
    BY <1>3, <2>9
<1> QED
  BY <1>4, <1>5, <1>6

\* Every step of the cache is one of the store, or none.
LEMMA NextImplements == IInv /\ [Next]_vars => [Store!Next]_(Store!vars)
<1> SUFFICES ASSUME IInv, [Next]_vars
             PROVE  [Store!Next]_(Store!vars)
  OBVIOUS
<1>1. ASSUME UNCHANGED <<items, lru, now, answer>>
      PROVE  UNCHANGED Store!vars
  BY <1>1 DEF Store!vars
<1>2. ASSUME NEW p \in Procs, SetCommit(p)
      PROVE  Store!Next
  <2> DEFINE key == pending[p].key
             value == pending[p].value
             expiration == pending[p].expiration
  <2>1. pending[p].busy /\ pending[p] \in SetCall /\ expiration \in Instants
    BY <1>2 DEF SetCommit, IInv, NoSet
  <2>2. key \in Keys /\ value \in Values
    BY <2>1 DEF SetCall
  <2>3. PICK k \in Keys, v \in Values, d \in Instants :
            k = key /\ v = value /\ d = expiration
    BY <2>1, <2>2
  <2>4. PICK it : it = [value |-> v, expiration |-> d]
    OBVIOUS
  <2>5. Overwrite(k, it) \/ PushFront(k, it) \/ PushFrontAndEvict(k, it)
    BY <1>2, <2>3, <2>4
    DEF SetCommit, Overwrite, PushFront, PushFrontAndEvict, MoveToFront, Place
  <2>6. Store!Put
    BY <1>2, <2>4, <2>5, CommitImplements DEF SetCommit
  <2> QED
    BY <2>6 DEF Store!Next
<1>3. ASSUME NEW k \in Keys, GetHit(k)
      PROVE  Store!Next
  BY <1>3, HitImplements DEF Store!Next
<1>4. ASSUME NEW k \in Keys, GetMiss(k)
      PROVE  Store!Next
  <2>1. CASE k \notin DOMAIN items /\ UNCHANGED <<items, lru>>
    BY <1>4, <2>1 DEF GetMiss, Store!Miss, Store!Next, Store!Held, Store!NoAnswer, NoAnswer
  <2>2. CASE k \in DOMAIN items /\ Expired(k, now) /\ removeItem(k)
    <3>1. now \in Times /\ now <= now
      BY MaxTimeAssumption DEF IInv, Times
    <3>2. Store!Forget(k)
      BY <2>2, <3>1, RemovalForgets
    <3> QED
      BY <1>4, <3>2 DEF GetMiss, Store!Miss, Store!Next, Store!NoAnswer, NoAnswer
  <2> QED
    BY <1>4, <2>1, <2>2 DEF GetMiss
<1>5. ASSUME SweepStep
      PROVE  Store!Next \/ UNCHANGED Store!vars
  <2>1. lru[cursor] \in DOMAIN items /\ lru[cursor] \in Keys
    BY <1>5 DEF SweepStep, IInv, Coherent, Members
  <2>2. CASE Expired(lru[cursor], sweepNow)
    <3>1. PICK k \in Keys, t \in Times : k = lru[cursor] /\ t = sweepNow
      BY <2>1 DEF IInv
    <3>2. removeItem(k) /\ UNCHANGED <<now, answer>>
      BY <1>5, <2>2, <3>1 DEF SweepStep, removeItem, Place
    <3>3. t <= now /\ k \in DOMAIN items /\ Expired(k, t)
      BY <2>1, <2>2, <3>1 DEF IInv, Expired
    <3>4. Store!Forget(k)
      BY <3>2, <3>3, RemovalForgets
    <3>5. Store!Collect(k)
      BY <3>2, <3>4 DEF Store!Collect
    <3> QED
      BY <3>5 DEF Store!Next
  <2>3. CASE ~Expired(lru[cursor], sweepNow)
    BY <1>1, <1>5, <2>3 DEF SweepStep
  <2> QED
    BY <2>2, <2>3
<1>6. ASSUME ClockTick
      PROVE  Store!Next
  BY <1>6, MaxTimeAssumption DEF ClockTick, IInv, Times, Store!Next, Store!Passes
<1>7. CASE \/ \E p \in Procs : SetBegin(p)
           \/ Stop \/ TickerFires \/ SweepBegin \/ SweepEnd \/ JanitorReturns
           \/ UNCHANGED vars
  BY <1>1, <1>7 DEF SetBegin, Stop, TickerFires, SweepBegin, SweepEnd, JanitorReturns, vars
<1> QED
  BY <1>2, <1>3, <1>4, <1>5, <1>6, <1>7 DEF Next

\* The cache with its list, its mutex and its sweeps keeps every promise of the
\* abstract store: live entries are found until their deadline, expired ones
\* never, and only the key unused for longest makes way for another.
THEOREM Implements == Spec => ImplementsStore
<1>1. Init => Store!Init
  BY InitImplements
<1>2. IInv /\ [Next]_vars => [Store!Next]_(Store!vars)
  BY NextImplements
<1> QED
  BY <1>1, <1>2, Invariant, PTL DEF Spec, ImplementsStore, Store!Spec
=============================================================================
