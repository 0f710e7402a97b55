-------------------------- MODULE CollectionsProofs --------------------------
(***************************************************************************)
(* The two lists of every tab over one localStorage, for any number of     *)
(* tabs, any stations, any limit of the history and any sequence of        *)
(* writes, accepted or refused: the lists are well formed, no update is    *)
(* lost but where a tab writes over what it has not read or ends with a    *)
(* refused write, and the heart in the panel tells the truth.              *)
(***************************************************************************)
EXTENDS Collections, SequenceTheorems, WellFoundedInduction, TLAPS

Fields == {"open", "history", "favorites", "waiting", "shown", "drawn", "heart",
           "unsaved"}

IsTab(u) == u = [f \in Fields |-> u[f]]

\* The tab and what its panel draws fit.
Honest(u) ==
    u.drawn /\ "favorites" \notin u.unsaved => u.heart = isFavorite(u, u.shown)

Hearts ==
    /\ DOMAIN tab = Tabs
    /\ \A t \in Tabs : IsTab(tab[t]) /\ Honest(tab[t])

-----------------------------------------------------------------------------
\* A tab that has just loaded, or is closed, draws no station.
LEMMA LoadedIsHonest ==
    ASSUME NEW lists
    PROVE  /\ IsTab(Loaded(lists)) /\ Honest(Loaded(lists))
           /\ IsTab([Loaded(lists) EXCEPT !.open = FALSE])
           /\ Honest([Loaded(lists) EXCEPT !.open = FALSE])
  BY DEF IsTab, Fields, Loaded, Honest

\* Only the favourites decide what the heart should be.
LEMMA SameFavourites ==
    ASSUME NEW u, NEW v, NEW s, u.favorites = v.favorites
    PROVE  isFavorite(u, s) = isFavorite(v, s)
  BY DEF isFavorite

\* Every action replaces one tab.
LEMMA OneTab ==
    ASSUME Hearts, NEW t \in Tabs, NEW u, IsTab(u), Honest(u),
           tab' = [tab EXCEPT ![t] = u]
    PROVE  Hearts'
  BY DEF Hearts

\* Every event in a tab keeps that tab honest and leaves the others alone.
LEMMA NextHearts == Hearts /\ [Next]_vars => Hearts'
<1> SUFFICES ASSUME Hearts, [Next]_vars
             PROVE  Hearts'
  OBVIOUS
<1>1. ASSUME NEW t \in Tabs, Load(t)
      PROVE  Hearts'
  BY <1>1, LoadedIsHonest, OneTab DEF Load
<1>2. ASSUME NEW t \in Tabs, Unload(t)
      PROVE  Hearts'
  BY <1>2, LoadedIsHonest, OneTab DEF Unload
<1>3. ASSUME NEW t \in Tabs, ClosePanel(t)
      PROVE  Hearts'
  <2> DEFINE u == [tab[t] EXCEPT !.shown = NoStation, !.drawn = FALSE, !.heart = FALSE]
  <2>1. IsTab(u) /\ Honest(u)
    BY DEF Hearts, IsTab, Fields, Honest
  <2>2. tab' = [tab EXCEPT ![t] = u]
    BY <1>3 DEF ClosePanel, Hearts
  <2> QED
    BY <2>1, <2>2, OneTab
<1>4. ASSUME NEW t \in Tabs, PanelWithoutStation(t)
      PROVE  Hearts'
  <2> DEFINE u == [tab[t] EXCEPT !.drawn = FALSE, !.heart = FALSE]
  <2>1. IsTab(u) /\ Honest(u)
    BY DEF Hearts, IsTab, Fields, Honest
  <2>2. tab' = [tab EXCEPT ![t] = u]
    BY <1>4 DEF PanelWithoutStation, Hearts
  <2> QED
    BY <2>1, <2>2, OneTab
<1>5. ASSUME NEW t \in Tabs, Render(t) \/ Redraw(t)
      PROVE  Hearts'
  <2> DEFINE Drawn(s, w) ==
        [tab[t] EXCEPT !.waiting = w, !.shown = s, !.drawn = TRUE,
                       !.heart = isFavorite(tab[t], s)]
  <2>1. ASSUME NEW s, NEW w
        PROVE  IsTab(Drawn(s, w)) /\ Honest(Drawn(s, w))
    <3>1. /\ IsTab(Drawn(s, w))
          /\ Drawn(s, w).shown = s /\ Drawn(s, w).heart = isFavorite(tab[t], s)
          /\ Drawn(s, w).favorites = tab[t].favorites
      BY DEF Hearts, IsTab, Fields
    <3> HIDE DEF Drawn
    <3> QED
      BY <3>1, SameFavourites DEF Honest
  <2>2. \E s, w : tab' = [tab EXCEPT ![t] = Drawn(s, w)]
    <3>1. CASE Render(t)
      <4>1. tab' = [tab EXCEPT ![t] = Drawn(tab[t].waiting, NoStation)]
        BY <3>1 DEF Render, Hearts
      <4> QED
        BY <4>1
    <3>2. CASE Redraw(t)
      <4>1. tab' = [tab EXCEPT ![t] = Drawn(tab[t].shown, tab[t].waiting)]
        BY <3>2 DEF Redraw, Hearts, IsTab, Fields
      <4> QED
        BY <4>1
    <3> QED
      BY <1>5, <3>1, <3>2
  <2> HIDE DEF Drawn
  <2> QED
    BY <2>1, <2>2, OneTab
\* A refused write of the history leaves the panel without a station, an
\* accepted one leaves the favourites alone.
<1>6. ASSUME NEW t \in Tabs, NEW s \in Stations, NEW facts \in SUBSET Facts,
             NEW accepted \in BOOLEAN, DetailsArrive(t, s, facts, accepted)
      PROVE  Hearts'
  <2> DEFINE h == addToHistory(tab[t].history, s, facts)
             v == IF accepted THEN [[tab[t] EXCEPT !.history = h] EXCEPT !.waiting = s]
                  ELSE [[tab[t] EXCEPT !.history = h] EXCEPT !.drawn = FALSE, !.heart = FALSE]
             u == [v EXCEPT !.unsaved = IF accepted THEN v.unsaved \ {"history"}
                                                    ELSE v.unsaved \cup {"history"}]
  <2>1. tab' = [tab EXCEPT ![t] = u]
    BY <1>6 DEF DetailsArrive, setItem, Hearts, IsTab, Fields
  <2> HIDE DEF h
  <2>2. /\ IsTab(u) /\ u.favorites = tab[t].favorites /\ u.shown = tab[t].shown
        /\ u.drawn => tab[t].drawn /\ u.heart = tab[t].heart
        /\ "favorites" \in tab[t].unsaved => "favorites" \in u.unsaved
    BY DEF Hearts, IsTab, Fields
  <2> HIDE DEF u
  <2>3. Honest(u)
    <3>1. isFavorite(u, u.shown) = isFavorite(tab[t], tab[t].shown)
      BY <2>2, SameFavourites
    <3>2. Honest(tab[t])
      BY DEF Hearts
    <3> QED
      BY <2>2, <3>1, <3>2 DEF Honest
  <2> QED
    BY <2>1, <2>2, <2>3, OneTab
\* A refused click is marked as unsaved, an accepted one sets the heart.
<1>7. ASSUME NEW t \in Tabs, NEW accepted \in BOOLEAN, ClickFavorite(t, accepted)
      PROVE  Hearts'
  <2> DEFINE s == tab[t].shown
             g == toggleFavorite(tab[t], s)
             x == [tab[t] EXCEPT !.favorites = g]
             v == IF accepted THEN [x EXCEPT !.heart = isFavorite(x, s)] ELSE x
             u == [v EXCEPT !.unsaved = IF accepted THEN v.unsaved \ {"favorites"}
                                                    ELSE v.unsaved \cup {"favorites"}]
  <2>1. tab' = [tab EXCEPT ![t] = u]
    BY <1>7 DEF ClickFavorite, setItem, Hearts, IsTab, Fields
  <2> HIDE DEF g
  <2>2. /\ IsTab(u) /\ u.favorites = x.favorites /\ u.shown = s
        /\ accepted => u.heart = isFavorite(x, s)
        /\ ~accepted => "favorites" \in u.unsaved
    BY ZenonT(40) DEF Hearts, IsTab, Fields
  <2> HIDE DEF u, x
  <2>3. Honest(u)
    BY <2>2, SameFavourites DEF Honest
  <2> QED
    BY <2>1, <2>2, <2>3, OneTab
<1>8. CASE UNCHANGED vars
  BY <1>8 DEF vars, Hearts
<1> QED
  BY <1>1, <1>2, <1>3, <1>4, <1>5, <1>6, <1>7, <1>8 DEF Next

\* The heart of a panel that draws a station tells whether the tab counts it
\* among its favourites, in every tab, whatever was clicked, refused, closed or
\* redrawn since, unless the tab's last write of the favourites was refused.
THEOREM HeartIsTrue == Spec => []HeartTellsFavourite
<1>1. Init => Hearts
  BY LoadedIsHonest DEF Init, Hearts
<1>2. Hearts => HeartTellsFavourite
  BY DEF Hearts, Honest, HeartTellsFavourite
<1> QED
  BY <1>1, <1>2, NextHearts, PTL DEF Spec
-----------------------------------------------------------------------------
\* Lists, and what is filtered from them.

\* Of any naturals there is a least: induction, for sets.
LEMMA Least ==
    ASSUME NEW T \in SUBSET Nat, T # {}
    PROVE  \E x \in T : \A y \in T : x <= y
<1> DEFINE R == OpToRel(<, Nat)
<1>1. IsWellFoundedOn(R, Nat)
  BY NatLessThanWellFounded
<1>2. \A x, y \in Nat : x < y => <<x, y>> \in R
  BY DEF OpToRel
<1> HIDE DEF R
<1>3. PICK x \in T : \A y \in T : ~ (<<y, x>> \in R)
  BY <1>1, WFMin
<1>4. ASSUME NEW y \in T
      PROVE  x <= y
  <2>1. x \in Nat /\ y \in Nat
    OBVIOUS
  <2>2. ~(y < x)
    BY <1>2, <1>3, <2>1, Zenon
  <2> QED
    BY <2>1, <2>2
<1> QED
  BY <1>4

\* A function that satisfies the recursion of Without is the one it defines.
LEMMA WithoutIs ==
    ASSUME NEW list, NEW dropped, Len(list) \in Nat, NEW w,
           w = [n \in 0 .. Len(list) |->
                   IF n = 0 THEN <<>>
                   ELSE IF list[n] \in dropped THEN w[n - 1]
                   ELSE Append(w[n - 1], list[n])]
    PROVE  Without(list, dropped) = w[Len(list)]
<1> DEFINE N == 0 .. Len(list)
           Recursive(f) == f = [n \in N |->
                   IF n = 0 THEN <<>>
                   ELSE IF list[n] \in dropped THEN f[n - 1]
                   ELSE Append(f[n - 1], list[n])]
           v == CHOOSE f : Recursive(f)
           Differs == {n \in N : v[n] # w[n]}
<1>1. Without(list, dropped) = v[Len(list)]
  BY DEF Without
<1>2. Recursive(w)
  OBVIOUS
<1> HIDE DEF Recursive
<1>3. Recursive(v)
  BY <1>2
<1> HIDE DEF v
<1>4. ASSUME NEW n \in N, n # 0, v[n - 1] = w[n - 1]
      PROVE  v[n] = w[n]
  BY <1>2, <1>3, <1>4 DEF Recursive
<1>5. v[0] = w[0]
  BY <1>2, <1>3 DEF Recursive
<1>6. ASSUME Differs # {}
      PROVE  FALSE
  <2>1. PICK n \in Differs : \A y \in Differs : n <= y
    <3>1. Differs \in SUBSET Nat
      OBVIOUS
    <3> HIDE DEF Differs
    <3> QED
      BY <1>6, <3>1, Least
  <2>2. n \in Nat /\ n # 0 /\ n <= Len(list)
    BY <1>5
  <2>3. n - 1 \in N /\ n - 1 \notin Differs
    BY <2>1, <2>2
  <2> QED
    BY <1>4, <2>2, <2>3
<1> QED
  BY <1>1, <1>6

\* What is left of a list, one place of which, or none, is filtered out.
LEMMA OneDropped ==
    ASSUME NEW S, NEW list \in Seq(S), NEW dropped, NEW i \in 1 .. Len(list) + 1,
           \A j \in 1 .. Len(list) : list[j] \in dropped <=> j = i
    PROVE  /\ Without(list, dropped) \in Seq(S)
           /\ Len(Without(list, dropped)) =
                 IF i <= Len(list) THEN Len(list) - 1 ELSE Len(list)
           /\ \A j \in 1 .. Len(Without(list, dropped)) :
                 Without(list, dropped)[j] = list[IF j < i THEN j ELSE j + 1]
<1> DEFINE Size(n) == IF n < i THEN n ELSE n - 1
           Left(n) == [j \in 1 .. Size(n) |-> list[IF j < i THEN j ELSE j + 1]]
           w == [n \in 0 .. Len(list) |-> Left(n)]
<1>1. Len(list) \in Nat /\ i \in Nat \ {0}
  BY LenProperties
<1>2. ASSUME NEW n \in 0 .. Len(list)
      PROVE  Left(n) \in Seq(S) /\ Len(Left(n)) = Size(n)
  <2>1. Size(n) \in Nat
    BY <1>1
  <2>2. \A j \in 1 .. Size(n) : list[IF j < i THEN j ELSE j + 1] \in S
    BY <1>1, ElementOfSeq
  <2>3. Left(n) \in [1 .. Size(n) -> S]
    BY <2>2
  <2> HIDE DEF Size, Left
  <2> QED
    BY <2>1, <2>3
<1>3. Left(0) = <<>>
  <2>1. Left(0) \in Seq(S) /\ Len(Left(0)) = 0
    BY <1>1, <1>2
  <2> QED
    BY <2>1, EmptySeq
<1>4. ASSUME NEW n \in 0 .. Len(list), n # 0, list[n] \in dropped
      PROVE  Left(n) = Left(n - 1)
  <2>1. n = i /\ Size(n) = Size(n - 1)
    BY <1>1, <1>4
  <2> QED
    BY <2>1
<1>5. ASSUME NEW n \in 0 .. Len(list), n # 0, list[n] \notin dropped
      PROVE  Left(n) = Append(Left(n - 1), list[n])
  <2> DEFINE p == Left(n - 1)
  <2>1. n # i /\ Size(n) = Size(n - 1) + 1 /\ n - 1 \in 0 .. Len(list)
    BY <1>1, <1>5
  <2>2. list[n] \in S
    BY <1>5, ElementOfSeq
  <2>3. p \in Seq(S) /\ Len(p) = Size(n - 1) /\ Size(n - 1) \in Nat
    BY <1>1, <1>2, <2>1
  <2>4. \A j \in 1 .. Size(n - 1) : Left(n)[j] = p[j]
    BY <2>1, <2>3
  <2>5. Left(n)[Size(n)] = list[n]
    BY <1>1, <2>1
  <2>6. Left(n) \in Seq(S) /\ Len(Left(n)) = Size(n)
    BY <1>2
  <2> HIDE DEF p, Left, Size
  <2>7. /\ Append(p, list[n]) \in Seq(S) /\ Len(Append(p, list[n])) = Len(p) + 1
        /\ \A j \in 1 .. Len(p) : Append(p, list[n])[j] = p[j]
        /\ Append(p, list[n])[Len(p) + 1] = list[n]
    BY <2>2, <2>3, AppendProperties
  <2>8. \A j \in 1 .. Len(Left(n)) : Left(n)[j] = Append(p, list[n])[j]
    BY <2>1, <2>3, <2>4, <2>5, <2>6, <2>7
  <2>9. Left(n) = Append(p, list[n])
    BY <2>1, <2>3, <2>6, <2>7, <2>8, SeqEqual
  <2> QED
    BY <2>9 DEF p
<1>6. w = [n \in 0 .. Len(list) |->
              IF n = 0 THEN <<>>
              ELSE IF list[n] \in dropped THEN w[n - 1]
              ELSE Append(w[n - 1], list[n])]
  <2>1. \A n \in 0 .. Len(list) : n # 0 => n - 1 \in 0 .. Len(list)
    BY <1>1
  <2> HIDE DEF Left
  <2> QED
    BY <1>3, <1>4, <1>5, <2>1
<1>7. Without(list, dropped) = Left(Len(list))
  <2>1. Without(list, dropped) = w[Len(list)]
    <3> HIDE DEF w
    <3> QED
      BY <1>1, <1>6, WithoutIs
  <2> QED
    BY <1>1, <2>1
<1>8. Left(Len(list)) \in Seq(S) /\ Len(Left(Len(list))) = Size(Len(list))
  BY <1>1, <1>2
<1> QED
  BY <1>1, <1>7, <1>8

\* Where in a list that is without duplicates a station is, or its end.
LEMMA PlaceOfId ==
    ASSUME NEW S, NEW list \in Seq(S), NEW s,
           \A i, j \in 1 .. Len(list) : list[i].id = list[j].id => i = j
    PROVE  \E i \in 1 .. Len(list) + 1 : \A j \in 1 .. Len(list) :
              list[j].id = s <=> j = i
<1>1. Len(list) \in Nat
  BY LenProperties
<1>2. CASE \E i \in 1 .. Len(list) : list[i].id = s
  BY <1>1, <1>2
<1>3. CASE ~ \E i \in 1 .. Len(list) : list[i].id = s
  <2>1. Len(list) + 1 \in 1 .. Len(list) + 1 /\ Len(list) + 1 \notin 1 .. Len(list)
    BY <1>1
  <2> QED
    BY <1>3, <2>1
<1> QED
  BY <1>2, <1>3

\* The same for a list of the stations themselves.
LEMMA PlaceOf ==
    ASSUME NEW S, NEW list \in Seq(S), NEW s, Distinct(list)
    PROVE  \E i \in 1 .. Len(list) + 1 : \A j \in 1 .. Len(list) : list[j] = s <=> j = i
<1>1. Len(list) \in Nat
  BY LenProperties
<1>2. CASE \E i \in 1 .. Len(list) : list[i] = s
  BY <1>1, <1>2 DEF Distinct
<1>3. CASE ~ \E i \in 1 .. Len(list) : list[i] = s
  <2>1. Len(list) + 1 \in 1 .. Len(list) + 1 /\ Len(list) + 1 \notin 1 .. Len(list)
    BY <1>1
  <2> QED
    BY <1>3, <2>1
<1> QED
  BY <1>2, <1>3

\* A station filtered from a list of stations.
LEMMA StationDropped ==
    ASSUME NEW list \in Seq(Stations), NEW s, Distinct(list)
    PROVE  /\ Without(list, {s}) \in Seq(Stations)
           /\ Distinct(Without(list, {s}))
           /\ Members(Without(list, {s})) = Members(list) \ {s}
           /\ \E i \in 1 .. Len(list) + 1 :
                 /\ \A j \in 1 .. Len(list) : list[j] = s <=> j = i
                 /\ Len(Without(list, {s})) =
                       IF i <= Len(list) THEN Len(list) - 1 ELSE Len(list)
                 /\ \A j \in 1 .. Len(Without(list, {s})) :
                       Without(list, {s})[j] = list[IF j < i THEN j ELSE j + 1]
<1> DEFINE r == Without(list, {s})
<1>1. Len(list) \in Nat
  BY LenProperties
<1>2. PICK i \in 1 .. Len(list) + 1 : \A j \in 1 .. Len(list) : list[j] = s <=> j = i
  BY PlaceOf
<1>3. \A j \in 1 .. Len(list) : list[j] \in {s} <=> j = i
  BY <1>2
<1>4. /\ r \in Seq(Stations)
      /\ Len(r) = IF i <= Len(list) THEN Len(list) - 1 ELSE Len(list)
      /\ \A j \in 1 .. Len(r) : r[j] = list[IF j < i THEN j ELSE j + 1]
  BY <1>3, OneDropped
<1> HIDE DEF r
<1> DEFINE From(j) == IF j < i THEN j ELSE j + 1
<1>5. \A j \in 1 .. Len(r) : From(j) \in 1 .. Len(list) /\ From(j) # i
  BY <1>1, <1>4
<1>6. \A j, k \in 1 .. Len(r) : From(j) = From(k) => j = k
  BY <1>1, <1>4
<1>7. \A j \in 1 .. Len(r) : r[j] = list[From(j)]
  BY <1>4
<1>8. \A k \in 1 .. Len(list) : k # i => \E j \in 1 .. Len(r) : From(j) = k
  <2> SUFFICES ASSUME NEW k \in 1 .. Len(list), k # i
               PROVE  \E j \in 1 .. Len(r) : From(j) = k
    OBVIOUS
  <2>1. CASE k < i
    <3>1. k \in 1 .. Len(r) /\ From(k) = k
      BY <1>1, <1>4, <2>1
    <3> QED
      BY <3>1
  <2>2. CASE ~(k < i)
    <3>1. k - 1 \in 1 .. Len(r) /\ From(k - 1) = k
      BY <1>1, <1>4, <2>2
    <3> QED
      BY <3>1
  <2> QED
    BY <2>1, <2>2
<1> HIDE DEF From
<1>9. Distinct(r)
  BY <1>5, <1>6, <1>7 DEF Distinct
<1>10. Members(r) = Members(list) \ {s}
  <2>1. ASSUME NEW x \in Members(r)
        PROVE  x \in Members(list) \ {s}
    BY <1>2, <1>5, <1>7 DEF Members
  <2>2. ASSUME NEW x \in Members(list) \ {s}
        PROVE  x \in Members(r)
    <3>1. PICK k \in 1 .. Len(list) : x = list[k] /\ k # i
      BY <1>2 DEF Members
    <3>2. PICK j \in 1 .. Len(r) : From(j) = k
      BY <1>8, <3>1
    <3> QED
      BY <1>7, <3>1, <3>2 DEF Members
  <2> QED
    BY <2>1, <2>2
<1> QED
  BY <1>2, <1>4, <1>9, <1>10 DEF r

\* What addToHistory makes of a list: the station comes first, the rest moves
\* up to where it was, or up to the limit.
LEMMA Added ==
    ASSUME NEW list \in Seq(Entry), NEW s \in Stations, NEW facts \in SUBSET Facts,
           \A i, j \in 1 .. Len(list) : list[i].id = list[j].id => i = j,
           NEW a \in 1 .. Len(list) + 1,
           \A j \in 1 .. Len(list) : list[j].id = s <=> j = a
    PROVE  LET new == addToHistory(list, s, facts)
               size == IF a <= Len(list) THEN Len(list) ELSE Len(list) + 1
           IN  /\ new \in Seq(Entry)
               /\ Len(new) = IF size < MAX_SIZE THEN size ELSE MAX_SIZE
               /\ new[1] = NextEntry(list, s, facts)
               /\ \A j \in 2 .. Len(new) : new[j] = list[IF j - 1 < a THEN j - 1 ELSE j]
<1> DEFINE first == NextEntry(list, s, facts)
           rest == Without(list, Previous(list, s))
           all == <<first>> \o rest
           size == IF a <= Len(list) THEN Len(list) ELSE Len(list) + 1
           n == IF size < MAX_SIZE THEN size ELSE MAX_SIZE
<1>1. Len(list) \in Nat /\ MAX_SIZE \in Nat \ {0}
  BY LenProperties, MaxSizeAssumption
<1>2. first \in Entry
  <2>1. \A e \in Previous(list, s) : e \in Entry
    BY ElementOfSeq DEF Previous, Members
  <2>2. \A e \in Previous(list, s) : e.known \in SUBSET Facts
    BY <2>1 DEF Entry
  <2>3. UNION {e.known : e \in Previous(list, s)} \subseteq Facts
    BY <2>2
  <2> HIDE DEF first
  <2>4. first = [id |-> s,
                 known |-> facts \cup UNION {e.known : e \in Previous(list, s)}]
    BY DEF first, NextEntry
  <2> QED
    BY <2>3, <2>4 DEF Entry
<1>3. \A j \in 1 .. Len(list) : list[j] \in Previous(list, s) <=> j = a
  BY DEF Previous, Members
<1>4. /\ rest \in Seq(Entry)
      /\ Len(rest) = IF a <= Len(list) THEN Len(list) - 1 ELSE Len(list)
      /\ \A j \in 1 .. Len(rest) : rest[j] = list[IF j < a THEN j ELSE j + 1]
  BY <1>3, OneDropped
<1> HIDE DEF first, rest
<1>5. <<first>> \in Seq(Entry) /\ Len(<<first>>) = 1 /\ <<first>>[1] = first
  BY <1>2
<1>6. /\ all \in Seq(Entry) /\ Len(all) = size
      /\ \A j \in 1 .. size :
            all[j] = IF j <= 1 THEN <<first>>[j] ELSE rest[j - 1]
  <2>1. Len(<<first>>) + Len(rest) = size
    BY <1>1, <1>4, <1>5
  <2> HIDE DEF size
  <2> QED
    BY <1>4, <1>5, <2>1, ConcatProperties
<1> HIDE DEF all
<1>7. /\ 1 \in Int /\ n \in Int /\ n >= 1 /\ n <= size
  BY <1>1
<1>8. addToHistory(list, s, facts) = SubSeq(all, 1, n)
  BY <1>6 DEF addToHistory, Slice, all, first, rest
<1>9. \A j \in 1 .. n : all[j] \in Entry
  BY <1>6, <1>7, ElementOfSeq
<1>10. /\ SubSeq(all, 1, n) \in Seq(Entry) /\ Len(SubSeq(all, 1, n)) = n
       /\ \A j \in 1 .. n : SubSeq(all, 1, n)[j] = all[j]
  <2> HIDE DEF n
  <2>1. /\ SubSeq(all, 1, n) \in Seq(Entry)
        /\ Len(SubSeq(all, 1, n)) = IF 1 <= n THEN n - 1 + 1 ELSE 0
        /\ \A j \in 1 .. n - 1 + 1 : SubSeq(all, 1, n)[j] = all[1 + j - 1]
    BY <1>7, <1>9, SubSeqProperties
  <2> QED
    BY <1>7, <2>1
<1>11. all[1] = first
  BY <1>5, <1>6, <1>7
<1>12. ASSUME NEW j \in 2 .. n
       PROVE  all[j] = list[IF j - 1 < a THEN j - 1 ELSE j]
  <2>1. j \in 1 .. size /\ ~(j <= 1) /\ j - 1 \in 1 .. Len(rest)
    BY <1>1, <1>4, <1>7
  <2>2. all[j] = rest[j - 1]
    BY <1>6, <2>1
  <2>3. rest[j - 1] = list[IF j - 1 < a THEN j - 1 ELSE j - 1 + 1]
    BY <1>4, <2>1
  <2>4. j - 1 + 1 = j
    BY <2>1
  <2> QED
    BY <2>2, <2>3, <2>4
<1>13. \A j \in 2 .. n : j \in 1 .. n
  OBVIOUS
<1>14. 1 \in 1 .. n
  BY <1>7
<1> HIDE DEF n
<1> QED
  BY <1>8, <1>10, <1>11, <1>12, <1>13, <1>14 DEF n, first
\* A history in which no station is twice, and that is within its limit.
IsHistory(list) ==
    /\ list \in Seq(Entry) /\ Len(list) <= MAX_SIZE
    /\ \A i, j \in 1 .. Len(list) : list[i].id = list[j].id => i = j

\* Favourites, no station twice.
IsFavourites(list) == list \in Seq(Stations) /\ Distinct(list)

\* A history that holds the latest of all openings.
IsLatest(list, all) ==
    /\ Len(list) <= Len(all)
    /\ Len(list) = Len(all) \/ Len(list) = MAX_SIZE
    /\ \A i \in 1 .. Len(list) : list[i].id = all[i]

\* An opening keeps a history well formed.
LEMMA HistoryAdded ==
    ASSUME NEW list, IsHistory(list), NEW s \in Stations, NEW facts \in SUBSET Facts
    PROVE  IsHistory(addToHistory(list, s, facts))
<1> DEFINE new == addToHistory(list, s, facts)
<1>1. Len(list) \in Nat /\ MAX_SIZE \in Nat \ {0}
  BY LenProperties, MaxSizeAssumption DEF IsHistory
<1>2. PICK a \in 1 .. Len(list) + 1 : \A j \in 1 .. Len(list) : list[j].id = s <=> j = a
  BY PlaceOfId DEF IsHistory
<1> DEFINE size == IF a <= Len(list) THEN Len(list) ELSE Len(list) + 1
           From(j) == IF j - 1 < a THEN j - 1 ELSE j
<1>3. /\ new \in Seq(Entry)
      /\ Len(new) = IF size < MAX_SIZE THEN size ELSE MAX_SIZE
      /\ new[1] = NextEntry(list, s, facts)
      /\ \A j \in 2 .. Len(new) : new[j] = list[From(j)]
  BY <1>2, Added DEF IsHistory
<1> HIDE DEF new
<1>4. Len(new) \in Nat /\ Len(new) <= MAX_SIZE /\ Len(new) <= size
  BY <1>1, <1>3
<1>5. new[1].id = s
  BY <1>3 DEF NextEntry
<1>6. \A j \in 2 .. Len(new) : From(j) \in 1 .. Len(list) /\ From(j) # a
  BY <1>1, <1>4
<1>7. \A i, j \in 2 .. Len(new) : From(i) = From(j) => i = j
  BY <1>1, <1>4
<1> HIDE DEF From
<1>8. \A j \in 2 .. Len(new) : new[j].id # s
  BY <1>2, <1>3, <1>6
<1>9. \A i, j \in 2 .. Len(new) : new[i].id = new[j].id => i = j
  BY <1>3, <1>6, <1>7, SMTT(40) DEF IsHistory
<1>10. \A j \in 1 .. Len(new) : j = 1 \/ j \in 2 .. Len(new)
  OBVIOUS
<1> QED
  BY <1>3, <1>4, <1>5, <1>8, <1>9, <1>10 DEF IsHistory, new

\* And what is latest stays so: where the station was in the history it was
\* among all openings, and what falls off the end is beyond the limit.
LEMMA LatestAdded ==
    ASSUME NEW list, IsHistory(list), NEW s \in Stations, NEW facts \in SUBSET Facts,
           NEW all \in Seq(Stations), Distinct(all), IsLatest(list, all)
    PROVE  IsLatest(addToHistory(list, s, facts), <<s>> \o Without(all, {s}))
<1> DEFINE new == addToHistory(list, s, facts)
           rest == Without(all, {s})
           next == <<s>> \o rest
<1>1. Len(list) \in Nat /\ Len(all) \in Nat /\ MAX_SIZE \in Nat \ {0}
  BY LenProperties, MaxSizeAssumption DEF IsHistory
<1>2. PICK a \in 1 .. Len(list) + 1 : \A j \in 1 .. Len(list) : list[j].id = s <=> j = a
  BY PlaceOfId DEF IsHistory
<1> DEFINE size == IF a <= Len(list) THEN Len(list) ELSE Len(list) + 1
<1>3. /\ Len(new) = IF size < MAX_SIZE THEN size ELSE MAX_SIZE
      /\ new[1] = NextEntry(list, s, facts)
      /\ \A j \in 2 .. Len(new) : new[j] = list[IF j - 1 < a THEN j - 1 ELSE j]
  BY <1>2, Added DEF IsHistory
<1> HIDE DEF new
<1>4. rest \in Seq(Stations)
  BY StationDropped
<1>5. PICK b \in 1 .. Len(all) + 1 :
          /\ \A j \in 1 .. Len(all) : all[j] = s <=> j = b
          /\ Len(rest) = IF b <= Len(all) THEN Len(all) - 1 ELSE Len(all)
          /\ \A j \in 1 .. Len(rest) : rest[j] = all[IF j < b THEN j ELSE j + 1]
  BY StationDropped
<1> HIDE DEF rest
<1>6. /\ Len(next) = Len(rest) + 1
      /\ \A j \in 1 .. Len(rest) + 1 : next[j] = IF j <= 1 THEN s ELSE rest[j - 1]
  <2>1. <<s>> \in Seq(Stations) /\ Len(<<s>>) = 1 /\ <<s>>[1] = s
    OBVIOUS
  <2>2. Len(rest) \in Nat
    BY <1>4, LenProperties
  <2>3. /\ Len(next) = 1 + Len(rest)
        /\ \A j \in 1 .. 1 + Len(rest) : next[j] = IF j <= 1 THEN <<s>>[j] ELSE rest[j - 1]
    BY <1>4, <2>1, ConcatProperties
  <2> QED
    BY <2>1, <2>2, <2>3
<1> HIDE DEF next
<1>7. /\ Len(list) <= Len(all) /\ Len(list) <= MAX_SIZE
      /\ Len(list) = Len(all) \/ Len(list) = MAX_SIZE
      /\ \A j \in 1 .. Len(list) : list[j].id = all[j]
  BY DEF IsLatest, IsHistory
\* Where the station is in the list, it is at the same place in all; where it
\* is not, it is further down in all or nowhere.
<1>8. (a <= Len(list) /\ b = a) \/ (a = Len(list) + 1 /\ b > Len(list))
  <2>1. CASE a <= Len(list)
    <3>1. a \in 1 .. Len(list) /\ a \in 1 .. Len(all)
      BY <1>1, <1>7, <2>1
    <3>2. all[a] = s
      BY <1>2, <1>7, <3>1
    <3> QED
      BY <1>5, <2>1, <3>1, <3>2
  <2>2. CASE ~(a <= Len(list))
    <3>1. a = Len(list) + 1
      BY <1>1, <2>2
    <3>2. ASSUME b <= Len(list)
          PROVE  FALSE
      <4>1. b \in 1 .. Len(list) /\ b \in 1 .. Len(all)
        BY <1>1, <1>7, <3>2
      <4>2. list[b].id = s
        BY <1>5, <1>7, <4>1
      <4> QED
        BY <1>2, <3>1, <4>1, <4>2, <1>1
    <3> QED
      BY <1>1, <3>1, <3>2
  <2> QED
    BY <2>1, <2>2
<1>9. /\ Len(new) <= Len(next)
      /\ Len(new) = Len(next) \/ Len(new) = MAX_SIZE
      /\ Len(new) \in Nat
  <2>1. CASE a <= Len(list) /\ b = a
    BY <1>1, <1>3, <1>5, <1>6, <1>7, <2>1
  <2>2. CASE a = Len(list) + 1 /\ b > Len(list)
    BY <1>1, <1>3, <1>5, <1>6, <1>7, <2>2
  <2> QED
    BY <1>8, <2>1, <2>2
<1>10. ASSUME NEW j \in 1 .. Len(new)
       PROVE  new[j].id = next[j]
  <2>1. CASE j = 1
    BY <1>3, <1>6, <1>9, <2>1 DEF NextEntry
  <2>2. CASE j # 1
    <3> DEFINE i == IF j - 1 < a THEN j - 1 ELSE j
    <3>1. j \in 2 .. Len(new) /\ j - 1 \in 1 .. Len(rest) /\ i \in 1 .. Len(list)
      BY <1>1, <1>3, <1>5, <1>6, <1>7, <1>8, <1>9, <2>2
    <3>2. (IF j - 1 < b THEN j - 1 ELSE j - 1 + 1) = i
      BY <1>1, <1>8, <3>1
    <3>3. new[j] = list[i] /\ next[j] = rest[j - 1]
      BY <1>3, <1>6, <3>1, SMTT(40)
    <3>4. rest[j - 1] = all[i]
      BY <1>5, <3>1, <3>2
    <3> QED
      BY <1>7, <3>1, <3>3, <3>4
  <2> QED
    BY <2>1, <2>2
<1> QED
  BY <1>9, <1>10 DEF IsLatest, new, next, rest

\* An opening comes first among the openings, and is there once.
LEMMA FirstAgain ==
    ASSUME NEW all, IsFavourites(all), NEW s \in Stations
    PROVE  IsFavourites(<<s>> \o Without(all, {s}))
<1> DEFINE rest == Without(all, {s})
           next == <<s>> \o rest
<1>1. /\ rest \in Seq(Stations) /\ Distinct(rest) /\ Members(rest) = Members(all) \ {s}
  BY StationDropped DEF IsFavourites
<1> HIDE DEF rest
<1>2. Len(rest) \in Nat
  BY <1>1, LenProperties
<1>3. /\ next \in Seq(Stations) /\ Len(next) = Len(rest) + 1
      /\ \A j \in 1 .. Len(rest) + 1 : next[j] = IF j <= 1 THEN s ELSE rest[j - 1]
  <2>1. <<s>> \in Seq(Stations) /\ Len(<<s>>) = 1 /\ <<s>>[1] = s
    OBVIOUS
  <2>2. /\ next \in Seq(Stations) /\ Len(next) = 1 + Len(rest)
        /\ \A j \in 1 .. 1 + Len(rest) : next[j] = IF j <= 1 THEN <<s>>[j] ELSE rest[j - 1]
    BY <1>1, <2>1, ConcatProperties
  <2> QED
    BY <1>2, <2>1, <2>2
<1> HIDE DEF next
<1>4. \A j \in 1 .. Len(next) : j # 1 => j - 1 \in 1 .. Len(rest) /\ next[j] = rest[j - 1]
  BY <1>2, <1>3
<1>5. \A j \in 1 .. Len(rest) : rest[j] # s
  BY <1>1 DEF Members
<1>6. next[1] = s
  BY <1>2, <1>3
<1>7. ASSUME NEW i \in 1 .. Len(next), NEW j \in 1 .. Len(next), next[i] = next[j]
      PROVE  i = j
  <2>1. CASE i = 1 \/ j = 1
    BY <1>4, <1>5, <1>6, <1>7, <2>1
  <2>2. CASE i # 1 /\ j # 1
    <3>1. i - 1 = j - 1
      BY <1>1, <1>4, <1>7, <2>2 DEF Distinct
    <3> QED
      BY <3>1
  <2> QED
    BY <2>1, <2>2
<1>8. IsFavourites(next)
  BY <1>3, <1>7 DEF IsFavourites, Distinct
<1> QED
  BY <1>8 DEF next, rest

\* What was known of a station is still known where the history holds it.
LEMMA KnowledgeAdded ==
    ASSUME NEW list, IsHistory(list), NEW s \in Stations, NEW facts \in SUBSET Facts,
           NEW i \in 1 .. Len(list), NEW j \in 1 .. Len(addToHistory(list, s, facts)),
           list[i].id = addToHistory(list, s, facts)[j].id
    PROVE  list[i].known \subseteq addToHistory(list, s, facts)[j].known
<1> DEFINE new == addToHistory(list, s, facts)
<1>1. Len(list) \in Nat /\ MAX_SIZE \in Nat \ {0}
  BY LenProperties, MaxSizeAssumption DEF IsHistory
<1>2. PICK a \in 1 .. Len(list) + 1 : \A m \in 1 .. Len(list) : list[m].id = s <=> m = a
  <2>1. /\ list \in Seq(Entry)
        /\ \A m, n \in 1 .. Len(list) : list[m].id = list[n].id => m = n
    BY DEF IsHistory
  <2> QED
    BY <2>1, PlaceOfId, SMTT(40)
<1> DEFINE size == IF a <= Len(list) THEN Len(list) ELSE Len(list) + 1
           From(m) == IF m - 1 < a THEN m - 1 ELSE m
<1>3. /\ Len(new) = IF size < MAX_SIZE THEN size ELSE MAX_SIZE
      /\ new[1] = NextEntry(list, s, facts)
      /\ \A m \in 2 .. Len(new) : new[m] = list[From(m)]
  BY <1>2, Added, SMTT(40) DEF IsHistory
<1> HIDE DEF new
<1>4. j \in 1 .. Len(new) /\ list[i].id = new[j].id
  BY DEF new
<1>5. CASE j = 1
  <2>1. list[i] \in Previous(list, s)
    BY <1>3, <1>4, <1>5 DEF NextEntry, Previous, Members
  <2>2. new[1].known = facts \cup UNION {e.known : e \in Previous(list, s)}
    BY <1>3 DEF NextEntry
  <2> QED
    BY <1>5, <2>1, <2>2 DEF new
<1>6. CASE j # 1
  <2>1. j \in 2 .. Len(new) /\ From(j) \in 1 .. Len(list)
    BY <1>1, <1>3, <1>4, <1>6
  <2> HIDE DEF From
  <2>2. new[j] = list[From(j)]
    BY <1>3, <2>1
  <2>3. i = From(j)
    BY <1>4, <2>1, <2>2 DEF IsHistory
  <2> QED
    BY <2>2, <2>3 DEF new
<1> QED
  BY <1>5, <1>6

\* A click on the heart adds the station to the favourites or takes it away.
LEMMA Toggled ==
    ASSUME NEW u, IsFavourites(u.favorites), NEW s \in Stations
    PROVE  /\ IsFavourites(toggleFavorite(u, s))
           /\ Members(toggleFavorite(u, s)) =
                 IF s \in Members(u.favorites) THEN Members(u.favorites) \ {s}
                 ELSE Members(u.favorites) \cup {s}
<1> DEFINE f == u.favorites
<1>1. f \in Seq(Stations) /\ Distinct(f) /\ Len(f) \in Nat
  BY LenProperties DEF IsFavourites
<1>2. CASE s \in Members(f)
  <2>1. toggleFavorite(u, s) = Without(f, {s})
    BY <1>2 DEF toggleFavorite, isFavorite
  <2>2. /\ Without(f, {s}) \in Seq(Stations) /\ Distinct(Without(f, {s}))
        /\ Members(Without(f, {s})) = Members(f) \ {s}
    BY <1>1, StationDropped
  <2> QED
    BY <1>2, <2>1, <2>2 DEF IsFavourites
<1>3. CASE s \notin Members(f)
  <2> DEFINE g == Append(f, s)
  <2>1. toggleFavorite(u, s) = g
    BY <1>3 DEF toggleFavorite, isFavorite
  <2> HIDE DEF f
  <2>2. /\ g \in Seq(Stations) /\ Len(g) = Len(f) + 1
        /\ \A i \in 1 .. Len(f) : g[i] = f[i]
        /\ g[Len(f) + 1] = s
    BY <1>1, AppendProperties
  <2> HIDE DEF g
  <2>3. \A i \in 1 .. Len(g) : i \in 1 .. Len(f) \/ i = Len(f) + 1
    BY <1>1, <2>2
  <2>4. \A i \in 1 .. Len(f) : f[i] # s
    BY <1>3 DEF Members
  <2>5. Distinct(g)
    BY <1>1, <2>2, <2>3, <2>4 DEF Distinct
  <2>6. Members(g) = Members(f) \cup {s}
    <3>1. Len(f) + 1 \in 1 .. Len(g) /\ \A i \in 1 .. Len(f) : i \in 1 .. Len(g)
      BY <1>1, <2>2
    <3>2. ASSUME NEW x \in Members(g)
          PROVE  x \in Members(f) \cup {s}
      BY <2>2, <2>3 DEF Members
    <3>3. ASSUME NEW x \in Members(f) \cup {s}
          PROVE  x \in Members(g)
      BY <2>2, <3>1 DEF Members
    <3> QED
      BY <3>2, <3>3
  <2> QED
    BY <1>3, <2>1, <2>2, <2>5, <2>6 DEF IsFavourites, f
<1> QED
  BY <1>2, <1>3
-----------------------------------------------------------------------------
\* The types, with what they need to be kept: a panel that draws a station has
\* one, and a tab that is not open shows, awaits and owes nothing.

TabStates ==
    [open : BOOLEAN, history : Seq(Entry), favorites : Seq(Stations),
     waiting : Stations \cup {NoStation}, shown : Stations \cup {NoStation},
     drawn : BOOLEAN, heart : BOOLEAN, unsaved : SUBSET Keys]

Good(u) ==
    /\ u \in TabStates
    /\ IsHistory(u.history) /\ IsFavourites(u.favorites)
    /\ u.drawn = TRUE => u.shown \in Stations
    /\ u.open = FALSE => /\ u.drawn = FALSE /\ u.unsaved = {}
                         /\ u.waiting = NoStation /\ u.shown = NoStation

Stored(lists) ==
    /\ lists = [history |-> lists.history, favorites |-> lists.favorites]
    /\ IsHistory(lists.history) /\ IsFavourites(lists.favorites)

Types ==
    /\ tab \in [Tabs -> TabStates] /\ \A t \in Tabs : Good(tab[t])
    /\ Stored(store)
    /\ IsFavourites(opened)
    /\ marked \subseteq Stations
    /\ stale \in [Keys -> SUBSET Tabs]
    /\ lost \subseteq Keys
    /\ writes \in 0 .. MaxWrites

\* They are more than the types of the module.
LEMMA TypesSuffice == Types => TypeOK
<1> SUFFICES ASSUME Types PROVE TypeOK
  OBVIOUS
<1>1. WellFormed(store)
  BY DEF Types, Stored, IsHistory, IsFavourites, WellFormed
<1>2. ASSUME NEW t \in Tabs
      PROVE  /\ WellFormed(tab[t])
             /\ tab[t].open \in BOOLEAN
             /\ tab[t].waiting \in Stations \cup {NoStation}
             /\ tab[t].shown \in Stations \cup {NoStation}
             /\ tab[t].drawn \in BOOLEAN /\ tab[t].heart \in BOOLEAN
             /\ tab[t].unsaved \subseteq Keys
  <2>1. Good(tab[t])
    BY DEF Types
  <2>2. WellFormed(tab[t])
    BY <2>1 DEF Good, IsHistory, IsFavourites, WellFormed
  <2> QED
    BY <2>1, <2>2 DEF Good, TabStates
<1> QED
  BY <1>1, <1>2 DEF Types, IsFavourites, TypeOK

\* A tab that loads lists, and one that is closed.
LEMMA LoadedIsGood ==
    ASSUME NEW lists, Stored(lists)
    PROVE  Good(Loaded(lists)) /\ Good([Loaded(lists) EXCEPT !.open = FALSE])
  BY DEF Stored, IsHistory, IsFavourites, Loaded, Good, TabStates

\* Empty lists.
LEMMA NothingStored ==
    /\ Stored([history |-> <<>>, favorites |-> <<>>])
    /\ IsFavourites(<<>>)
  BY MaxSizeAssumption DEF Stored, IsHistory, IsFavourites, Distinct

\* An event in one tab that writes nothing.
LEMMA QuietTypes ==
    ASSUME Types, NEW t \in Tabs, NEW u, Good(u), tab' = [tab EXCEPT ![t] = u],
           store' = store, opened' = opened, marked' = marked, writes' = writes,
           stale' \in [Keys -> SUBSET Tabs], lost' \subseteq Keys
    PROVE  Types'
<1>1. tab' \in [Tabs -> TabStates] /\ \A o \in Tabs : Good(tab'[o])
  BY DEF Types, Good
<1> QED
  BY <1>1 DEF Types

\* What setItem leaves behind in the tab.
Marked(u, k, accepted) ==
    [u EXCEPT !.unsaved = IF accepted THEN u.unsaved \ {k} ELSE u.unsaved \cup {k}]

\* A write, of a well-formed list of an open tab.
LEMMA WriteTypes ==
    ASSUME Types, NEW t \in Tabs, NEW k, k = "history" \/ k = "favorites", NEW u, Good(u),
           u.open = TRUE, NEW accepted \in BOOLEAN, setItem(t, k, u, accepted),
           IsFavourites(opened'), marked' \subseteq Stations
    PROVE  Types'
<1>0. k \in Keys
  BY DEF Keys
<1>1. tab' = [tab EXCEPT ![t] = Marked(u, k, accepted)]
  BY DEF setItem, Marked
<1>2. Good(Marked(u, k, accepted))
  <2>1. /\ Marked(u, k, accepted) \in TabStates
        /\ Marked(u, k, accepted).open = u.open
        /\ Marked(u, k, accepted).history = u.history
        /\ Marked(u, k, accepted).favorites = u.favorites
        /\ Marked(u, k, accepted).drawn = u.drawn
        /\ Marked(u, k, accepted).shown = u.shown
    BY <1>0 DEF Good, TabStates, Marked
  <2> QED
    BY <2>1 DEF Good
<1>3. tab' \in [Tabs -> TabStates] /\ \A o \in Tabs : Good(tab'[o])
  BY <1>1, <1>2 DEF Types, Good
<1>4. Stored(store')
  <2>1. CASE ~accepted
    BY <2>1 DEF setItem, Types
  <2>2. CASE accepted /\ k = "history"
    <3>1. store' = [store EXCEPT !["history"] = u["history"]]
      BY <2>2 DEF setItem
    <3>2. store' = [history |-> u.history, favorites |-> store.favorites]
      BY <3>1 DEF Types, Stored
    <3> QED
      BY <3>2 DEF Types, Stored, Good
  <2>3. CASE accepted /\ k = "favorites"
    <3>1. store' = [store EXCEPT !["favorites"] = u["favorites"]]
      BY <2>3 DEF setItem
    <3>2. store' = [history |-> store.history, favorites |-> u.favorites]
      BY <3>1 DEF Types, Stored
    <3> QED
      BY <3>2 DEF Types, Stored, Good
  <2> QED
    BY <2>1, <2>2, <2>3
<1>5. /\ stale' \in [Keys -> SUBSET Tabs] /\ lost' \subseteq Keys
      /\ writes' \in 0 .. MaxWrites
  <2>1. CASE ~accepted
    BY <2>1, MaxWritesAssumption DEF setItem, Types
  <2>2. CASE accepted
    <3>1. {other \in Tabs \ {t} : tab[other].open} \in SUBSET Tabs
      OBVIOUS
    <3> DEFINE others == {other \in Tabs \ {t} : tab[other].open}
    <3>2. stale' = [stale EXCEPT ![k] = others]
      BY <2>2 DEF setItem
    <3> HIDE DEF others
    <3>3. stale' \in [Keys -> SUBSET Tabs]
      BY <1>0, <3>1, <3>2 DEF Types, others
    <3>4. writes' \in 0 .. MaxWrites
      BY MaxWritesAssumption DEF setItem, Types
    <3>5. lost' \subseteq Keys
      BY <1>0, <2>2 DEF setItem, Types
    <3> QED
      BY <3>3, <3>4, <3>5
  <2> QED
    BY <2>1, <2>2
<1> QED
  BY <1>3, <1>4, <1>5 DEF Types

\* What an opening and a click leave of the tab, but for the mark.
Opened(u, s, facts, accepted) ==
    LET v == [u EXCEPT !.history = addToHistory(u.history, s, facts)]
    IN  IF accepted THEN [v EXCEPT !.waiting = s]
        ELSE [v EXCEPT !.drawn = FALSE, !.heart = FALSE]

Clicked(u, s, accepted) ==
    LET v == [u EXCEPT !.favorites = toggleFavorite(u, s)]
    IN  IF accepted THEN [v EXCEPT !.heart = isFavorite(v, s)] ELSE v

\* An opening changes one list only, and the drawing.
LEMMA OpenedIs ==
    ASSUME NEW u, Good(u), u.open = TRUE, NEW s \in Stations, NEW facts \in SUBSET Facts,
           NEW accepted \in BOOLEAN
    PROVE  /\ Good(Opened(u, s, facts, accepted))
           /\ Opened(u, s, facts, accepted).history = addToHistory(u.history, s, facts)
           /\ Opened(u, s, facts, accepted).favorites = u.favorites
           /\ Opened(u, s, facts, accepted).unsaved = u.unsaved
           /\ Opened(u, s, facts, accepted).open = u.open
<1> DEFINE h == addToHistory(u.history, s, facts)
<1>1. IsHistory(h) /\ h \in Seq(Entry)
  BY HistoryAdded DEF Good, IsHistory
<1> HIDE DEF h
<1>2. CASE accepted
  <2>1. Opened(u, s, facts, accepted) = [[u EXCEPT !.history = h] EXCEPT !.waiting = s]
    BY <1>2 DEF Opened, h
  <2>2. u \in TabStates
    BY DEF Good
  <2> DEFINE w == [[u EXCEPT !.history = h] EXCEPT !.waiting = s]
  <2>3. /\ w \in TabStates /\ w.history = h /\ w.favorites = u.favorites
        /\ w.unsaved = u.unsaved /\ w.open = u.open /\ w.drawn = u.drawn
        /\ w.shown = u.shown
    BY <1>1, <2>2 DEF TabStates
  <2> HIDE DEF w
  <2>4. Good(w)
    BY <1>1, <2>3 DEF Good
  <2> QED
    BY <2>1, <2>3, <2>4 DEF w, h
<1>3. CASE ~accepted
  <2>1. Opened(u, s, facts, accepted)
           = [[u EXCEPT !.history = h] EXCEPT !.drawn = FALSE, !.heart = FALSE]
    BY <1>3 DEF Opened, h
  <2>2. u \in TabStates
    BY DEF Good
  <2> DEFINE w == [[u EXCEPT !.history = h] EXCEPT !.drawn = FALSE, !.heart = FALSE]
  <2>3. /\ w \in TabStates /\ w.history = h /\ w.favorites = u.favorites
        /\ w.unsaved = u.unsaved /\ w.open = u.open /\ w.drawn = FALSE
    BY <1>1, <2>2 DEF TabStates
  <2> HIDE DEF w
  <2>4. Good(w)
    BY <1>1, <2>3 DEF Good
  <2> QED
    BY <2>1, <2>3, <2>4 DEF w, h
<1> QED
  BY <1>2, <1>3

\* So does a click.
LEMMA ClickedIs ==
    ASSUME NEW u, Good(u), NEW s \in Stations, NEW accepted \in BOOLEAN
    PROVE  /\ Good(Clicked(u, s, accepted))
           /\ Clicked(u, s, accepted).favorites = toggleFavorite(u, s)
           /\ Clicked(u, s, accepted).history = u.history
           /\ Clicked(u, s, accepted).unsaved = u.unsaved
           /\ Clicked(u, s, accepted).open = u.open
<1> DEFINE g == toggleFavorite(u, s)
           v == [u EXCEPT !.favorites = g]
           b == isFavorite(v, s)
<1>1. IsFavourites(g) /\ g \in Seq(Stations)
  BY Toggled DEF Good, IsFavourites
<1>2. u \in TabStates
  BY DEF Good
<1>3. b \in BOOLEAN
  BY DEF isFavorite
<1>4. Clicked(u, s, accepted) = IF accepted THEN [v EXCEPT !.heart = b] ELSE v
  BY DEF Clicked
<1> HIDE DEF g, b
<1>5. /\ v \in TabStates /\ v.favorites = g /\ v.history = u.history
      /\ v.unsaved = u.unsaved /\ v.open = u.open /\ v.drawn = u.drawn
      /\ v.shown = u.shown /\ v.waiting = u.waiting
  BY <1>1, <1>2 DEF TabStates
<1> HIDE DEF v
<1> DEFINE w == IF accepted THEN [v EXCEPT !.heart = b] ELSE v
<1>6. /\ w \in TabStates /\ w.favorites = g /\ w.history = u.history
      /\ w.unsaved = u.unsaved /\ w.open = u.open /\ w.drawn = u.drawn
      /\ w.shown = u.shown /\ w.waiting = u.waiting
  BY <1>3, <1>5 DEF TabStates
<1> HIDE DEF w
<1>7. Good(w)
  BY <1>1, <1>6 DEF Good
<1> QED
  BY <1>4, <1>6, <1>7 DEF w, g
\* Every event keeps the types.
LEMMA NextTypes == Types /\ [Next]_vars => Types'
<1> SUFFICES ASSUME Types, [Next]_vars
             PROVE  Types'
  OBVIOUS
<1>0. \A t \in Tabs : Good(tab[t]) /\ tab[t] \in TabStates
  BY DEF Types
<1>1. ASSUME NEW t \in Tabs, Load(t)
      PROVE  Types'
  <2>1. Good(Loaded(store))
    BY LoadedIsGood DEF Types
  <2> QED
    BY <1>1, <2>1, QuietTypes DEF Load, Types
<1>2. ASSUME NEW t \in Tabs, Unload(t)
      PROVE  Types'
  <2> DEFINE none == [history |-> <<>>, favorites |-> <<>>]
  <2>1. Good([Loaded(none) EXCEPT !.open = FALSE])
    BY NothingStored, LoadedIsGood
  <2>2. tab' = [tab EXCEPT ![t] = [Loaded(none) EXCEPT !.open = FALSE]]
    BY <1>2 DEF Unload
  <2> HIDE DEF none
  <2>3. stale' \in [Keys -> SUBSET Tabs]
    BY <1>2 DEF Unload, Types
  <2>4. lost' \subseteq Keys
    <3>1. tab[t].unsaved \in SUBSET Keys
      BY <1>0 DEF TabStates
    <3> QED
      BY <1>2, <3>1 DEF Unload, Types
  <2> QED
    BY <1>2, <2>1, <2>2, <2>3, <2>4, QuietTypes DEF Unload
<1>3. ASSUME NEW t \in Tabs, ClosePanel(t)
      PROVE  Types'
  <2> DEFINE u == [tab[t] EXCEPT !.shown = NoStation, !.drawn = FALSE, !.heart = FALSE]
  <2>1. Good(u)
    BY <1>0 DEF Good, TabStates
  <2>2. tab' = [tab EXCEPT ![t] = u]
    BY <1>3 DEF ClosePanel, Types
  <2> HIDE DEF u
  <2> QED
    BY <1>3, <2>1, <2>2, QuietTypes DEF ClosePanel, Types
<1>4. ASSUME NEW t \in Tabs, PanelWithoutStation(t)
      PROVE  Types'
  <2> DEFINE u == [tab[t] EXCEPT !.drawn = FALSE, !.heart = FALSE]
  <2>1. Good(u)
    BY <1>0 DEF Good, TabStates
  <2>2. tab' = [tab EXCEPT ![t] = u]
    BY <1>4 DEF PanelWithoutStation, Types
  <2> HIDE DEF u
  <2> QED
    BY <1>4, <2>1, <2>2, QuietTypes DEF PanelWithoutStation, Types
<1>5. ASSUME NEW t \in Tabs, Render(t)
      PROVE  Types'
  <2> DEFINE b == isFavorite(tab[t], tab[t].waiting)
             u == [tab[t] EXCEPT !.waiting = NoStation, !.shown = tab[t].waiting,
                                 !.drawn = TRUE, !.heart = b]
  <2>1. b \in BOOLEAN
    BY DEF isFavorite
  <2>2. tab' = [tab EXCEPT ![t] = u]
    BY <1>5 DEF Render
  <2>3. tab[t].waiting \in Stations
    BY <1>0, <1>5 DEF Render, TabStates
  <2> HIDE DEF b
  <2>4. /\ u \in TabStates /\ u.history = tab[t].history /\ u.favorites = tab[t].favorites
        /\ u.shown = tab[t].waiting /\ u.open = tab[t].open
    BY <1>0, <2>1, <2>3 DEF TabStates
  <2>5. u.open = TRUE
    BY <1>0, <2>3, <2>4, NoStationAssumption DEF Good, TabStates
  <2> HIDE DEF u
  <2>6. Good(u)
    BY <1>0, <2>3, <2>4, <2>5 DEF Good
  <2> QED
    BY <1>5, <2>2, <2>6, QuietTypes DEF Render, Types
<1>6. ASSUME NEW t \in Tabs, Redraw(t)
      PROVE  Types'
  <2> DEFINE b == isFavorite(tab[t], tab[t].shown)
             u == [tab[t] EXCEPT !.drawn = TRUE, !.heart = b]
  <2>1. b \in BOOLEAN
    BY DEF isFavorite
  <2>2. tab' = [tab EXCEPT ![t] = u]
    BY <1>6 DEF Redraw
  <2>3. tab[t].shown \in Stations
    BY <1>0, <1>6 DEF Redraw, TabStates
  <2> HIDE DEF b
  <2>4. /\ u \in TabStates /\ u.history = tab[t].history /\ u.favorites = tab[t].favorites
        /\ u.shown = tab[t].shown /\ u.open = tab[t].open
    BY <1>0, <2>1, <2>3 DEF TabStates
  <2>5. u.open = TRUE
    BY <1>0, <2>3, <2>4, NoStationAssumption DEF Good, TabStates
  <2> HIDE DEF u
  <2>6. Good(u)
    BY <1>0, <2>3, <2>4, <2>5 DEF Good
  <2> QED
    BY <1>6, <2>2, <2>6, QuietTypes DEF Redraw, Types
<1>7. ASSUME NEW t \in Tabs, NEW s \in Stations, NEW facts \in SUBSET Facts,
             NEW accepted \in BOOLEAN, DetailsArrive(t, s, facts, accepted)
      PROVE  Types'
  <2> DEFINE u == Opened(tab[t], s, facts, accepted)
  <2>1. Good(u) /\ u.open = TRUE
    BY <1>0, <1>7, OpenedIs DEF DetailsArrive, TabStates
  <2>2. setItem(t, "history", u, accepted)
    BY <1>7 DEF DetailsArrive, Opened
  <2>3. marked' = marked
    BY <1>7 DEF DetailsArrive
  <2>4. IsFavourites(opened')
    <3>1. opened' = <<s>> \o Without(opened, {s})
      BY <1>7 DEF DetailsArrive
    <3> QED
      BY <3>1, FirstAgain DEF Types
  <2> HIDE DEF u
  <2> QED
    BY <2>1, <2>2, <2>3, <2>4, WriteTypes DEF Types
<1>8. ASSUME NEW t \in Tabs, NEW accepted \in BOOLEAN, ClickFavorite(t, accepted)
      PROVE  Types'
  <2> DEFINE s == tab[t].shown
             u == Clicked(tab[t], s, accepted)
  <2>1. s \in Stations
    BY <1>0, <1>8 DEF ClickFavorite, Good, TabStates
  <2>2. Good(u) /\ u.open = TRUE
    <3>1. tab[t].open = TRUE
      BY <1>0, <1>8 DEF ClickFavorite, Good, TabStates
    <3> QED
      BY <1>0, <2>1, <3>1, ClickedIs
  <2>3. setItem(t, "favorites", u, accepted)
    BY <1>8 DEF ClickFavorite, Clicked
  <2>4. opened' = opened /\ marked' \subseteq Stations
    BY <1>8, <2>1 DEF ClickFavorite, Types
  <2> HIDE DEF s, u
  <2> QED
    BY <2>2, <2>3, <2>4, WriteTypes DEF Types
<1>9. CASE UNCHANGED vars
  BY <1>9 DEF vars, Types
<1> QED
  BY <1>1, <1>2, <1>3, <1>4, <1>5, <1>6, <1>7, <1>8, <1>9 DEF Next
-----------------------------------------------------------------------------
\* Nothing is lost.

\* The list a key stands for, in a tab or in the storage.
Copy(lists, k) == IF k = "history" THEN lists.history ELSE lists.favorites

\* A list holds all that has happened.
UpToDate(k, list, all, mk) ==
    IF k = "history" THEN IsLatest(list, all) ELSE mk = Members(list)

\* Nobody has written key k since tab t read or wrote it.
Fresh(t, k) == tab[t].open = TRUE /\ t \notin stale[k]

OthersSaved(t, k) == \A o \in Tabs \ {t} : k \notin tab[o].unsaved

\* A fresh tab without a refused write holds what is stored.  Where no update is
\* lost for good, what is stored is up to date once every tab has saved, and the
\* copy of a fresh tab is once all others have: its next write makes good what
\* was refused.
InStep(k) ==
    /\ \A t \in Tabs :
          (Fresh(t, k) /\ k \notin tab[t].unsaved) => Copy(tab[t], k) = Copy(store, k)
    /\ (k \notin lost /\ \A t \in Tabs : k \notin tab[t].unsaved)
          => UpToDate(k, Copy(store, k), opened, marked)
    /\ \A t \in Tabs :
          (k \notin lost /\ Fresh(t, k) /\ OthersSaved(t, k))
             => UpToDate(k, Copy(tab[t], k), opened, marked)

IInv == Types /\ InStep("history") /\ InStep("favorites")

\* What the tabs have to do with key k is as before.
SameFor(k) ==
    /\ Copy(store', k) = Copy(store, k) /\ stale'[k] = stale[k]
    /\ k \in lost' <=> k \in lost
    /\ \A l : UpToDate(k, l, opened, marked) => UpToDate(k, l, opened', marked')
    /\ \A o \in Tabs : /\ Copy(tab'[o], k) = Copy(tab[o], k)
                       /\ tab'[o].open = tab[o].open
                       /\ k \in tab'[o].unsaved <=> k \in tab[o].unsaved

\* Then the tabs stay in step.
LEMMA SameInStep ==
    ASSUME NEW k, InStep(k), SameFor(k)
    PROVE  InStep(k)'
  BY DEF InStep, SameFor, Fresh, OthersSaved

\* A write to key k, of an open tab whose copy goes on to be up to date.
LEMMA WriteInStep ==
    ASSUME Types, NEW k \in Keys, InStep(k), NEW t \in Tabs, tab[t].open = TRUE,
           NEW u, u \in TabStates, u.open = TRUE,
           NEW accepted \in BOOLEAN, setItem(t, k, u, accepted),
           UpToDate(k, Copy(tab[t], k), opened, marked)
              => UpToDate(k, Copy(u, k), opened', marked')
    PROVE  InStep(k)'
<1> DEFINE v == Marked(u, k, accepted)
<1>1. tab' = [tab EXCEPT ![t] = v]
  BY DEF setItem, Marked
<1>2. /\ v.open = TRUE /\ Copy(v, k) = Copy(u, k)
      /\ accepted => k \notin v.unsaved
      /\ ~accepted => k \in v.unsaved
  BY DEF Marked, TabStates, Copy
<1> HIDE DEF v
<1>3. tab'[t] = v /\ \A o \in Tabs \ {t} : tab'[o] = tab[o]
  BY <1>1 DEF Types
<1>4. CASE ~accepted
  <2>1. store' = store /\ stale' = stale /\ lost' = lost
    BY <1>4 DEF setItem
  <2>2. \A o \in Tabs : (Fresh(o, k)' /\ k \notin tab'[o].unsaved)
                            => Copy(tab'[o], k) = Copy(store', k)
    BY <1>2, <1>3, <1>4, <2>1 DEF InStep, Fresh
  <2>3. ~ \A o \in Tabs : k \notin tab'[o].unsaved
    BY <1>2, <1>3, <1>4
  <2>4. ASSUME NEW o \in Tabs, k \notin lost', Fresh(o, k)', OthersSaved(o, k)'
        PROVE  UpToDate(k, Copy(tab'[o], k), opened', marked')
    <3>1. o = t
      BY <1>2, <1>3, <1>4, <2>4 DEF OthersSaved
    <3>2. Fresh(t, k) /\ OthersSaved(t, k)
      BY <1>3, <2>1, <2>4, <3>1 DEF Fresh, OthersSaved
    <3>3. UpToDate(k, Copy(tab[t], k), opened, marked)
      BY <2>1, <2>4, <3>2 DEF InStep
    <3> QED
      BY <1>2, <1>3, <3>1, <3>3
  <2> QED
    BY <2>2, <2>3, <2>4 DEF InStep
<1>5. CASE accepted
  <2> DEFINE others == {other \in Tabs \ {t} : tab[other].open}
  <2>1. /\ store' = [store EXCEPT ![k] = u[k]]
        /\ stale' = [stale EXCEPT ![k] = others]
        /\ lost' = IF t \in stale[k] THEN lost \cup {k} ELSE lost
    BY <1>5 DEF setItem
  <2>2. stale'[k] = others
    <3> HIDE DEF others
    <3> QED
      BY <2>1 DEF Types
  <2>3. ASSUME NEW o \in Tabs, Fresh(o, k)'
        PROVE  o = t
    BY <1>3, <2>2, <2>3 DEF Fresh
  <2> HIDE DEF others
  <2>4. Copy(store', k) = Copy(u, k)
    <3>1. CASE k = "history"
      BY <2>1, <3>1 DEF Copy, Types, Stored
    <3>2. CASE k = "favorites"
      BY <2>1, <3>2 DEF Copy, Types, Stored
    <3> QED
      BY <3>1, <3>2 DEF Keys
  <2>5. ASSUME k \notin lost', OthersSaved(t, k)'
        PROVE  UpToDate(k, Copy(u, k), opened', marked')
    <3>1. k \notin lost /\ t \notin stale[k]
      BY <2>1, <2>5
    <3>2. Fresh(t, k) /\ OthersSaved(t, k)
      BY <1>3, <2>5, <3>1 DEF Fresh, OthersSaved
    <3> QED
      BY <3>1, <3>2 DEF InStep
  <2>6. \A o \in Tabs : Fresh(o, k)' => Copy(tab'[o], k) = Copy(store', k)
    BY <1>2, <1>3, <2>3, <2>4
  <2>7. (k \notin lost' /\ \A o \in Tabs : k \notin tab'[o].unsaved)
            => UpToDate(k, Copy(store', k), opened', marked')
    BY <2>4, <2>5 DEF OthersSaved
  <2>8. \A o \in Tabs :
            (k \notin lost' /\ Fresh(o, k)' /\ OthersSaved(o, k)')
                => UpToDate(k, Copy(tab'[o], k), opened', marked')
    BY <1>2, <1>3, <2>3, <2>5
  <2> QED
    BY <2>6, <2>7, <2>8 DEF InStep
<1> QED
  BY <1>4, <1>5

\* The other key is none of this write's business.
LEMMA WriteLeaves ==
    ASSUME Types, NEW k \in Keys, NEW j \in Keys, j # k, NEW t \in Tabs,
           tab[t].open = TRUE, NEW u, u \in TabStates, u.open = TRUE,
           u.unsaved = tab[t].unsaved, Copy(u, j) = Copy(tab[t], j),
           NEW accepted \in BOOLEAN, setItem(t, k, u, accepted),
           \A l : UpToDate(j, l, opened, marked) => UpToDate(j, l, opened', marked')
    PROVE  SameFor(j)
<1> DEFINE v == Marked(u, k, accepted)
<1>1. tab' = [tab EXCEPT ![t] = v]
  BY DEF setItem, Marked
<1>2. /\ v.open = TRUE /\ Copy(v, j) = Copy(u, j)
      /\ j \in v.unsaved <=> j \in u.unsaved
  BY DEF Marked, TabStates, Copy
<1> HIDE DEF v
<1>3. tab'[t] = v /\ \A o \in Tabs \ {t} : tab'[o] = tab[o]
  BY <1>1 DEF Types
<1>4. Copy(store', j) = Copy(store, j)
  <2>1. store' = store \/ store' = [store EXCEPT ![k] = u[k]]
    BY DEF setItem
  <2>2. CASE k = "history"
    BY <2>1, <2>2 DEF Keys, Copy, Types, Stored
  <2>3. CASE k = "favorites"
    BY <2>1, <2>3 DEF Keys, Copy, Types, Stored
  <2> QED
    BY <2>2, <2>3 DEF Keys
<1>5. stale'[j] = stale[j] /\ (j \in lost' <=> j \in lost)
  <2> DEFINE others == {other \in Tabs \ {t} : tab[other].open}
  <2>1. /\ stale' = stale \/ stale' = [stale EXCEPT ![k] = others]
        /\ lost' = lost \/ lost' = lost \cup {k}
    BY DEF setItem
  <2> HIDE DEF others
  <2> QED
    BY <2>1 DEF Types
<1> QED
  BY <1>2, <1>3, <1>4, <1>5 DEF SameFor
\* Drawing, and what takes a drawing away, touches no list.
LEMMA DrawingLeaves ==
    ASSUME Types, NEW t \in Tabs,
           ClosePanel(t) \/ PanelWithoutStation(t) \/ Render(t) \/ Redraw(t)
    PROVE  SameFor("history") /\ SameFor("favorites")
<1>1. ASSUME NEW u, u.history = tab[t].history, u.favorites = tab[t].favorites,
             u.open = tab[t].open, u.unsaved = tab[t].unsaved,
             tab' = [tab EXCEPT ![t] = u],
             store' = store, stale' = stale, lost' = lost,
             opened' = opened, marked' = marked
      PROVE  SameFor("history") /\ SameFor("favorites")
  <2>1. tab'[t] = u /\ \A o \in Tabs \ {t} : tab'[o] = tab[o]
    BY <1>1 DEF Types
  <2> QED
    BY <1>1, <2>1 DEF SameFor, Copy
<1>2. tab[t] \in TabStates
  BY DEF Types
<1>3. CASE ClosePanel(t)
  <2> DEFINE u == [tab[t] EXCEPT !.shown = NoStation, !.drawn = FALSE, !.heart = FALSE]
  <2>1. /\ u.history = tab[t].history /\ u.favorites = tab[t].favorites
        /\ u.open = tab[t].open /\ u.unsaved = tab[t].unsaved
    BY <1>2 DEF TabStates
  <2>2. tab' = [tab EXCEPT ![t] = u]
    BY <1>3 DEF ClosePanel
  <2> HIDE DEF u
  <2> QED
    BY <1>1, <1>3, <2>1, <2>2 DEF ClosePanel
<1>4. CASE PanelWithoutStation(t)
  <2> DEFINE u == [tab[t] EXCEPT !.drawn = FALSE, !.heart = FALSE]
  <2>1. /\ u.history = tab[t].history /\ u.favorites = tab[t].favorites
        /\ u.open = tab[t].open /\ u.unsaved = tab[t].unsaved
    BY <1>2 DEF TabStates
  <2>2. tab' = [tab EXCEPT ![t] = u]
    BY <1>4 DEF PanelWithoutStation
  <2> HIDE DEF u
  <2> QED
    BY <1>1, <1>4, <2>1, <2>2 DEF PanelWithoutStation
<1>5. CASE Render(t)
  <2> DEFINE b == isFavorite(tab[t], tab[t].waiting)
             u == [tab[t] EXCEPT !.waiting = NoStation, !.shown = tab[t].waiting,
                                 !.drawn = TRUE, !.heart = b]
  <2>1. tab' = [tab EXCEPT ![t] = u]
    BY <1>5 DEF Render
  <2> HIDE DEF b
  <2>2. /\ u.history = tab[t].history /\ u.favorites = tab[t].favorites
        /\ u.open = tab[t].open /\ u.unsaved = tab[t].unsaved
    BY <1>2 DEF TabStates
  <2> HIDE DEF u
  <2> QED
    BY <1>1, <1>5, <2>1, <2>2 DEF Render
<1>6. CASE Redraw(t)
  <2> DEFINE b == isFavorite(tab[t], tab[t].shown)
             u == [tab[t] EXCEPT !.drawn = TRUE, !.heart = b]
  <2>1. tab' = [tab EXCEPT ![t] = u]
    BY <1>6 DEF Redraw
  <2> HIDE DEF b
  <2>2. /\ u.history = tab[t].history /\ u.favorites = tab[t].favorites
        /\ u.open = tab[t].open /\ u.unsaved = tab[t].unsaved
    BY <1>2 DEF TabStates
  <2> HIDE DEF u
  <2> QED
    BY <1>1, <1>6, <2>1, <2>2 DEF Redraw
<1> QED
  BY <1>3, <1>4, <1>5, <1>6

\* A tab that loads is as fresh as it can be.
LEMMA LoadInStep ==
    ASSUME Types, NEW k \in Keys, InStep(k), NEW t \in Tabs, Load(t)
    PROVE  InStep(k)'
<1> DEFINE v == Loaded(store)
<1>1. /\ tab' = [tab EXCEPT ![t] = v] /\ store' = store /\ stale' = stale
      /\ lost' = lost /\ opened' = opened /\ marked' = marked
  BY DEF Load
<1>2. v.unsaved = {} /\ Copy(v, k) = Copy(store, k)
  BY DEF Loaded, Copy
<1>3. tab[t].unsaved = {} /\ tab[t].open = FALSE
  BY DEF Load, Types, Good, TabStates
<1> HIDE DEF v
<1>4. tab'[t] = v /\ \A o \in Tabs \ {t} : tab'[o] = tab[o]
  BY <1>1 DEF Types
<1>5. \A o \in Tabs : k \in tab'[o].unsaved <=> k \in tab[o].unsaved
  BY <1>2, <1>3, <1>4
<1>6. ASSUME NEW o \in Tabs, Fresh(o, k)', k \notin tab'[o].unsaved
      PROVE  Copy(tab'[o], k) = Copy(store', k)
  <2>1. CASE o = t
    BY <1>1, <1>2, <1>4, <2>1
  <2>2. CASE o # t
    BY <1>1, <1>4, <1>6, <2>2 DEF InStep, Fresh
  <2> QED
    BY <2>1, <2>2
<1>7. (k \notin lost' /\ \A o \in Tabs : k \notin tab'[o].unsaved)
         => UpToDate(k, Copy(store', k), opened', marked')
  BY <1>1, <1>5 DEF InStep
<1>8. ASSUME NEW o \in Tabs, k \notin lost', Fresh(o, k)', OthersSaved(o, k)'
      PROVE  UpToDate(k, Copy(tab'[o], k), opened', marked')
  <2>1. CASE o = t
    <3>1. \A x \in Tabs : k \notin tab'[x].unsaved
      BY <1>2, <1>4, <1>8, <2>1 DEF OthersSaved
    <3> QED
      BY <1>1, <1>2, <1>4, <1>7, <1>8, <2>1, <3>1
  <2>2. CASE o # t
    <3>1. tab'[o] = tab[o] /\ Fresh(o, k) /\ OthersSaved(o, k)
      BY <1>1, <1>4, <1>5, <1>8, <2>2 DEF Fresh, OthersSaved
    <3> QED
      BY <1>1, <1>8, <3>1 DEF InStep
  <2> QED
    BY <2>1, <2>2
<1> QED
  BY <1>6, <1>7, <1>8 DEF InStep

\* A tab that goes takes with it only what it had not saved.
LEMMA UnloadInStep ==
    ASSUME Types, NEW k \in Keys, InStep(k), NEW t \in Tabs, Unload(t)
    PROVE  InStep(k)'
<1> DEFINE v == [Loaded([history |-> <<>>, favorites |-> <<>>]) EXCEPT !.open = FALSE]
<1>1. /\ tab' = [tab EXCEPT ![t] = v] /\ store' = store
      /\ stale' = [x \in Keys |-> stale[x] \ {t}]
      /\ lost' = lost \cup tab[t].unsaved /\ opened' = opened /\ marked' = marked
  BY DEF Unload
<1>2. v.unsaved = {} /\ v.open = FALSE
  BY DEF Loaded
<1> HIDE DEF v
<1>3. tab'[t] = v /\ \A o \in Tabs \ {t} : tab'[o] = tab[o]
  BY <1>1 DEF Types
<1>4. ASSUME NEW o \in Tabs, Fresh(o, k)'
      PROVE  o # t /\ tab'[o] = tab[o] /\ Fresh(o, k)
  BY <1>1, <1>2, <1>3, <1>4 DEF Fresh
<1>5. k \notin lost' => k \notin lost /\ k \notin tab[t].unsaved
  BY <1>1
<1>6. ASSUME NEW o \in Tabs, Fresh(o, k)', k \notin tab'[o].unsaved
      PROVE  Copy(tab'[o], k) = Copy(store', k)
  BY <1>1, <1>4, <1>6 DEF InStep
<1>7. ASSUME k \notin lost', \A o \in Tabs : k \notin tab'[o].unsaved
      PROVE  UpToDate(k, Copy(store', k), opened', marked')
  <2>1. \A o \in Tabs : k \notin tab[o].unsaved
    BY <1>3, <1>5, <1>7
  <2> QED
    BY <1>1, <1>5, <1>7, <2>1 DEF InStep
<1>8. ASSUME NEW o \in Tabs, k \notin lost', Fresh(o, k)', OthersSaved(o, k)'
      PROVE  UpToDate(k, Copy(tab'[o], k), opened', marked')
  <2>1. OthersSaved(o, k)
    BY <1>3, <1>5, <1>8 DEF OthersSaved
  <2> QED
    BY <1>1, <1>4, <1>5, <1>8, <2>1 DEF InStep
<1> QED
  BY <1>6, <1>7, <1>8 DEF InStep

\* An opening writes the history.
LEMMA OpenInStep ==
    ASSUME IInv, NEW t \in Tabs, NEW s \in Stations, NEW facts \in SUBSET Facts,
           NEW accepted \in BOOLEAN, DetailsArrive(t, s, facts, accepted)
    PROVE  InStep("history")' /\ InStep("favorites")'
<1> DEFINE u == Opened(tab[t], s, facts, accepted)
<1>1. Types /\ InStep("history") /\ InStep("favorites") /\ "history" \in Keys
      /\ "favorites" \in Keys
  BY DEF IInv, Keys
<1>2. Good(tab[t]) /\ tab[t].open = TRUE
  BY <1>1 DEF Types, DetailsArrive, Good, TabStates
<1>3. /\ u \in TabStates /\ u.open = TRUE /\ u.unsaved = tab[t].unsaved
      /\ u.favorites = tab[t].favorites
      /\ u.history = addToHistory(tab[t].history, s, facts)
  <2>1. Good(u)
    BY <1>2, OpenedIs
  <2>2. u \in TabStates
    BY <2>1 DEF Good
  <2> QED
    BY <1>2, <2>2, OpenedIs, ZenonT(40)
<1>4. setItem(t, "history", u, accepted)
  BY DEF DetailsArrive, Opened
<1>5. opened' = <<s>> \o Without(opened, {s}) /\ marked' = marked
  BY DEF DetailsArrive
<1> HIDE DEF u
<1>6. UpToDate("history", Copy(tab[t], "history"), opened, marked)
         => UpToDate("history", Copy(u, "history"), opened', marked')
  <2>1. ASSUME IsLatest(tab[t].history, opened)
        PROVE  IsLatest(u.history, opened')
    BY <1>1, <1>2, <1>3, <1>5, <2>1, LatestAdded, SMTT(40) DEF Good, Types, IsFavourites
  <2> QED
    BY <2>1 DEF UpToDate, Copy
<1>7. InStep("history")'
  BY <1>1, <1>2, <1>3, <1>4, <1>6, WriteInStep
<1>8. SameFor("favorites")
  <2>1. Copy(u, "favorites") = Copy(tab[t], "favorites")
    BY <1>3 DEF Copy
  <2>2. \A l : UpToDate("favorites", l, opened, marked)
                  => UpToDate("favorites", l, opened', marked')
    BY <1>5 DEF UpToDate
  <2> QED
    BY <1>1, <1>2, <1>3, <1>4, <2>1, <2>2, WriteLeaves
<1> QED
  BY <1>1, <1>7, <1>8, SameInStep

\* A click writes the favourites.
LEMMA ClickInStep ==
    ASSUME IInv, NEW t \in Tabs, NEW accepted \in BOOLEAN, ClickFavorite(t, accepted)
    PROVE  InStep("history")' /\ InStep("favorites")'
<1> DEFINE s == tab[t].shown
           u == Clicked(tab[t], s, accepted)
           w == [tab[t] EXCEPT !.favorites = toggleFavorite(tab[t], s)]
<1>1. Types /\ InStep("history") /\ InStep("favorites") /\ "history" \in Keys
      /\ "favorites" \in Keys
  BY DEF IInv, Keys
<1>2. Good(tab[t]) /\ tab[t] \in TabStates /\ tab[t].open = TRUE /\ s \in Stations
  BY <1>1 DEF Types, ClickFavorite, Good, TabStates
<1>3. /\ u \in TabStates /\ u.open = TRUE /\ u.unsaved = tab[t].unsaved
      /\ u.history = tab[t].history
      /\ u.favorites = toggleFavorite(tab[t], s)
  <2>1. Good(u)
    BY <1>2, ClickedIs
  <2>2. u \in TabStates
    BY <2>1 DEF Good
  <2> QED
    BY <1>2, <2>2, ClickedIs
<1>4. setItem(t, "favorites", u, accepted)
  BY DEF ClickFavorite, Clicked
<1>5. /\ opened' = opened
      /\ marked' = IF isFavorite(w, s) THEN marked \cup {s} ELSE marked \ {s}
  BY DEF ClickFavorite
<1>6. w.favorites = toggleFavorite(tab[t], s)
  BY <1>2 DEF TabStates
<1> HIDE DEF u, w, s
<1>7. UpToDate("favorites", Copy(tab[t], "favorites"), opened, marked)
         => UpToDate("favorites", Copy(u, "favorites"), opened', marked')
  <2>1. ASSUME marked = Members(tab[t].favorites)
        PROVE  marked' = Members(u.favorites)
    <3>1. Members(u.favorites) =
              IF s \in Members(tab[t].favorites) THEN Members(tab[t].favorites) \ {s}
              ELSE Members(tab[t].favorites) \cup {s}
      BY <1>2, <1>3, Toggled, SMTT(40) DEF Good
    <3>2. isFavorite(w, s) <=> s \in Members(u.favorites)
      BY <1>3, <1>6 DEF isFavorite
    <3> QED
      BY <1>5, <2>1, <3>1, <3>2
  <2> QED
    BY <2>1 DEF UpToDate, Copy
<1>8. InStep("favorites")'
  BY <1>1, <1>2, <1>3, <1>4, <1>7, WriteInStep
<1>9. SameFor("history")
  <2>1. Copy(u, "history") = Copy(tab[t], "history")
    BY <1>3 DEF Copy
  <2>2. \A l : UpToDate("history", l, opened, marked)
                  => UpToDate("history", l, opened', marked')
    BY <1>5 DEF UpToDate
  <2> QED
    BY <1>1, <1>2, <1>3, <1>4, <2>1, <2>2, WriteLeaves
<1> QED
  BY <1>1, <1>8, <1>9, SameInStep

\* Every event keeps the tabs and the storage in step.
LEMMA NextIInv == IInv /\ [Next]_vars => IInv'
<1> SUFFICES ASSUME IInv, [Next]_vars
             PROVE  IInv'
  OBVIOUS
<1>0. /\ Types /\ InStep("history") /\ InStep("favorites")
      /\ "history" \in Keys /\ "favorites" \in Keys
  BY DEF IInv, Keys
<1>1. ASSUME NEW t \in Tabs, Load(t)
      PROVE  InStep("history")' /\ InStep("favorites")'
  BY <1>0, <1>1, LoadInStep
<1>2. ASSUME NEW t \in Tabs, Unload(t)
      PROVE  InStep("history")' /\ InStep("favorites")'
  BY <1>0, <1>2, UnloadInStep
<1>3. ASSUME NEW t \in Tabs,
             ClosePanel(t) \/ PanelWithoutStation(t) \/ Render(t) \/ Redraw(t)
      PROVE  InStep("history")' /\ InStep("favorites")'
  BY <1>0, <1>3, DrawingLeaves, SameInStep
<1>4. ASSUME NEW t \in Tabs, NEW s \in Stations, NEW facts \in SUBSET Facts,
             NEW accepted \in BOOLEAN, DetailsArrive(t, s, facts, accepted)
      PROVE  InStep("history")' /\ InStep("favorites")'
  BY <1>4, OpenInStep
<1>5. ASSUME NEW t \in Tabs, NEW accepted \in BOOLEAN, ClickFavorite(t, accepted)
      PROVE  InStep("history")' /\ InStep("favorites")'
  BY <1>5, ClickInStep
<1>6. ASSUME UNCHANGED vars
      PROVE  InStep("history")' /\ InStep("favorites")'
  <2>1. SameFor("history") /\ SameFor("favorites")
    BY <1>6 DEF vars, SameFor
  <2> QED
    BY <1>0, <2>1, SameInStep
<1>7. InStep("history")' /\ InStep("favorites")'
  BY <1>1, <1>2, <1>3, <1>4, <1>5, <1>6 DEF Next
<1> QED
  BY <1>0, <1>7, NextTypes DEF IInv

\* At first nothing is stored, opened or marked, and no tab is open.
LEMMA InitIInv == Init => IInv
<1> SUFFICES ASSUME Init PROVE IInv
  OBVIOUS
<1> DEFINE closed == [Loaded(store) EXCEPT !.open = FALSE]
<1>1. Stored(store) /\ IsFavourites(opened)
  BY NothingStored DEF Init
<1>2. Good(closed) /\ closed.open = FALSE /\ closed.unsaved = {}
  BY <1>1, LoadedIsGood DEF Loaded
<1>3. tab = [t \in Tabs |-> closed]
  BY DEF Init
<1> HIDE DEF closed
<1>4. \A t \in Tabs : tab[t] = closed
  BY <1>3
<1>5. Types
  <2>1. tab \in [Tabs -> TabStates]
    BY <1>2, <1>3 DEF Good
  <2>2. /\ marked \subseteq Stations /\ stale \in [Keys -> SUBSET Tabs]
        /\ lost \subseteq Keys /\ writes \in 0 .. MaxWrites
    BY MaxWritesAssumption DEF Init
  <2> QED
    BY <1>1, <1>2, <1>4, <2>1, <2>2 DEF Types
<1>6. \A t \in Tabs, k \in Keys : ~ Fresh(t, k)
  BY <1>2, <1>4 DEF Fresh
<1>7. /\ UpToDate("history", Copy(store, "history"), opened, marked)
      /\ UpToDate("favorites", Copy(store, "favorites"), opened, marked)
  BY DEF Init, UpToDate, Copy, IsLatest, Members
<1>8. "history" \in Keys /\ "favorites" \in Keys
  BY DEF Keys
<1> QED
  BY <1>5, <1>6, <1>7, <1>8 DEF IInv, InStep

\* The storage and the tabs are in step, whatever is opened, marked, refused,
\* reloaded or closed in any of them.
THEOREM Invariant == Spec => []IInv
  BY InitIInv, NextIInv, PTL DEF Spec

\* The lists hold each station once, the history within its limit, in the
\* storage and in every tab.
THEOREM TypeCorrect == Spec => []TypeOK
<1>1. IInv => TypeOK
  BY TypesSuffice DEF IInv
<1> QED
  BY <1>1, Invariant, PTL

\* A step between two moments at which nothing is pending forgets nothing.
LEMMA NextGrows ==
    IInv /\ [Next]_vars =>
        (Settled("history") /\ Settled("history")' => KnowledgeGrows)
<1> SUFFICES ASSUME IInv, [Next]_vars, Settled("history"), Settled("history")'
             PROVE  KnowledgeGrows
  OBVIOUS
<1>0. Types /\ InStep("history") /\ "history" \in Keys /\ IsHistory(store.history)
  BY DEF IInv, Types, Stored, Keys
<1>1. ASSUME store'.history = store.history
      PROVE  KnowledgeGrows
  BY <1>0, <1>1 DEF KnowledgeGrows, IsHistory
<1>2. ASSUME NEW t \in Tabs, NEW s \in Stations, NEW facts \in SUBSET Facts,
             NEW accepted \in BOOLEAN, DetailsArrive(t, s, facts, accepted)
      PROVE  KnowledgeGrows
  <2> DEFINE u == Opened(tab[t], s, facts, accepted)
  <2>1. Good(tab[t]) /\ tab[t].open = TRUE
    BY <1>0, <1>2 DEF Types, DetailsArrive, Good, TabStates
  <2>2. u.history = addToHistory(tab[t].history, s, facts)
    BY <2>1, OpenedIs
  <2>3. setItem(t, "history", u, accepted)
    BY <1>2 DEF DetailsArrive, Opened
  <2> HIDE DEF u
  <2>4. CASE ~accepted
    BY <1>1, <2>3, <2>4 DEF setItem
  <2>5. CASE accepted
    <3>1. /\ store' = [store EXCEPT !["history"] = u["history"]]
          /\ lost' = IF t \in stale["history"] THEN lost \cup {"history"} ELSE lost
      BY <2>3, <2>5 DEF setItem
    <3>2. store'.history = u.history
      BY <1>0, <3>1 DEF Types, Stored
    <3>3. Fresh(t, "history") /\ "history" \notin tab[t].unsaved
      BY <2>1, <3>1 DEF Fresh, Settled
    <3>4. tab[t].history = store.history
      BY <3>3 DEF IInv, InStep, Copy
    <3>5. store'.history = addToHistory(store.history, s, facts)
      BY <2>2, <3>2, <3>4
    <3> QED
      BY <1>0, <3>5, KnowledgeAdded, SMTT(40) DEF KnowledgeGrows
  <2> QED
    BY <2>4, <2>5
<1>3. ASSUME NEW t \in Tabs, NEW accepted \in BOOLEAN, ClickFavorite(t, accepted)
      PROVE  KnowledgeGrows
  <2>1. PICK x : store' = store \/ store' = [store EXCEPT !["favorites"] = x]
    BY <1>3 DEF ClickFavorite, setItem
  <2>2. store'.history = store.history
    BY <1>0, <2>1 DEF Types, Stored
  <2> QED
    BY <1>1, <2>2
<1>4. ASSUME NEW t \in Tabs, \/ Load(t) \/ Unload(t) \/ Render(t) \/ Redraw(t)
                             \/ ClosePanel(t) \/ PanelWithoutStation(t)
      PROVE  KnowledgeGrows
  BY <1>1, <1>4 DEF Load, Unload, Render, Redraw, ClosePanel, PanelWithoutStation
<1>5. CASE UNCHANGED vars
  BY <1>1, <1>5 DEF vars
<1> QED
  BY <1>2, <1>3, <1>4, <1>5 DEF Next

\* Once nothing is pending the storage holds the latest openings and every mark,
\* and what was known of the stations it still has, unless a tab wrote over what
\* it had not read or went with a write that was refused.
THEOREM NoUpdateIsLost == Spec => NothingIsLost
<1>1. IInv /\ [Next]_vars =>
         [/\ Settled("history")' => HistoryIsLatest'
          /\ Settled("favorites")' => FavouritesAreMarked'
          /\ Settled("history") /\ Settled("history")' => KnowledgeGrows]_vars
  <2> SUFFICES ASSUME IInv, [Next]_vars
               PROVE  /\ Settled("history")' => HistoryIsLatest'
                      /\ Settled("favorites")' => FavouritesAreMarked'
                      /\ Settled("history") /\ Settled("history")' => KnowledgeGrows
    OBVIOUS
  <2>1. IInv'
    BY NextIInv
  <2>2. /\ Settled("history")' => HistoryIsLatest'
        /\ Settled("favorites")' => FavouritesAreMarked'
    BY <2>1 DEF IInv, InStep, Settled, UpToDate, Copy, IsLatest, HistoryIsLatest,
                FavouritesAreMarked
  <2> QED
    BY <2>2, NextGrows
<1> QED
  BY <1>1, Invariant, PTL DEF Spec, NothingIsLost
=============================================================================
