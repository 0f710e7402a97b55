----------------------------- MODULE Collections -----------------------------
(***************************************************************************)
(* History and favourites (state.js): each tab reads both lists from the   *)
(* localStorage when it loads, keeps its own copies and writes a list back *)
(* whole whenever it changes it.  A write may be refused (setItem throws   *)
(* when the quota is used up): the tab's list has changed by then, what    *)
(* should have followed the write does not happen.                         *)
(*                                                                         *)
(* An entry of the history is a station and what is known of it: a field   *)
(* the station lacks is taken from its previous entry, a date yields only  *)
(* to a later one.                                                         *)
(***************************************************************************)
EXTENDS Naturals, Sequences

CONSTANTS
    Stations, Tabs,
    Facts,        \* what may be known of a station: brand, address, location, dates
    NoStation,
    MAX_SIZE,     \* HISTORY_CONFIG.MAX_SIZE
    MaxWrites     \* bound: writes, accepted or refused, by all tabs

ASSUME MaxSizeAssumption == MAX_SIZE \in Nat \ {0}
ASSUME MaxWritesAssumption == MaxWrites \in Nat
ASSUME NoStationAssumption == NoStation \notin Stations

VARIABLES
    store,   \* localStorage: key -> list
    tab,     \* tab -> its state, the two lists among it
    opened,  \* history: the stations ever opened, each once, the latest first
    marked,  \* history: the stations the user has last marked, not unmarked
    stale,   \* history: key -> tabs whose copy lacks another tab's write
    writes,  \* history: how many writes there were
    lost     \* history: keys of which an update has been lost for good

vars == <<store, tab, opened, marked, stale, lost, writes>>

Keys == {"history", "favorites"}
Entry == [id : Stations, known : SUBSET Facts]
Members(list) == {list[i] : i \in 1 .. Len(list)}

Distinct(list) == \A i, j \in 1 .. Len(list) : list[i] = list[j] => i = j

\* No list holds a station twice, and the history never outgrows its limit.
WellFormed(lists) ==
    /\ lists.history \in Seq(Entry)
    /\ Len(lists.history) <= MAX_SIZE
    /\ \A i, j \in 1 .. Len(lists.history) :
          lists.history[i].id = lists.history[j].id => i = j
    /\ lists.favorites \in Seq(Stations)
    /\ Distinct(lists.favorites)

TypeOK ==
    /\ WellFormed(store)
    /\ DOMAIN tab = Tabs
    /\ \A t \in Tabs :
          /\ WellFormed(tab[t])
          /\ tab[t].open \in BOOLEAN
          /\ tab[t].waiting \in Stations \cup {NoStation}
          /\ tab[t].shown \in Stations \cup {NoStation}
          /\ tab[t].drawn \in BOOLEAN /\ tab[t].heart \in BOOLEAN
          /\ tab[t].unsaved \subseteq Keys
    /\ opened \in Seq(Stations) /\ Distinct(opened)
    /\ marked \subseteq Stations
    /\ stale \in [Keys -> SUBSET Tabs]
    /\ lost \subseteq Keys
    /\ writes \in 0 .. MaxWrites

\* A tab that has just read the lists.  waiting: the station entered in the
\* history whose opening still waits for a search (bound: one per tab); shown:
\* currentStationData; drawn, heart: whether the panel draws a station, rather
\* than a spinner or an error, and its heart as full; unsaved (history): keys of
\* which the tab's last write was refused.
Loaded(lists) ==
    [open |-> TRUE, history |-> lists.history, favorites |-> lists.favorites,
     waiting |-> NoStation, shown |-> NoStation, drawn |-> FALSE, heart |-> FALSE,
     unsaved |-> {}]

Init ==
    /\ store = [history |-> <<>>, favorites |-> <<>>]
    /\ tab = [t \in Tabs |-> [Loaded(store) EXCEPT !.open = FALSE]]
    /\ opened = <<>>
    /\ marked = {}
    /\ stale = [k \in Keys |-> {}]
    /\ lost = {}
    /\ writes = 0

-----------------------------------------------------------------------------
\* Definitions named slip_ are plausible mistakes in the definition that
\* follows them; no action uses one.

\* list.filter, of what is not among dropped.
Without(list, dropped) ==
    LET kept[n \in 0 .. Len(list)] ==
            IF n = 0 THEN <<>>
            ELSE IF list[n] \in dropped THEN kept[n - 1]
            ELSE Append(kept[n - 1], list[n])
    IN  kept[Len(list)]

\* The entries of a station in a list, and what they make of a new one.
Previous(list, s) == {e \in Members(list) : e.id = s}
NextEntry(list, s, facts) ==
    [id |-> s, known |-> facts \cup UNION {e.known : e \in Previous(list, s)}]

Slice(list, size) == SubSeq(list, 1, IF Len(list) < size THEN Len(list) ELSE size)

slip_SlicedFirst(list, s, facts) ==
    <<NextEntry(list, s, facts)>>
        \o Without(IF Len(list) < MAX_SIZE THEN list ELSE Slice(list, MAX_SIZE - 1),
                   Previous(list, s))

addToHistory(list, s, facts) ==
    Slice(<<NextEntry(list, s, facts)>> \o Without(list, Previous(list, s)), MAX_SIZE)

isFavorite(u, s) == s \in Members(u.favorites)

slip_PushesAgain(u, s) ==
    IF isFavorite(u, s) /\ u.heart
    THEN Without(u.favorites, {s})
    ELSE Append(u.favorites, s)

toggleFavorite(u, s) ==
    IF isFavorite(u, s)
    THEN Without(u.favorites, {s})
    ELSE Append(u.favorites, s)

\* setItem(k, ...) at the end of a change that leaves tab t as u.
setItem(t, k, u, accepted) ==
    /\ writes < MaxWrites
    /\ writes' = writes + 1
    /\ tab' = [tab EXCEPT ![t] =
                  [u EXCEPT !.unsaved = IF accepted THEN @ \ {k} ELSE @ \cup {k}]]
    /\ IF accepted
       THEN /\ store' = [store EXCEPT ![k] = u[k]]
            /\ stale' = [stale EXCEPT ![k] = {other \in Tabs \ {t} : tab[other].open}]
            /\ lost' = IF t \in stale[k] THEN lost \cup {k} ELSE lost
       ELSE UNCHANGED <<store, stale, lost>>

-----------------------------------------------------------------------------
Load(t) ==
    /\ ~tab[t].open
    /\ tab' = [tab EXCEPT ![t] = Loaded(store)]
    /\ UNCHANGED <<store, stale, lost, opened, marked, writes>>

\* The tab is closed, reloaded or crashes.
Unload(t) ==
    /\ tab[t].open
    /\ tab' = [tab EXCEPT ![t] = [Loaded([history |-> <<>>, favorites |-> <<>>])
                                    EXCEPT !.open = FALSE]]
    /\ stale' = [k \in Keys |-> stale[k] \ {t}]
    /\ lost' = lost \cup tab[t].unsaved
    /\ UNCHANGED <<store, opened, marked, writes>>

ClosePanel(t) ==
    /\ tab[t].open
    /\ tab' = [tab EXCEPT ![t].shown = NoStation, ![t].drawn = FALSE, ![t].heart = FALSE]
    /\ UNCHANGED <<store, opened, marked, stale, lost, writes>>

\* The spinner of an opening, or the error it ends with, takes the place of the
\* station that is drawn, not of currentStationData.
PanelWithoutStation(t) ==
    /\ tab[t].drawn
    /\ tab' = [tab EXCEPT ![t].drawn = FALSE, ![t].heart = FALSE]
    /\ UNCHANGED <<store, opened, marked, stale, lost, writes>>

\* The details of s have arrived.  A refused write ends the opening with an
\* error in the panel.
DetailsArrive(t, s, facts, accepted) ==
    /\ tab[t].open
    /\ tab[t].waiting = NoStation
    /\ LET u == [tab[t] EXCEPT !.history = addToHistory(@, s, facts)]
       IN  setItem(t, "history",
                   IF accepted THEN [u EXCEPT !.waiting = s]
                               ELSE [u EXCEPT !.drawn = FALSE, !.heart = FALSE],
                   accepted)
    /\ opened' = <<s>> \o Without(opened, {s})
    /\ UNCHANGED marked

\* renderPanel, after the opening has waited for its search.
Render(t) ==
    /\ tab[t].waiting # NoStation
    /\ tab' = [tab EXCEPT ![t].waiting = NoStation,
                          ![t].shown = tab[t].waiting,
                          ![t].drawn = TRUE,
                          ![t].heart = isFavorite(tab[t], tab[t].waiting)]
    /\ UNCHANGED <<store, opened, marked, stale, lost, writes>>

\* updateUILanguage draws currentStationData, also over a spinner or an error.
Redraw(t) ==
    /\ tab[t].shown # NoStation
    /\ tab' = [tab EXCEPT ![t].drawn = TRUE,
                          ![t].heart = isFavorite(tab[t], tab[t].shown)]
    /\ UNCHANGED <<store, opened, marked, stale, lost, writes>>

slip_FlipsTheHeart(t, accepted) ==
    /\ tab[t].drawn
    /\ LET s == tab[t].shown
           u == [tab[t] EXCEPT !.favorites = toggleFavorite(tab[t], s)]
       IN  /\ setItem(t, "favorites",
                      IF accepted THEN [u EXCEPT !.heart = ~@] ELSE u, accepted)
           /\ marked' = IF isFavorite(u, s) THEN marked \cup {s} ELSE marked \ {s}
    /\ UNCHANGED opened

\* A click on the heart.  The class follows what toggleFavorite returns; where
\* the write is refused it returns nothing.
ClickFavorite(t, accepted) ==
    /\ tab[t].drawn
    /\ LET s == tab[t].shown
           u == [tab[t] EXCEPT !.favorites = toggleFavorite(tab[t], s)]
       IN  /\ setItem(t, "favorites",
                      IF accepted THEN [u EXCEPT !.heart = isFavorite(u, s)] ELSE u,
                      accepted)
           /\ marked' = IF isFavorite(u, s) THEN marked \cup {s} ELSE marked \ {s}
    /\ UNCHANGED opened

Next ==
    \/ \E t \in Tabs : Load(t) \/ Unload(t) \/ Render(t) \/ Redraw(t)
                         \/ ClosePanel(t) \/ PanelWithoutStation(t)
    \/ \E t \in Tabs, s \in Stations, facts \in SUBSET Facts, accepted \in BOOLEAN :
          DetailsArrive(t, s, facts, accepted)
    \/ \E t \in Tabs, accepted \in BOOLEAN : ClickFavorite(t, accepted)

Spec == Init /\ [][Next]_vars

-----------------------------------------------------------------------------
\* Nothing is pending for key k, and nothing has been lost: no tab has written
\* over what it had not read, none has gone with a write that was refused.
Settled(k) == k \notin lost /\ \A t \in Tabs : k \notin tab[t].unsaved

\* The stored history is the latest openings, each station once, newest first:
\* nothing is missing but what is older than MAX_SIZE others.
HistoryIsLatest ==
    /\ Len(store.history) = Len(opened) \/ Len(store.history) = MAX_SIZE
    /\ \A i \in 1 .. Len(store.history) : store.history[i].id = opened[i]

FavouritesAreMarked == marked = Members(store.favorites)

\* What is known of a station stays known as long as the history holds it.
KnowledgeGrows ==
    \A i \in 1 .. Len(store.history), j \in 1 .. Len(store'.history) :
        store.history[i].id = store'.history[j].id =>
            store.history[i].known \subseteq store'.history[j].known

\* Reloads, crashes and any number of tabs lose no opening and no mark, as long
\* as no tab writes over what it has not read (state.js:33-34 reads the lists
\* once) and none ends between a write that was refused and the next.
NothingIsLost ==
    [][/\ Settled("history")' => HistoryIsLatest'
       /\ Settled("favorites")' => FavouritesAreMarked'
       /\ Settled("history") /\ Settled("history")' => KnowledgeGrows]_vars

\* The heart in the panel tells whether this tab holds the station a click on it
\* would mark among its favourites (ui.js:175, app.js:193-196), whatever happened
\* since it was drawn; only a click whose write was refused may leave it behind.
HeartTellsFavourite ==
    \A t \in Tabs :
        (tab[t].drawn /\ "favorites" \notin tab[t].unsaved)
            => tab[t].heart = isFavorite(tab[t], tab[t].shown)
=============================================================================
