---------------------------- MODULE StationView ----------------------------
(***************************************************************************)
(* The browser's map and station panel: panels.js (performSearch,          *)
(* openStationById), api.js (the abortable, coalesced fetches behind       *)
(* them), map.js (markers and selection), Sheet.js (dragging the panel)    *)
(* and the handlers of app.js that drive them.                             *)
(*                                                                         *)
(* One thread runs everything, but an async function is cut at each await. *)
(* A resumption is a job; jobs run first in, first out, and all of them    *)
(* run before the next event (a click, a timer, a response).  A pending    *)
(* performSearch or openStationById is its continuation: it waits in the   *)
(* fetch it awaits, then in the queue.                                     *)
(***************************************************************************)
EXTENDS Naturals, Sequences, FiniteSetsExt

CONSTANTS
    Stations,        \* station ids
    Zones,           \* what a search asks for: rounded centre, radius, fuel
    InZone,          \* the stations a search of each zone returns
    Priced,          \* those of them that have a price for its fuel
    Setting,         \* the radius and fuel of each zone
    HomeZone,        \* the zone around each station, for each setting
    LocatedByServer, \* stations whose details carry their coordinates
    Listed,          \* what entries of the history and the favourites offer:
                     \*   a station, and whether its coordinates are with it
    None,
    MaxPending       \* bound: continuations pending when the user acts

\* Ids are numbers; the panel holds a station or one of these.
ASSUME StationsAssumption == Stations \cap {"blank", "loading", "error"} = {}
ASSUME InZoneAssumption == InZone \in [Zones -> SUBSET Stations]
ASSUME PricedAssumption ==
    Priced \in [Zones -> SUBSET Stations] /\ \A z \in Zones : Priced[z] \subseteq InZone[z]
ASSUME HomeZoneAssumption ==
    /\ HomeZone \in [Stations -> [{Setting[z] : z \in Zones} -> Zones]]
    /\ \A s \in Stations : \A t \in DOMAIN HomeZone[s] : Setting[HomeZone[s][t]] = t
ASSUME LocatedAssumption == LocatedByServer \subseteq Stations
ASSUME ListedAssumption == Listed \subseteq Stations \X BOOLEAN
ASSUME NoneAssumption == None \notin Stations /\ None \notin Zones

VARIABLES
    ui,          \* what is on the screen, and the state behind it
    searches,    \* activeSearches: zone -> the searches awaiting its fetch
    searchCtl,   \* the zone whose fetch searchAbortController aborts
    details,     \* activeDetails: station -> the openings awaiting its fetch
    detailCtl,   \* the station whose fetch detailAbortController aborts
    seen,        \* zones and stations whose answer a TTLCache may still hold
    located,     \* stations whose details object has a location by now
    dragging,    \* the panel's sheet is being dragged
    jobs,        \* continuations ready to run
    lastAsked,   \* the zone of the latest performSearch; its setting is the
                 \*   one selected, as every change of setting searches
    lastFailed,  \* history: that search failed
    lastOpened   \* history: the station the user opened last

netVars == <<searches, searchCtl, details, detailCtl, seen, located>>
historyVars == <<lastAsked, lastFailed, lastOpened>>
vars == <<ui, netVars, dragging, jobs, historyVars>>

StationOrNone == Stations \cup {None}
Outcomes == {"ok", "error", "aborted"}

\* The continuations.  A search goes on to open a station if it was made for
\* one by ensureStationVisible.
SearchJob(z, forStation, outcome) ==
    [do |-> "search", zone |-> z, station |-> forStation, outcome |-> outcome]
OpenJob(s, known, outcome) ==
    [do |-> "open", station |-> s, known |-> known, outcome |-> outcome]
SelectJob(s) == [do |-> "select", station |-> s]
RenderJob(s) == [do |-> "render", station |-> s]
SearchAborted(z) == [do |-> "searchAborted", zone |-> z]
DetailsAborted(s) == [do |-> "detailsAborted", station |-> s]

Job ==
    {SearchJob(z, s, o) : z \in Zones, s \in StationOrNone, o \in Outcomes}
    \cup {OpenJob(s, k, o) : s \in Stations, k \in BOOLEAN, o \in Outcomes}
    \cup {SelectJob(s) : s \in Stations}
    \cup {RenderJob(s) : s \in Stations}
    \cup {SearchAborted(z) : z \in Zones}
    \cup {DetailsAborted(s) : s \in Stations}

TypeOK ==
    /\ ui \in [hidden   : BOOLEAN,
               content  : {"blank", "loading", "error"} \cup Stations,
               current  : StationOrNone,
               selected : StationOrNone,
               stations : SUBSET Stations,
               markers  : SUBSET Stations,
               lit      : SUBSET Stations,
               dimmed   : BOOLEAN,
               centre   : Zones \cup {None}]
    /\ DOMAIN searches \subseteq Zones
    /\ searches \in [DOMAIN searches -> Seq(StationOrNone)]
    /\ searchCtl \in Zones \cup {None}
    /\ DOMAIN details \subseteq Stations
    /\ details \in [DOMAIN details -> Seq(BOOLEAN)]
    /\ detailCtl \in StationOrNone
    /\ seen \subseteq Zones \cup Stations
    /\ located \subseteq Stations
    /\ dragging \in BOOLEAN
    /\ jobs \in Seq(Job)
    /\ lastAsked \in Zones \cup {None}
    /\ lastFailed \in BOOLEAN
    /\ lastOpened \in StationOrNone

Init ==
    /\ ui = [hidden |-> TRUE, content |-> "blank", current |-> None,
             selected |-> None, stations |-> {}, markers |-> {}, lit |-> {},
             dimmed |-> FALSE, centre |-> None]
    /\ searches = [z \in {} |-> <<>>]
    /\ searchCtl = None
    /\ details = [s \in {} |-> <<>>]
    /\ detailCtl = None
    /\ seen = {}
    /\ located = {}
    /\ dragging = FALSE
    /\ jobs = <<>>
    /\ lastAsked = None
    /\ lastFailed = FALSE
    /\ lastOpened = None

-----------------------------------------------------------------------------
\* Effects on the screen, as functions of its state.  Definitions named slip_
\* are plausible mistakes in the definition that follows them; no action uses
\* one.  Each breaks a property.

selectMarker(u, s) ==
    [u EXCEPT !.selected = s,
              !.lit = (@ \ {u.selected}) \cup ({s} \cap u.markers),
              !.dimmed = s \in u.markers]

closePanel(u) ==
    selectMarker([u EXCEPT !.hidden = TRUE, !.current = None], None)

showPanelLoading(u) == [u EXCEPT !.hidden = FALSE, !.content = "loading"]

renderPanel(u, s) == [u EXCEPT !.hidden = FALSE, !.content = s, !.current = s]

\* The stations that can have a marker: without a price there is none.
Renderable(u) == IF u.centre = None THEN {} ELSE Priced[u.centre]

slip_DimmingStays(u, eligible) ==
    LET kept == Renderable(u) \cap (eligible \cup {u.selected})
        lost == u.selected \in u.markers \ kept
    IN  [u EXCEPT !.markers = kept,
                  !.lit = @ \cap kept,
                  !.selected = IF lost THEN None ELSE @]

slip_SelectionAlwaysShown(u, eligible) ==
    [u EXCEPT !.markers = (Renderable(u) \cap eligible) \cup {u.selected}]

\* eligible: the stations that pass the brand filter and lie in the padded
\* view.  The selected one is exempt from both, but not from having a price.
syncMarkers(u, eligible) ==
    LET kept == Renderable(u) \cap (eligible \cup {u.selected})
        lost == u.selected \in u.markers \ kept
    IN  [u EXCEPT !.markers = kept,
                  !.lit = @ \cap kept,
                  !.selected = IF lost THEN None ELSE @,
                  !.dimmed = @ /\ ~lost]

\* updateUILanguage draws the open panel again.
redraw(u) ==
    IF ~u.hidden /\ u.current # None THEN [u EXCEPT !.content = u.current] ELSE u

-----------------------------------------------------------------------------
With(f, k, v) == [x \in DOMAIN f \cup {k} |-> IF x = k THEN v ELSE f[x]]
Dropping(f, k) == [x \in DOMAIN f \ {k} |-> f[x]]

\* abort() on the current controller: nothing happens to a settled fetch, or
\* twice; the rejection reaches the async function in a job of its own.
SearchAbort ==
    IF searchCtl \in DOMAIN searches THEN <<SearchAborted(searchCtl)>> ELSE <<>>
DetailsAbort ==
    IF detailCtl \in DOMAIN details THEN <<DetailsAborted(detailCtl)>> ELSE <<>>

slip_JoinAborts(z, forStation, queue) ==
    /\ z \in DOMAIN searches
    /\ searches' = [searches EXCEPT ![z] = Append(@, forStation)]
    /\ jobs' = queue \o SearchAbort
    /\ searchCtl' = None

JoinSearch(z, forStation, queue) ==
    /\ z \in DOMAIN searches
    /\ searches' = [searches EXCEPT ![z] = Append(@, forStation)]
    /\ jobs' = queue
    /\ UNCHANGED searchCtl

slip_HitLeavesOlderFetch(z, forStation, queue) ==
    /\ z \notin DOMAIN searches
    /\ z \in seen
    /\ jobs' = Append(queue, SearchJob(z, forStation, "ok"))
    /\ UNCHANGED <<searches, searchCtl>>

SearchHit(z, forStation, queue) ==
    /\ z \notin DOMAIN searches
    /\ z \in seen
    /\ jobs' = queue \o SearchAbort \o <<SearchJob(z, forStation, "ok")>>
    /\ searchCtl' = None
    /\ UNCHANGED searches

SearchFetch(z, forStation, queue) ==
    /\ z \notin DOMAIN searches
    /\ jobs' = queue \o SearchAbort
    /\ searchCtl' = z
    /\ searches' = With(searches, z, <<forStation>>)

\* performSearch up to its await, on the screen u and with the job queue left
\* by what the caller has done so far.
performSearch(u, z, forStation, queue) ==
    /\ ui' = closePanel(u)
    /\ JoinSearch(z, forStation, queue)
         \/ SearchHit(z, forStation, queue)
         \/ SearchFetch(z, forStation, queue)
    /\ lastAsked' = z
    /\ lastFailed' = FALSE

JoinDetails(s, known) ==
    /\ s \in DOMAIN details
    /\ details' = [details EXCEPT ![s] = Append(@, known)]
    /\ UNCHANGED <<jobs, detailCtl>>

DetailsHit(s, known) ==
    /\ s \notin DOMAIN details
    /\ s \in seen
    /\ jobs' = DetailsAbort \o <<OpenJob(s, known, "ok")>>
    /\ detailCtl' = None
    /\ UNCHANGED details

DetailsFetch(s, known) ==
    /\ s \notin DOMAIN details
    /\ jobs' = DetailsAbort
    /\ detailCtl' = s
    /\ details' = With(details, s, <<known>>)

-----------------------------------------------------------------------------
\* Events.  None happens while jobs are queued.
Idle == jobs = <<>>

Pending ==
    MapThenSumSet(LAMBDA z : Len(searches[z]), DOMAIN searches)
        + MapThenSumSet(LAMBDA s : Len(details[s]), DOMAIN details)

\* A click on the map, a new fuel or radius, "search here", "locate me".
UserSearches(z) ==
    /\ Idle
    /\ Pending < MaxPending
    /\ performSearch(ui, z, None, <<>>)
    /\ UNCHANGED <<details, detailCtl, seen, located, dragging, lastOpened>>

\* openStationById up to its first await.  A marker click knows only the id; an
\* entry of the history or the favourites, of a station that may have no marker,
\* brings the coordinates it stored, if it stored any.
UserOpens(s, known) ==
    /\ Idle
    /\ Pending < MaxPending
    /\ (s \in ui.markers /\ ~known) \/ <<s, known>> \in Listed
    /\ ui' = showPanelLoading(selectMarker(ui, s))
    /\ JoinDetails(s, known) \/ DetailsHit(s, known) \/ DetailsFetch(s, known)
    /\ lastOpened' = s
    /\ UNCHANGED <<searches, searchCtl, seen, located, dragging, lastAsked,
                   lastFailed>>

\* The close button, Escape, or opening the history or favourites panel.
UserCloses ==
    /\ Idle
    /\ ui' = closePanel(ui)
    /\ UNCHANGED <<netVars, dragging, jobs, historyVars>>

\* A new brand filter, or 250 ms after the map has come to rest.
MarkersRefresh(eligible) ==
    /\ Idle
    /\ ui' = syncMarkers(ui, eligible)
    /\ UNCHANGED <<netVars, dragging, jobs, historyVars>>

LanguageChanges ==
    /\ Idle
    /\ ui' = redraw(ui)
    /\ UNCHANGED <<netVars, dragging, jobs, historyVars>>

DragStarts ==
    /\ Idle
    /\ ~ui.hidden
    /\ ~dragging
    /\ dragging' = TRUE
    /\ UNCHANGED <<ui, netVars, jobs, historyVars>>

\* The sheet snaps to peek or full, shown again if it was closed meanwhile, or
\* to hidden, which closes the panel.
DragEnds(closing) ==
    /\ Idle
    /\ dragging
    /\ dragging' = FALSE
    /\ ui' = IF closing THEN closePanel(ui) ELSE [ui EXCEPT !.hidden = FALSE]
    /\ UNCHANGED <<netVars, jobs, historyVars>>

\* A fetch settles: the entry goes, the answer is cached, and whoever awaited
\* it resumes in order.
SearchSettles(z, outcome) ==
    /\ Idle
    /\ z \in DOMAIN searches
    /\ seen' = IF outcome = "ok" THEN seen \cup {z} ELSE seen
    /\ jobs' = [i \in 1 .. Len(searches[z]) |->
                    SearchJob(z, searches[z][i], outcome)]
    /\ searches' = Dropping(searches, z)
    /\ UNCHANGED <<ui, searchCtl, details, detailCtl, located, dragging,
                   historyVars>>

\* The details of a station are a new object, whatever was known before.
DetailsSettle(s, outcome) ==
    /\ Idle
    /\ s \in DOMAIN details
    /\ seen' = IF outcome = "ok" THEN seen \cup {s} ELSE seen
    /\ located' = IF outcome = "ok" /\ s \notin LocatedByServer
                  THEN located \ {s} ELSE located
    /\ jobs' = [i \in 1 .. Len(details[s]) |-> OpenJob(s, details[s][i], outcome)]
    /\ details' = Dropping(details, s)
    /\ UNCHANGED <<ui, searches, searchCtl, detailCtl, dragging, historyVars>>

-----------------------------------------------------------------------------
\* Jobs.
This == Head(jobs)
Rest == Tail(jobs)
Runs(what) == jobs # <<>> /\ This.do = what

SearchRejects ==
    /\ Runs("searchAborted")
    /\ LET z == This.zone IN
        /\ jobs' = Rest \o [i \in 1 .. Len(searches[z]) |->
                                SearchJob(z, searches[z][i], "aborted")]
        /\ searches' = Dropping(searches, z)
    /\ UNCHANGED <<ui, searchCtl, details, detailCtl, seen, located, dragging,
                   historyVars>>

DetailsReject ==
    /\ Runs("detailsAborted")
    /\ LET s == This.station IN
        /\ jobs' = Rest \o [i \in 1 .. Len(details[s]) |->
                                OpenJob(s, details[s][i], "aborted")]
        /\ details' = Dropping(details, s)
    /\ UNCHANGED <<ui, searches, searchCtl, detailCtl, seen, located, dragging,
                   historyVars>>

\* What follows a finished performSearch: back to ensureStationVisible, if it
\* was made there.  A failed or aborted search returns like any other.
Onward(s) == IF s = None THEN <<>> ELSE <<SelectJob(s)>>

\* performSearch resumes with the stations of its zone.
SearchInstalls ==
    /\ Runs("search")
    /\ This.outcome = "ok"
    /\ \E eligible \in SUBSET Stations :
        ui' = syncMarkers([ui EXCEPT !.stations = InZone[This.zone],
                                     !.centre = This.zone], eligible)
    /\ jobs' = Rest \o Onward(This.station)
    /\ UNCHANGED <<netVars, dragging, historyVars>>

SearchFails ==
    /\ Runs("search")
    /\ This.outcome # "ok"
    /\ lastFailed' = (lastFailed \/ (This.outcome = "error" /\ This.zone = lastAsked))
    /\ jobs' = Rest \o Onward(This.station)
    /\ UNCHANGED <<ui, netVars, dragging, lastAsked, lastOpened>>

\* state.radius and state.selectedFuelId: free until the first search.
Selected ==
    {t \in {Setting[z] : z \in Zones} : lastAsked # None => t = Setting[lastAsked]}

\* openStationById resumes with the details: the location is worked out and
\* stays on the (cached) object, and a station with no marker is searched for.
OpenSearchesHome ==
    /\ Runs("open")
    /\ This.outcome = "ok"
    /\ LET s == This.station IN
        /\ This.known \/ s \in located \cup LocatedByServer \cup ui.stations
        /\ located' = located \cup {s}
        /\ s \notin ui.markers
        /\ \E t \in Selected : performSearch(ui, HomeZone[s][t], s, Rest)
    /\ UNCHANGED <<details, detailCtl, seen, dragging, lastOpened>>

OpenInPlace ==
    /\ Runs("open")
    /\ This.outcome = "ok"
    /\ LET s == This.station
           hasLocation ==
               This.known \/ s \in located \cup LocatedByServer \cup ui.stations
       IN
        /\ hasLocation => s \in ui.markers
        /\ located' = IF hasLocation THEN located \cup {s} ELSE located
        /\ jobs' = Append(Rest, RenderJob(s))
    /\ UNCHANGED <<ui, searches, searchCtl, details, detailCtl, seen, dragging,
                   historyVars>>

slip_ErrorKeepsSpinner ==
    /\ Runs("open")
    /\ This.outcome # "ok"
    /\ jobs' = Rest
    /\ UNCHANGED <<ui, netVars, dragging, historyVars>>

OpenFails ==
    /\ Runs("open")
    /\ This.outcome # "ok"
    /\ ui' = IF This.outcome = "error" THEN [ui EXCEPT !.content = "error"] ELSE ui
    /\ jobs' = Rest
    /\ UNCHANGED <<netVars, dragging, historyVars>>

\* ensureStationVisible resumes after its search, whatever became of it.
SelectAfterSearch ==
    /\ Runs("select")
    /\ ui' = selectMarker(ui, This.station)
    /\ jobs' = Append(Rest, RenderJob(This.station))
    /\ UNCHANGED <<netVars, dragging, historyVars>>

\* openStationById resumes after ensureStationVisible.
RenderStation ==
    /\ Runs("render")
    /\ ui' = renderPanel(ui, This.station)
    /\ jobs' = Rest
    /\ UNCHANGED <<netVars, dragging, historyVars>>

RunJob ==
    \/ SearchRejects
    \/ DetailsReject
    \/ SearchInstalls
    \/ SearchFails
    \/ OpenSearchesHome
    \/ OpenInPlace
    \/ OpenFails
    \/ SelectAfterSearch
    \/ RenderStation

Settle ==
    \/ \E z \in Zones, o \in {"ok", "error"} : SearchSettles(z, o)
    \/ \E s \in Stations, o \in {"ok", "error"} : DetailsSettle(s, o)

Next ==
    \/ \E z \in Zones : UserSearches(z)
    \/ \E s \in Stations, known \in BOOLEAN : UserOpens(s, known)
    \/ UserCloses
    \/ \E eligible \in SUBSET Stations : MarkersRefresh(eligible)
    \/ LanguageChanges
    \/ DragStarts
    \/ \E closing \in BOOLEAN : DragEnds(closing)
    \/ Settle
    \/ RunJob

Spec == Init /\ [][Next]_vars

\* Queued jobs run, and every fetch settles one way or the other: the server
\* answers or times out.
FairSpec ==
    /\ Spec
    /\ WF_vars(RunJob)
    /\ \A z \in Zones : WF_vars(SearchSettles(z, "ok") \/ SearchSettles(z, "error"))
    /\ \A s \in Stations : WF_vars(DetailsSettle(s, "ok") \/ DetailsSettle(s, "error"))

-----------------------------------------------------------------------------
\* A search that a newer one has superseded never replaces the stations on the
\* map, even when the newer one is answered by the cache while the older fetch
\* is still on its way (api.js:70-74).
SupersededNeverInstalls == [][ui'.centre # ui.centre => ui'.centre = lastAsked]_vars

\* And the newest search is not lost either: once nothing is in flight the map
\* shows it unless it failed.  Joining a fetch, or aborting someone else's,
\* never costs the latest request its answer.
LatestSearchIsShown ==
    (Idle /\ DOMAIN searches = {} /\ ~lastFailed) => ui.centre = lastAsked

\* The map is dimmed only for a selected station that has a marker, and that
\* marker is the one drawn as selected: whatever removes or redraws markers,
\* from the selection to the last response (map.js:107-109, 208-210).
DimmedForSelection ==
    /\ ui.dimmed => ui.selected \in ui.markers
    /\ ui.dimmed => ui.lit = {ui.selected}
    /\ ui.lit \subseteq ui.markers \cap {ui.selected}

\* A visible spinner is replaced or closed in the end, whatever fetches fail or
\* are aborted meanwhile, unless the user goes on to another station.
SpinnerEnds ==
    \A s \in Stations :
        (~ui.hidden /\ ui.content = "loading" /\ lastOpened = s)
            ~> (ui.hidden \/ ui.content # "loading" \/ lastOpened # s)

\* "Only the latest selection matters ... so a stale response can't arrive later
\* and overwrite the panel with a different station" (api.js:111-113).
OnlyLatestSelectionRenders ==
    [][RenderStation => ui'.content = lastOpened]_vars
=============================================================================
