-------------------------- MODULE StationViewProofs --------------------------
(***************************************************************************)
(* The browser's map and station panel, for any stations, zones, fuels and *)
(* radii, and any number of continuations: the latest search is the one    *)
(* shown, a spinner has work behind it, and the dimming fits the selection.*)
(***************************************************************************)
EXTENDS StationView, SequenceTheorems, TLAPS

-----------------------------------------------------------------------------
\* The queue, as a set of jobs.

JobsIn(q) == {q[i] : i \in 1 .. Len(q)}

\* Nothing is in an empty queue.
LEMMA NoJobs == JobsIn(<<>>) = {} /\ <<>> \in Seq(Job)
  BY DEF JobsIn

\* What is in a queue is a job.
LEMMA QueueJobs ==
    ASSUME NEW q \in Seq(Job)
    PROVE  \A j \in JobsIn(q) : j \in Job
  BY DEF JobsIn

\* A queue of one job.
LEMMA OneJob ==
    ASSUME NEW j \in Job
    PROVE  <<j>> \in Seq(Job) /\ JobsIn(<<j>>) = {j}
  BY DEF JobsIn

\* One queue after another.
LEMMA TwoQueues ==
    ASSUME NEW q \in Seq(Job), NEW r \in Seq(Job)
    PROVE  q \o r \in Seq(Job) /\ JobsIn(q \o r) = JobsIn(q) \cup JobsIn(r)
<1>1. /\ q \o r \in Seq(Job) /\ Len(q \o r) = Len(q) + Len(r)
      /\ \A i \in 1 .. Len(q) + Len(r) :
            (q \o r)[i] = IF i <= Len(q) THEN q[i] ELSE r[i - Len(q)]
  BY ConcatProperties
<1>2. ASSUME NEW j \in JobsIn(q \o r)
      PROVE  j \in JobsIn(q) \cup JobsIn(r)
  <2>1. PICK i \in 1 .. Len(q) + Len(r) : (q \o r)[i] = j
    BY <1>1 DEF JobsIn
  <2>2. CASE i <= Len(q)
    BY <1>1, <2>1, <2>2 DEF JobsIn
  <2>3. CASE ~(i <= Len(q))
    <3>1. i - Len(q) \in 1 .. Len(r) /\ r[i - Len(q)] = j
      BY <1>1, <2>1, <2>3
    <3> QED
      BY <3>1 DEF JobsIn
  <2> QED
    BY <2>2, <2>3
<1>3. ASSUME NEW j \in JobsIn(q)
      PROVE  j \in JobsIn(q \o r)
  BY <1>1 DEF JobsIn
<1>4. ASSUME NEW j \in JobsIn(r)
      PROVE  j \in JobsIn(q \o r)
  <2>1. PICK i \in 1 .. Len(r) : r[i] = j
    BY DEF JobsIn
  <2>2. Len(q) + i \in 1 .. Len(q \o r) /\ (q \o r)[Len(q) + i] = j
    BY <1>1, <2>1
  <2> QED
    BY <2>2 DEF JobsIn
<1> QED
  BY <1>1, <1>2, <1>3, <1>4

\* One more job at the end.
LEMMA AnotherJob ==
    ASSUME NEW q \in Seq(Job), NEW j \in Job
    PROVE  Append(q, j) \in Seq(Job) /\ JobsIn(Append(q, j)) = JobsIn(q) \cup {j}
<1>1. Append(q, j) = q \o <<j>>
  OBVIOUS
<1> QED
  BY <1>1, OneJob, TwoQueues

\* The first job and the rest.
LEMMA FirstJob ==
    ASSUME NEW q \in Seq(Job), q # <<>>
    PROVE  /\ Head(q) \in Job /\ Tail(q) \in Seq(Job)
           /\ JobsIn(q) = {Head(q)} \cup JobsIn(Tail(q))
<1>1. /\ Len(q) \in Nat \ {0} /\ Head(q) = q[1] /\ Head(q) \in Job
      /\ Tail(q) \in Seq(Job) /\ Len(Tail(q)) = Len(q) - 1
      /\ \A i \in 1 .. Len(q) - 1 : Tail(q)[i] = q[i + 1]
  BY HeadTailProperties, EmptySeq
<1>2. ASSUME NEW j \in JobsIn(q)
      PROVE  j \in {Head(q)} \cup JobsIn(Tail(q))
  <2>1. PICK i \in 1 .. Len(q) : q[i] = j
    BY DEF JobsIn
  <2>2. CASE i = 1
    BY <1>1, <2>1, <2>2
  <2>3. CASE i # 1
    <3>1. i - 1 \in 1 .. Len(Tail(q)) /\ Tail(q)[i - 1] = j
      BY <1>1, <2>1, <2>3
    <3> QED
      BY <3>1 DEF JobsIn
  <2> QED
    BY <2>2, <2>3
<1>3. ASSUME NEW j \in JobsIn(Tail(q))
      PROVE  j \in JobsIn(q)
  BY <1>1 DEF JobsIn
<1>4. Head(q) \in JobsIn(q)
  BY <1>1 DEF JobsIn
<1> QED
  BY <1>1, <1>2, <1>3, <1>4

\* What a job of each kind is about.
LEMMA JobFacts ==
    ASSUME NEW j \in Job
    PROVE  /\ j.do = "search" =>
                 /\ j.zone \in Zones /\ j.station \in StationOrNone
                 /\ j.outcome \in Outcomes
                 /\ j = SearchJob(j.zone, j.station, j.outcome)
           /\ j.do = "open" =>
                 /\ j.station \in Stations /\ j.known \in BOOLEAN
                 /\ j.outcome \in Outcomes
                 /\ j = OpenJob(j.station, j.known, j.outcome)
           /\ j.do \in {"select", "render"} => j.station \in Stations
           /\ j.do = "searchAborted" => j.zone \in Zones /\ j = SearchAborted(j.zone)
           /\ j.do = "detailsAborted" =>
                 j.station \in Stations /\ j = DetailsAborted(j.station)
  BY DEF Job, SearchJob, OpenJob, SelectJob, RenderJob, SearchAborted, DetailsAborted

\* What each kind of job is called.
LEMMA JobNames ==
    /\ \A z \in Zones, s \in StationOrNone, o \in Outcomes :
          SearchJob(z, s, o) \in Job /\ SearchJob(z, s, o).do = "search"
    /\ \A s \in Stations, k \in BOOLEAN, o \in Outcomes :
          OpenJob(s, k, o) \in Job /\ OpenJob(s, k, o).do = "open"
    /\ \A s \in Stations : SelectJob(s) \in Job /\ SelectJob(s).do = "select"
    /\ \A s \in Stations : RenderJob(s) \in Job /\ RenderJob(s).do = "render"
    /\ \A z \in Zones : SearchAborted(z) \in Job /\ SearchAborted(z).do = "searchAborted"
    /\ \A s \in Stations :
          DetailsAborted(s) \in Job /\ DetailsAborted(s).do = "detailsAborted"
<1>1. ASSUME NEW z \in Zones, NEW s \in StationOrNone, NEW o \in Outcomes
      PROVE  SearchJob(z, s, o) \in Job
  BY DEF Job
<1>2. ASSUME NEW s \in Stations, NEW k \in BOOLEAN, NEW o \in Outcomes
      PROVE  OpenJob(s, k, o) \in Job
  BY DEF Job
<1>3. ASSUME NEW s \in Stations
      PROVE  SelectJob(s) \in Job /\ RenderJob(s) \in Job /\ DetailsAborted(s) \in Job
  BY DEF Job
<1>4. ASSUME NEW z \in Zones
      PROVE  SearchAborted(z) \in Job
  BY DEF Job
<1> QED
  BY <1>1, <1>2, <1>3, <1>4
     DEF SearchJob, OpenJob, SelectJob, RenderJob, SearchAborted, DetailsAborted

\* The jobs of a fetch that settles: one for each that awaits it.
LEMMA ResumedSearches ==
    ASSUME NEW z \in Zones, NEW w \in Seq(StationOrNone), NEW o \in Outcomes
    PROVE  LET q == [i \in 1 .. Len(w) |-> SearchJob(z, w[i], o)]
           IN  /\ q \in Seq(Job) /\ Len(q) = Len(w)
               /\ \A j \in JobsIn(q) :
                     j.do = "search" /\ j.zone = z /\ j.outcome = o
               /\ \A i \in 1 .. Len(w) : SearchJob(z, w[i], o) \in JobsIn(q)
<1> DEFINE q == [i \in 1 .. Len(w) |-> SearchJob(z, w[i], o)]
<1>1. \A i \in 1 .. Len(w) : SearchJob(z, w[i], o) \in Job
  BY JobNames
<1>2. q \in Seq(Job) /\ Len(q) = Len(w)
  BY <1>1
<1>3. JobsIn(q) = {SearchJob(z, w[i], o) : i \in 1 .. Len(w)}
  BY <1>2 DEF JobsIn
<1> QED
  BY <1>2, <1>3 DEF SearchJob

\* The same for the details of a station.
LEMMA ResumedOpenings ==
    ASSUME NEW s \in Stations, NEW w \in Seq(BOOLEAN), NEW o \in Outcomes
    PROVE  LET q == [i \in 1 .. Len(w) |-> OpenJob(s, w[i], o)]
           IN  /\ q \in Seq(Job) /\ Len(q) = Len(w)
               /\ \A j \in JobsIn(q) :
                     j.do = "open" /\ j.station = s /\ j.outcome = o
               /\ \A i \in 1 .. Len(w) : OpenJob(s, w[i], o) \in JobsIn(q)
<1> DEFINE q == [i \in 1 .. Len(w) |-> OpenJob(s, w[i], o)]
<1>1. \A i \in 1 .. Len(w) : OpenJob(s, w[i], o) \in Job
  BY JobNames
<1>2. q \in Seq(Job) /\ Len(q) = Len(w)
  BY <1>1
<1>3. JobsIn(q) = {OpenJob(s, w[i], o) : i \in 1 .. Len(w)}
  BY <1>2 DEF JobsIn
<1> QED
  BY <1>2, <1>3 DEF OpenJob

-----------------------------------------------------------------------------
\* The inductive invariant, in parts that speak of the set Q of queued jobs.

Answers(j) == j.do = "search" /\ j.outcome = "ok"
Opens(j) == j.do = "open" /\ j.outcome = "ok"
Aborts(j) == j.do \in {"searchAborted", "detailsAborted"}

\* No fetch is aborted twice.
AbortedOnce(q) ==
    \A i, k \in 1 .. Len(q) : Aborts(q[i]) /\ q[i] = q[k] => i = k

\* A fetch under way is the one that was asked for last, and its controller is
\* the current one, or it is about to be aborted.
Fetching(Q) ==
    /\ \A z \in DOMAIN searches :
          /\ Len(searches[z]) > 0
          /\ SearchAborted(z) \in Q \/ (z = lastAsked /\ z = searchCtl)
    /\ \A j \in Q : j.do = "searchAborted" =>
          j.zone \in DOMAIN searches /\ j.zone # searchCtl /\ j.zone # lastAsked
    /\ lastAsked = None => DOMAIN searches = {}

\* The same of details, as far as it is needed.
Detailing(Q) ==
    /\ \A s \in DOMAIN details : Len(details[s]) > 0
    /\ \A j \in Q : j.do = "detailsAborted" =>
          j.station \in DOMAIN details /\ j.station # detailCtl /\ j.station # lastOpened

HomeOf(s) == HomeZone[s][Setting[lastAsked]]

\* What is to be installed is what was asked for last.  An opening that goes on
\* may search once more: all of those go on for one station, and once any search
\* has been made or aborted among them, it was for that station's home.
Latest(Q) ==
    /\ \A j \in Q : Answers(j) => j.zone = lastAsked
    /\ \A j, k \in Q : Opens(j) /\ Opens(k) => j.station = k.station
    /\ \A j, k \in Q : Opens(j) /\ (Answers(k) \/ k.do = "searchAborted")
                           => lastAsked = HomeOf(j.station)

\* The latest search is shown, has failed, or is still on its way.
Coming(Q) ==
    \/ lastFailed
    \/ ui.centre = lastAsked
    \/ lastAsked \in DOMAIN searches
    \/ \E j \in Q : /\ j.do = "search" /\ j.zone = lastAsked
                    /\ j.outcome \in {"ok", "error"}

Opening(j) == j.do \in {"search", "open", "select", "render"}

\* Something goes on that ends in the panel of s.
Waits(s, Q) ==
    \/ s \in DOMAIN details
    \/ \E z \in DOMAIN searches : \E i \in 1 .. Len(searches[z]) : searches[z][i] = s
    \/ \E j \in Q : Opening(j) /\ j.station = s

\* A spinner has work behind it, for the station opened last: no fetch that was
\* aborted or has failed leaves the panel waiting for nothing.  What SpinnerEnds
\* says of the end holds of every moment before it.
Working(Q) ==
    /\ ui.content = "loading" => lastOpened # None /\ Waits(lastOpened, Q)
    /\ \A j \in Q : j.do = "open" /\ j.outcome = "aborted" => j.station # lastOpened

Parts ==
    /\ AbortedOnce(jobs)
    /\ Fetching(JobsIn(jobs))
    /\ Detailing(JobsIn(jobs))
    /\ Latest(JobsIn(jobs))
    /\ Coming(JobsIn(jobs))
    /\ Working(JobsIn(jobs))
    /\ DimmedForSelection

IInv == TypeOK /\ Parts

\* Jobs that abort nothing abort nothing twice.
LEMMA NothingTwice ==
    ASSUME NEW q \in Seq(Job), \A j \in JobsIn(q) : ~Aborts(j)
    PROVE  AbortedOnce(q)
  BY DEF AbortedOnce, JobsIn

\* Nor does a single job.
LEMMA OneOnce == \A j : AbortedOnce(<<j>>)
  BY DEF AbortedOnce

\* Two queues that abort different fetches.
LEMMA BothOnce ==
    ASSUME NEW q \in Seq(Job), NEW r \in Seq(Job), AbortedOnce(q), AbortedOnce(r),
           \A j \in JobsIn(q) \cap JobsIn(r) : ~Aborts(j)
    PROVE  AbortedOnce(q \o r)
<1>1. /\ Len(q \o r) = Len(q) + Len(r) /\ Len(q) \in Nat /\ Len(r) \in Nat
      /\ \A i \in 1 .. Len(q) + Len(r) :
            (q \o r)[i] = IF i <= Len(q) THEN q[i] ELSE r[i - Len(q)]
  BY ConcatProperties
<1> SUFFICES ASSUME NEW i \in 1 .. Len(q \o r), NEW k \in 1 .. Len(q \o r),
                    Aborts((q \o r)[i]), (q \o r)[i] = (q \o r)[k]
             PROVE  i = k
  BY DEF AbortedOnce
<1>2. CASE i <= Len(q) /\ k <= Len(q)
  BY <1>1, <1>2 DEF AbortedOnce
<1>3. CASE ~(i <= Len(q)) /\ ~(k <= Len(q))
  <2>1. /\ i - Len(q) \in 1 .. Len(r) /\ k - Len(q) \in 1 .. Len(r)
        /\ (q \o r)[i] = r[i - Len(q)] /\ (q \o r)[k] = r[k - Len(q)]
    BY <1>1, <1>3
  <2>2. i - Len(q) = k - Len(q)
    BY <2>1 DEF AbortedOnce
  <2> QED
    BY <1>1, <2>2
<1>4. CASE i <= Len(q) /\ ~(k <= Len(q))
  BY <1>1, <1>4 DEF JobsIn
<1>5. CASE ~(i <= Len(q)) /\ k <= Len(q)
  BY <1>1, <1>5 DEF JobsIn
<1> QED
  BY <1>2, <1>3, <1>4, <1>5

\* The rest of a queue whose first job runs.
LEMMA RestOnce ==
    ASSUME NEW q \in Seq(Job), q # <<>>, AbortedOnce(q)
    PROVE  AbortedOnce(Tail(q)) /\ (Aborts(Head(q)) => Head(q) \notin JobsIn(Tail(q)))
<1>1. /\ Len(q) \in Nat \ {0} /\ Head(q) = q[1]
      /\ Len(Tail(q)) = Len(q) - 1
      /\ \A i \in 1 .. Len(q) - 1 : Tail(q)[i] = q[i + 1]
  BY HeadTailProperties, EmptySeq
<1>2. \A i \in 1 .. Len(q) - 1 : i + 1 \in 1 .. Len(q) /\ i + 1 # 1
  BY <1>1
<1>3. AbortedOnce(Tail(q))
  BY <1>1, <1>2 DEF AbortedOnce
<1>4. ASSUME Aborts(Head(q)), Head(q) \in JobsIn(Tail(q))
      PROVE  FALSE
  BY <1>1, <1>2, <1>4 DEF AbortedOnce, JobsIn
<1> QED
  BY <1>3, <1>4

-----------------------------------------------------------------------------
\* Types.

Screens ==
    [hidden   : BOOLEAN,
     content  : {"blank", "loading", "error"} \cup Stations,
     current  : StationOrNone,
     selected : StationOrNone,
     stations : SUBSET Stations,
     markers  : SUBSET Stations,
     lit      : SUBSET Stations,
     dimmed   : BOOLEAN,
     centre   : Zones \cup {None}]

\* What happens to the screen keeps its type.
LEMMA ScreenTypes ==
    ASSUME NEW u \in Screens
    PROVE  /\ \A s \in StationOrNone : selectMarker(u, s) \in Screens
           /\ closePanel(u) \in Screens
           /\ showPanelLoading(u) \in Screens
           /\ \A s \in Stations : renderPanel(u, s) \in Screens
           /\ redraw(u) \in Screens
           /\ \A eligible \in SUBSET Stations : syncMarkers(u, eligible) \in Screens
           /\ \A z \in Zones :
                 [u EXCEPT !.stations = InZone[z], !.centre = z] \in Screens
           /\ [u EXCEPT !.content = "error"] \in Screens
           /\ [u EXCEPT !.hidden = FALSE] \in Screens
<1> USE DEF Screens
<1>1. ASSUME NEW v \in Screens, NEW s \in StationOrNone
      PROVE  selectMarker(v, s) \in Screens
  <2>1. (v.lit \ {v.selected}) \cup ({s} \cap v.markers) \in SUBSET Stations
    OBVIOUS
  <2>2. (s \in v.markers) \in BOOLEAN
    OBVIOUS
  <2>3. ASSUME NEW l \in SUBSET Stations, NEW d \in BOOLEAN
        PROVE  [v EXCEPT !.selected = s, !.lit = l, !.dimmed = d] \in Screens
    OBVIOUS
  <2> QED
    BY <2>1, <2>2, <2>3, Zenon DEF selectMarker
<1>2. closePanel(u) \in Screens
  <2>1. [u EXCEPT !.hidden = TRUE, !.current = None] \in Screens
    BY DEF StationOrNone
  <2> QED
    BY <1>1, <2>1 DEF closePanel, StationOrNone
<1>3. showPanelLoading(u) \in Screens
  BY DEF showPanelLoading
<1>4. ASSUME NEW s \in Stations
      PROVE  renderPanel(u, s) \in Screens
  BY DEF renderPanel, StationOrNone
<1>5. redraw(u) \in Screens
  BY DEF redraw, StationOrNone
<1>6. ASSUME NEW eligible \in SUBSET Stations
      PROVE  syncMarkers(u, eligible) \in Screens
  <2>1. Renderable(u) \subseteq Stations
    BY PricedAssumption DEF Renderable
  <2> QED
    BY <2>1, ZenonT(40) DEF syncMarkers, StationOrNone
<1>7. ASSUME NEW z \in Zones
      PROVE  [u EXCEPT !.stations = InZone[z], !.centre = z] \in Screens
  BY InZoneAssumption
<1>8. [u EXCEPT !.content = "error"] \in Screens /\ [u EXCEPT !.hidden = FALSE] \in Screens
  OBVIOUS
<1> QED
  BY <1>1, <1>2, <1>3, <1>4, <1>5, <1>6, <1>7, <1>8

\* The fetches under way: key -> those that await it.
Table(f, keys, S) == DOMAIN f \subseteq keys /\ f \in [DOMAIN f -> Seq(S)]

\* Entries are added, extended and dropped.
LEMMA TableTypes ==
    ASSUME NEW keys, NEW S, NEW f, Table(f, keys, S), NEW k \in keys
    PROVE  /\ \A x \in S : Table(With(f, k, <<x>>), keys, S)
           /\ \A x \in S : k \in DOMAIN f =>
                 Table([f EXCEPT ![k] = Append(@, x)], keys, S)
           /\ Table(Dropping(f, k), keys, S)
<1> USE DEF Table
<1>1. ASSUME NEW x \in S
      PROVE  Table(With(f, k, <<x>>), keys, S)
  BY DEF With
<1>2. ASSUME NEW x \in S, k \in DOMAIN f
      PROVE  Table([f EXCEPT ![k] = Append(@, x)], keys, S)
  <2>1. Append(f[k], x) \in Seq(S)
    BY <1>2
  <2> QED
    BY <1>2, <2>1
<1>3. Table(Dropping(f, k), keys, S)
  BY DEF Dropping
<1> QED
  BY <1>1, <1>2, <1>3

\* The parts of the type invariant.
LEMMA TypeParts ==
    TypeOK <=> /\ ui \in Screens
               /\ Table(searches, Zones, StationOrNone)
               /\ searchCtl \in Zones \cup {None}
               /\ Table(details, Stations, BOOLEAN)
               /\ detailCtl \in StationOrNone
               /\ seen \subseteq Zones \cup Stations
               /\ located \subseteq Stations
               /\ dragging \in BOOLEAN
               /\ jobs \in Seq(Job)
               /\ lastAsked \in Zones \cup {None}
               /\ lastFailed \in BOOLEAN
               /\ lastOpened \in StationOrNone
  BY DEF TypeOK, Screens, Table

\* What aborting a fetch puts in the queue.
LEMMA AbortFacts ==
    ASSUME TypeOK
    PROVE  /\ SearchAbort \in Seq(Job) /\ DetailsAbort \in Seq(Job)
           /\ JobsIn(SearchAbort) =
                 IF searchCtl \in DOMAIN searches THEN {SearchAborted(searchCtl)} ELSE {}
           /\ JobsIn(DetailsAbort) =
                 IF detailCtl \in DOMAIN details THEN {DetailsAborted(detailCtl)} ELSE {}
<1>1. DOMAIN searches \subseteq Zones /\ DOMAIN details \subseteq Stations
  BY TypeParts DEF Table
<1>2. ASSUME searchCtl \in DOMAIN searches
      PROVE  SearchAborted(searchCtl) \in Job
  BY <1>1, <1>2, JobNames
<1>3. ASSUME detailCtl \in DOMAIN details
      PROVE  DetailsAborted(detailCtl) \in Job
  BY <1>1, <1>3, JobNames
<1> QED
  BY <1>2, <1>3, NoJobs, OneJob DEF SearchAbort, DetailsAbort

\* performSearch leaves a queue that holds what it held, an abortion and, where
\* the cache answers, the search itself.
LEMMA SearchTypes ==
    ASSUME TypeOK, NEW u \in Screens, NEW z \in Zones, NEW s \in StationOrNone,
           NEW q \in Seq(Job), performSearch(u, z, s, q)
    PROVE  /\ ui' \in Screens
           /\ Table(searches', Zones, StationOrNone)
           /\ searchCtl' \in Zones \cup {None}
           /\ jobs' \in Seq(Job)
           /\ lastAsked' = z /\ lastFailed' = FALSE
<1>1. /\ Table(searches, Zones, StationOrNone) /\ searchCtl \in Zones \cup {None}
      /\ SearchAbort \in Seq(Job)
  BY TypeParts, AbortFacts
<1>2. SearchJob(z, s, "ok") \in Job
  BY JobNames DEF Outcomes
<1>3. CASE JoinSearch(z, s, q)
  BY <1>1, <1>3, ScreenTypes, TableTypes DEF performSearch, JoinSearch
<1>4. CASE SearchHit(z, s, q)
  <2>1. <<SearchJob(z, s, "ok")>> \in Seq(Job)
    BY <1>2
  <2>2. q \o SearchAbort \in Seq(Job)
    BY <1>1
  <2>3. jobs' \in Seq(Job)
    BY <1>4, <2>1, <2>2 DEF SearchHit
  <2> QED
    BY <1>1, <1>4, <2>3, ScreenTypes DEF performSearch, SearchHit
<1>5. CASE SearchFetch(z, s, q)
  <2>1. jobs' \in Seq(Job)
    BY <1>1, <1>5 DEF SearchFetch
  <2> QED
    BY <1>1, <1>5, <2>1, ScreenTypes, TableTypes DEF performSearch, SearchFetch
<1> QED
  BY <1>3, <1>4, <1>5 DEF performSearch

\* The same of the next state.
LEMMA NextTypeParts ==
    ASSUME ui' \in Screens, Table(searches', Zones, StationOrNone),
           searchCtl' \in Zones \cup {None}, Table(details', Stations, BOOLEAN),
           detailCtl' \in StationOrNone, seen' \subseteq Zones \cup Stations,
           located' \subseteq Stations, dragging' \in BOOLEAN, jobs' \in Seq(Job),
           lastAsked' \in Zones \cup {None}, lastFailed' \in BOOLEAN,
           lastOpened' \in StationOrNone
    PROVE  TypeOK'
  BY DEF TypeOK, Screens, Table

\* The zone around a station is one for the setting that was asked for.
LEMMA HomeIsHome ==
    ASSUME NEW s \in Stations, NEW t \in {Setting[z] : z \in Zones}
    PROVE  HomeZone[s][t] \in Zones /\ Setting[HomeZone[s][t]] = t
<1>1. HomeZone[s] \in [{Setting[z] : z \in Zones} -> Zones]
  BY HomeZoneAssumption
<1>2. t \in DOMAIN HomeZone[s]
  BY <1>1
<1> QED
  BY <1>1, <1>2, HomeZoneAssumption

\* Every step keeps the types.
LEMMA NextTypes == IInv /\ [Next]_vars => TypeOK'
<1> SUFFICES ASSUME IInv, [Next]_vars
             PROVE  TypeOK'
  OBVIOUS
<1>t. TypeOK
  BY DEF IInv
<1> USE <1>t DEF netVars, historyVars
<1>0. /\ ui \in Screens
      /\ Table(searches, Zones, StationOrNone)
      /\ searchCtl \in Zones \cup {None}
      /\ Table(details, Stations, BOOLEAN)
      /\ detailCtl \in StationOrNone
      /\ seen \subseteq Zones \cup Stations
      /\ located \subseteq Stations
      /\ dragging \in BOOLEAN
      /\ jobs \in Seq(Job)
      /\ lastAsked \in Zones \cup {None}
      /\ lastFailed \in BOOLEAN
      /\ lastOpened \in StationOrNone
      /\ None \in StationOrNone /\ Stations \subseteq StationOrNone
  BY TypeParts DEF StationOrNone
<1>1. ASSUME NEW z \in Zones, UserSearches(z)
      PROVE  TypeOK'
  <2>1. performSearch(ui, z, None, <<>>)
    BY <1>1 DEF UserSearches
  <2> QED
    BY <1>0, <1>1, <2>1, NoJobs, SearchTypes, NextTypeParts DEF UserSearches
<1>2. ASSUME NEW s \in Stations, NEW known \in BOOLEAN, UserOpens(s, known)
      PROVE  TypeOK'
  <2>1. showPanelLoading(selectMarker(ui, s)) \in Screens
    BY <1>0, ScreenTypes
  <2>2. OpenJob(s, known, "ok") \in Job /\ DetailsAbort \in Seq(Job)
    BY JobNames, AbortFacts DEF Outcomes
  <2>3. /\ Table(details', Stations, BOOLEAN) /\ detailCtl' \in StationOrNone
        /\ jobs' \in Seq(Job)
    <3>1. CASE JoinDetails(s, known)
      BY <1>0, <3>1, TableTypes DEF JoinDetails
    <3>2. CASE DetailsHit(s, known)
      <4>1. <<OpenJob(s, known, "ok")>> \in Seq(Job)
        BY <2>2
      <4>2. jobs' \in Seq(Job)
        BY <2>2, <3>2, <4>1 DEF DetailsHit
      <4> QED
        BY <1>0, <3>2, <4>2 DEF DetailsHit
    <3>3. CASE DetailsFetch(s, known)
      BY <1>0, <2>2, <3>3, TableTypes DEF DetailsFetch
    <3> QED
      BY <1>2, <3>1, <3>2, <3>3 DEF UserOpens
  <2> QED
    BY <1>0, <1>2, <2>1, <2>3, NextTypeParts DEF UserOpens
<1>3. CASE UserCloses
  BY <1>0, <1>3, ScreenTypes, NextTypeParts DEF UserCloses
<1>4. ASSUME NEW eligible \in SUBSET Stations, MarkersRefresh(eligible)
      PROVE  TypeOK'
  BY <1>0, <1>4, ScreenTypes, NextTypeParts DEF MarkersRefresh
<1>5. CASE LanguageChanges
  BY <1>0, <1>5, ScreenTypes, NextTypeParts DEF LanguageChanges
<1>6. CASE DragStarts
  BY <1>0, <1>6, NextTypeParts DEF DragStarts
<1>7. ASSUME NEW closing \in BOOLEAN, DragEnds(closing)
      PROVE  TypeOK'
  BY <1>0, <1>7, ScreenTypes, NextTypeParts DEF DragEnds
<1>8. ASSUME NEW z \in Zones, NEW o \in {"ok", "error"}, SearchSettles(z, o)
      PROVE  TypeOK'
  <2>1. searches[z] \in Seq(StationOrNone) /\ o \in Outcomes
    BY <1>0, <1>8 DEF SearchSettles, Table, Outcomes
  <2>2. jobs' \in Seq(Job)
    BY <1>8, <2>1, ResumedSearches DEF SearchSettles
  <2>3. Table(searches', Zones, StationOrNone) /\ seen' \subseteq Zones \cup Stations
    BY <1>0, <1>8, TableTypes DEF SearchSettles
  <2> QED
    BY <1>0, <1>8, <2>2, <2>3, NextTypeParts DEF SearchSettles
<1>9. ASSUME NEW s \in Stations, NEW o \in {"ok", "error"}, DetailsSettle(s, o)
      PROVE  TypeOK'
  <2>1. details[s] \in Seq(BOOLEAN) /\ o \in Outcomes
    BY <1>0, <1>9 DEF DetailsSettle, Table, Outcomes
  <2>2. jobs' \in Seq(Job)
    BY <1>9, <2>1, ResumedOpenings DEF DetailsSettle
  <2>3. /\ Table(details', Stations, BOOLEAN) /\ seen' \subseteq Zones \cup Stations
        /\ located' \subseteq Stations
    BY <1>0, <1>9, TableTypes DEF DetailsSettle
  <2> QED
    BY <1>0, <1>9, <2>2, <2>3, NextTypeParts DEF DetailsSettle
<1>10. ASSUME jobs # <<>>
       PROVE  /\ This \in Job /\ Rest \in Seq(Job) /\ This \in JobsIn(jobs)
              /\ \A s \in Stations : Append(Rest, RenderJob(s)) \in Seq(Job)
              /\ \A s \in StationOrNone : Rest \o Onward(s) \in Seq(Job)
  <2>1. /\ This \in Job /\ Rest \in Seq(Job) /\ This \in JobsIn(jobs)
    BY <1>0, <1>10, FirstJob DEF This, Rest
  <2>2. \A s \in StationOrNone : Onward(s) \in Seq(Job)
    <3>1. \A s \in Stations : SelectJob(s) \in Job
      BY JobNames
    <3> QED
      BY <3>1, OneJob, NoJobs DEF Onward, StationOrNone
  <2> QED
    BY <2>1, <2>2, JobNames, AnotherJob, TwoQueues
<1>11. CASE SearchRejects
  <2> DEFINE z == This.zone
  <2>1. This \in Job /\ This.do = "searchAborted" /\ Rest \in Seq(Job)
    BY <1>10, <1>11 DEF SearchRejects, Runs
  <2>2. z \in Zones /\ z \in DOMAIN searches
    BY <1>10, <1>11, <2>1, JobFacts DEF SearchRejects, Runs, IInv, Parts, Fetching
  <2>3. searches[z] \in Seq(StationOrNone) /\ "aborted" \in Outcomes
    BY <1>0, <2>2 DEF Table, Outcomes
  <2>4. [i \in 1 .. Len(searches[z]) |-> SearchJob(z, searches[z][i], "aborted")]
            \in Seq(Job)
    BY <2>2, <2>3, ResumedSearches
  <2>5. jobs' \in Seq(Job)
    BY <1>11, <2>1, <2>4, TwoQueues DEF SearchRejects
  <2>6. Table(searches', Zones, StationOrNone)
    BY <1>0, <1>11, <2>2, TableTypes DEF SearchRejects
  <2> QED
    BY <1>0, <1>11, <2>5, <2>6, NextTypeParts DEF SearchRejects
<1>12. CASE DetailsReject
  <2> DEFINE s == This.station
  <2>1. This \in Job /\ This.do = "detailsAborted" /\ Rest \in Seq(Job)
    BY <1>10, <1>12 DEF DetailsReject, Runs
  <2>2. s \in Stations /\ s \in DOMAIN details
    BY <1>10, <1>12, <2>1, JobFacts DEF DetailsReject, Runs, IInv, Parts, Detailing
  <2>3. details[s] \in Seq(BOOLEAN) /\ "aborted" \in Outcomes
    BY <1>0, <2>2 DEF Table, Outcomes
  <2>4. [i \in 1 .. Len(details[s]) |-> OpenJob(s, details[s][i], "aborted")]
            \in Seq(Job)
    BY <2>2, <2>3, ResumedOpenings
  <2>5. jobs' \in Seq(Job)
    BY <1>12, <2>1, <2>4, TwoQueues DEF DetailsReject
  <2>6. Table(details', Stations, BOOLEAN)
    BY <1>0, <1>12, <2>2, TableTypes DEF DetailsReject
  <2> QED
    BY <1>0, <1>12, <2>5, <2>6, NextTypeParts DEF DetailsReject
<1>13. CASE SearchInstalls
  <2>1. This.zone \in Zones /\ This.station \in StationOrNone
    BY <1>10, <1>13, JobFacts DEF SearchInstalls, Runs
  <2>2. PICK eligible \in SUBSET Stations :
           ui' = syncMarkers([ui EXCEPT !.stations = InZone[This.zone],
                                        !.centre = This.zone], eligible)
    BY <1>13 DEF SearchInstalls
  <2>3. ui' \in Screens
    BY <1>0, <2>1, <2>2, ScreenTypes
  <2> QED
    BY <1>0, <1>10, <1>13, <2>1, <2>3, NextTypeParts DEF SearchInstalls, Runs
<1>14. CASE SearchFails
  <2>1. This.station \in StationOrNone
    BY <1>10, <1>14, JobFacts DEF SearchFails, Runs
  <2>2. lastFailed' \in BOOLEAN
    BY <1>0, <1>14 DEF SearchFails
  <2> QED
    BY <1>0, <1>10, <1>14, <2>1, <2>2, NextTypeParts DEF SearchFails, Runs
<1>15. CASE OpenSearchesHome
  <2> DEFINE s == This.station
  <2>1. s \in Stations /\ Rest \in Seq(Job)
    BY <1>10, <1>15, JobFacts DEF OpenSearchesHome, Runs
  <2>2. PICK t \in Selected : performSearch(ui, HomeZone[s][t], s, Rest)
    BY <1>15 DEF OpenSearchesHome
  <2>3. HomeZone[s][t] \in Zones
    BY <2>1, HomeIsHome DEF Selected
  <2>4. located' \subseteq Stations
    BY <1>0, <1>15, <2>1 DEF OpenSearchesHome
  <2> QED
    BY <1>0, <1>15, <2>1, <2>2, <2>3, <2>4, SearchTypes, NextTypeParts
       DEF OpenSearchesHome
<1>16. CASE OpenInPlace
  <2>1. This.station \in Stations
    BY <1>10, <1>16, JobFacts DEF OpenInPlace, Runs
  <2>2. located' \subseteq Stations /\ jobs' = Append(Rest, RenderJob(This.station))
    BY <1>0, <1>16, <2>1 DEF OpenInPlace
  <2> QED
    BY <1>0, <1>10, <1>16, <2>1, <2>2, NextTypeParts DEF OpenInPlace, Runs
<1>17. CASE OpenFails
  <2>1. ui' \in Screens
    BY <1>0, <1>17, ScreenTypes DEF OpenFails
  <2> QED
    BY <1>0, <1>10, <1>17, <2>1, NextTypeParts DEF OpenFails, Runs
<1>18. CASE SelectAfterSearch
  <2>1. This.station \in Stations
    BY <1>10, <1>18, JobFacts DEF SelectAfterSearch, Runs
  <2> QED
    BY <1>0, <1>10, <1>18, <2>1, ScreenTypes, NextTypeParts DEF SelectAfterSearch, Runs
<1>19. CASE RenderStation
  <2>1. This.station \in Stations
    BY <1>10, <1>19, JobFacts DEF RenderStation, Runs
  <2> QED
    BY <1>0, <1>10, <1>19, <2>1, ScreenTypes, NextTypeParts DEF RenderStation, Runs
<1>20. CASE UNCHANGED vars
  BY <1>0, <1>20, NextTypeParts DEF vars
<1> QED
  BY <1>1, <1>2, <1>3, <1>4, <1>5, <1>6, <1>7, <1>8, <1>9, <1>11, <1>12, <1>13, <1>14,
     <1>15, <1>16, <1>17, <1>18, <1>19, <1>20 DEF Next, Settle, RunJob

-----------------------------------------------------------------------------
\* What performSearch does to the fetches and to the set of jobs: it joins a
\* fetch, or is answered by the cache, or begins a fetch.

Aborting == IF searchCtl \in DOMAIN searches THEN {SearchAborted(searchCtl)} ELSE {}

Joined(z, s, Q) ==
    /\ z \in DOMAIN searches
    /\ searches' = [searches EXCEPT ![z] = Append(@, s)]
    /\ searchCtl' = searchCtl
    /\ JobsIn(jobs') = Q

Answered(z, s, Q) ==
    /\ z \notin DOMAIN searches
    /\ searches' = searches
    /\ searchCtl' = None
    /\ JobsIn(jobs') = Q \cup Aborting \cup {SearchJob(z, s, "ok")}

Begun(z, s, Q) ==
    /\ z \notin DOMAIN searches
    /\ searches' = With(searches, z, <<s>>)
    /\ searchCtl' = z
    /\ JobsIn(jobs') = Q \cup Aborting

\* The search is made with the jobs q still to run.
LEMMA SearchEffect ==
    ASSUME TypeOK, NEW u, NEW z \in Zones, NEW s \in StationOrNone, NEW q \in Seq(Job),
           performSearch(u, z, s, q), AbortedOnce(q), Fetching(JobsIn(q))
    PROVE  /\ Joined(z, s, JobsIn(q)) \/ Answered(z, s, JobsIn(q)) \/ Begun(z, s, JobsIn(q))
           /\ AbortedOnce(jobs')
           /\ ui' = closePanel(u) /\ lastAsked' = z /\ lastFailed' = FALSE
<1>1. /\ SearchAbort \in Seq(Job) /\ JobsIn(SearchAbort) = Aborting
      /\ AbortedOnce(SearchAbort)
  BY AbortFacts, OneOnce, NothingTwice, NoJobs DEF Aborting, SearchAbort
<1>2. \A j \in Aborting : j \notin JobsIn(q)
  <2> SUFFICES ASSUME searchCtl \in DOMAIN searches, SearchAborted(searchCtl) \in JobsIn(q)
               PROVE  FALSE
    BY DEF Aborting
  <2> QED
    BY DEF Fetching, SearchAborted
<1>3. /\ q \o SearchAbort \in Seq(Job) /\ JobsIn(q \o SearchAbort) = JobsIn(q) \cup Aborting
      /\ AbortedOnce(q \o SearchAbort)
  BY <1>1, <1>2, TwoQueues, BothOnce
<1>4. CASE JoinSearch(z, s, q)
  BY <1>4 DEF performSearch, JoinSearch, Joined
<1>5. CASE SearchHit(z, s, q)
  <2> DEFINE j == SearchJob(z, s, "ok")
  <2>1. j \in Job /\ j.do = "search"
    BY JobNames DEF Outcomes
  <2>2. <<j>> \in Seq(Job) /\ JobsIn(<<j>>) = {j} /\ AbortedOnce(<<j>>) /\ ~Aborts(j)
    BY <2>1, OneJob, OneOnce DEF Aborts
  <2>3. jobs' = (q \o SearchAbort) \o <<j>>
    BY <1>5 DEF SearchHit
  <2> HIDE DEF j
  <2>4. JobsIn(jobs') = JobsIn(q) \cup Aborting \cup {j} /\ AbortedOnce(jobs')
    BY <1>3, <2>2, <2>3, TwoQueues, BothOnce
  <2> QED
    BY <1>5, <2>4 DEF performSearch, SearchHit, Answered, j
<1>6. CASE SearchFetch(z, s, q)
  BY <1>3, <1>6 DEF performSearch, SearchFetch, Begun
<1> QED
  BY <1>4, <1>5, <1>6 DEF performSearch

\* A search that is made costs no other search those that wait for it.
LEMMA SameWaiting ==
    ASSUME Table(searches, Zones, StationOrNone), NEW z \in Zones,
           NEW s \in StationOrNone, NEW Q,
           Joined(z, s, Q) \/ Answered(z, s, Q) \/ Begun(z, s, Q),
           NEW y \in DOMAIN searches, NEW i \in 1 .. Len(searches[y])
    PROVE  /\ y \in DOMAIN searches' /\ i \in 1 .. Len(searches'[y])
           /\ searches'[y][i] = searches[y][i]
<1>1. searches[y] \in Seq(StationOrNone)
  BY DEF Table
<1>2. CASE Joined(z, s, Q)
  <2>1. CASE y = z
    <3>1. searches'[y] = Append(searches[y], s)
      BY <1>2, <2>1 DEF Joined
    <3> QED
      BY <1>1, <1>2, <3>1 DEF Joined
  <2>2. CASE y # z
    BY <1>2, <2>2 DEF Joined
  <2> QED
    BY <2>1, <2>2
<1>3. CASE Answered(z, s, Q)
  BY <1>3 DEF Answered
<1>4. CASE Begun(z, s, Q)
  BY <1>4 DEF Begun, With
<1> QED
  BY <1>2, <1>3, <1>4

\* Nor whatever else waits for the panel of a station.
Awaited(t) ==
    t \in DOMAIN details
        \/ \E y \in DOMAIN searches : \E i \in 1 .. Len(searches[y]) : searches[y][i] = t

\* The same, after a search is made.
LEMMA StillAwaited ==
    ASSUME Table(searches, Zones, StationOrNone), NEW z \in Zones,
           NEW s \in StationOrNone, NEW Q,
           Joined(z, s, Q) \/ Answered(z, s, Q) \/ Begun(z, s, Q),
           details' = details, Awaited(lastOpened), lastOpened' = lastOpened
    PROVE  Awaited(lastOpened)'
<1>1. CASE lastOpened \in DOMAIN details
  BY <1>1 DEF Awaited
<1>2. ASSUME NEW y \in DOMAIN searches, NEW i \in 1 .. Len(searches[y]),
             searches[y][i] = lastOpened
      PROVE  Awaited(lastOpened)'
  <2>1. y \in DOMAIN searches' /\ i \in 1 .. Len(searches'[y])
        /\ searches'[y][i] = lastOpened'
    BY <1>2, SameWaiting
  <2> QED
    BY <2>1 DEF Awaited
<1> QED
  BY <1>1, <1>2 DEF Awaited

\* The jobs in the queue do not speak against a search of z: whatever was aborted
\* or answered among them was for a search of z too, and so will be whatever
\* opening goes on.
Agrees(z, Q) ==
    /\ \A j \in Q : Answers(j) \/ j.do = "searchAborted" => z = lastAsked
    /\ \A j \in Q : Opens(j) => z = HomeZone[j.station][Setting[z]]

\* A new search is the latest, and all others are aborted.
LEMMA SearchKeeps ==
    ASSUME TypeOK, NEW u, NEW z \in Zones, NEW s \in StationOrNone, NEW q \in Seq(Job),
           performSearch(u, z, s, q), AbortedOnce(q), Fetching(JobsIn(q)),
           Latest(JobsIn(q)), Agrees(z, JobsIn(q))
    PROVE  Fetching(JobsIn(jobs))' /\ Latest(JobsIn(jobs))' /\ Coming(JobsIn(jobs))'
<1> DEFINE Q == JobsIn(q)
           a == SearchAborted(searchCtl)
           r == SearchJob(z, s, "ok")
<1>1. /\ Joined(z, s, Q) \/ Answered(z, s, Q) \/ Begun(z, s, Q)
      /\ lastAsked' = z /\ lastFailed' = FALSE
  BY SearchEffect
<1>2. /\ Table(searches, Zones, StationOrNone) /\ None \notin Zones
      /\ searchCtl \in Zones \cup {None}
  BY TypeParts, NoneAssumption
<1>3. /\ a.do = "searchAborted" /\ a.zone = searchCtl /\ ~Answers(a) /\ ~Opens(a)
      /\ r.do = "search" /\ r.zone = z /\ r.outcome = "ok" /\ ~Opens(r)
  BY DEF SearchAborted, SearchJob, Answers, Opens
<1>4. Aborting \subseteq {a} /\ (searchCtl \in DOMAIN searches => a \in Aborting)
      /\ (searchCtl \notin DOMAIN searches => Aborting = {})
  BY DEF Aborting
<1> HIDE DEF Q, a, r
<1>5. /\ JobsIn(jobs') \subseteq Q \cup Aborting \cup {r} /\ Q \subseteq JobsIn(jobs')
      /\ Joined(z, s, Q) => JobsIn(jobs') = Q
      /\ ~Joined(z, s, Q) => Aborting \subseteq JobsIn(jobs')
      /\ Answered(z, s, Q) => r \in JobsIn(jobs')
  BY <1>1 DEF Joined, Answered, Begun, r
<1>6. /\ Joined(z, s, Q) => z \in DOMAIN searches /\ DOMAIN searches' = DOMAIN searches
      /\ ~Joined(z, s, Q) => z \notin DOMAIN searches
      /\ DOMAIN searches \subseteq DOMAIN searches'
      /\ DOMAIN searches' \subseteq DOMAIN searches \cup {z}
      /\ ~Answered(z, s, Q) => z \in DOMAIN searches'
      /\ \A y \in DOMAIN searches : y # z => searches'[y] = searches[y]
  BY <1>1 DEF Joined, Answered, Begun, With
<1>7. /\ \A y \in DOMAIN searches :
            Len(searches[y]) > 0 /\ (SearchAborted(y) \in Q \/ (y = lastAsked /\ y = searchCtl))
      /\ \A j \in Q : j.do = "searchAborted" =>
            j.zone \in DOMAIN searches /\ j.zone # searchCtl /\ j.zone # lastAsked
  BY DEF Fetching, Q
<1>8. ASSUME z \in DOMAIN searches
      PROVE  z = lastAsked /\ z = searchCtl
  <2>1. SearchAborted(z).do = "searchAborted" /\ SearchAborted(z).zone = z
    BY DEF SearchAborted
  <2> QED
    BY <1>7, <1>8, <2>1 DEF Agrees, Q
<1>9. \A y \in DOMAIN searches' : Len(searches'[y]) > 0
  <2>1. CASE Joined(z, s, Q)
    <3>1. Len(Append(searches[z], s)) > 0
      BY <1>2, <1>6, <2>1 DEF Table
    <3> QED
      BY <1>6, <1>7, <2>1, <3>1 DEF Joined
  <2>2. CASE Answered(z, s, Q)
    BY <1>7, <2>2 DEF Answered
  <2>3. CASE Begun(z, s, Q)
    <3>1. searches'[z] = <<s>>
      BY <2>3 DEF Begun, With
    <3>2. Len(searches'[z]) > 0
      BY <3>1
    <3> QED
      BY <1>6, <1>7, <3>2
  <2> QED
    BY <1>1, <2>1, <2>2, <2>3
<1>10. ASSUME NEW y \in DOMAIN searches'
       PROVE  SearchAborted(y) \in JobsIn(jobs') \/ (y = z /\ y = searchCtl')
  <2>1. CASE Joined(z, s, Q)
    <3>1. searchCtl' = searchCtl /\ y \in DOMAIN searches
      BY <1>6, <2>1 DEF Joined
    <3> QED
      BY <1>5, <1>6, <1>7, <1>8, <2>1, <3>1
  <2>2. CASE ~Joined(z, s, Q) /\ y \in DOMAIN searches
    <3>1. SearchAborted(y) \in Q \/ y = searchCtl
      BY <1>7, <2>2
    <3>2. y = searchCtl => SearchAborted(y) \in Aborting
      BY <1>4, <2>2 DEF a
    <3> QED
      BY <1>5, <2>2, <3>1, <3>2
  <2>3. CASE ~Joined(z, s, Q) /\ y \notin DOMAIN searches
    BY <1>1, <1>6, <2>3 DEF Answered, Begun
  <2> QED
    BY <2>1, <2>2, <2>3
<1>11. ASSUME NEW j \in JobsIn(jobs'), j.do = "searchAborted"
       PROVE  j.zone \in DOMAIN searches' /\ j.zone # searchCtl' /\ j.zone # z
  <2>1. j \in Q \cup Aborting
    BY <1>3, <1>5, <1>11
  <2>2. CASE j \in Q
    <3>1. z = lastAsked /\ j.zone \in DOMAIN searches /\ j.zone # lastAsked
          /\ j.zone # searchCtl
      BY <1>7, <1>11, <2>2 DEF Agrees, Q
    <3>2. j.zone # None
      BY <1>2, <3>1 DEF Table
    <3> QED
      BY <1>1, <1>6, <3>1, <3>2 DEF Joined, Answered, Begun
  <2>3. CASE j \in Aborting /\ j \notin Q
    <3>1. j = a /\ searchCtl \in DOMAIN searches /\ ~Joined(z, s, Q)
      BY <1>4, <1>5, <2>3
    <3>2. j.zone # None /\ j.zone = searchCtl /\ searchCtl # z
      BY <1>2, <1>3, <1>6, <3>1 DEF Table
    <3> QED
      BY <1>1, <1>6, <3>1, <3>2 DEF Answered, Begun
  <2> QED
    BY <2>1, <2>2, <2>3
<1>12. Fetching(JobsIn(jobs))'
  <2>1. lastAsked' # None
    BY <1>1, <1>2
  <2> QED
    BY <1>1, <1>9, <1>10, <1>11, <2>1 DEF Fetching
<1>13. Latest(JobsIn(jobs))'
  <2>1. ASSUME NEW j \in JobsIn(jobs'), Answers(j)
        PROVE  j.zone = z
    BY <1>3, <1>4, <1>5, <2>1 DEF Agrees, Latest, Q
  <2>2. ASSUME NEW j \in JobsIn(jobs'), Opens(j)
        PROVE  j \in Q /\ z = HomeZone[j.station][Setting[z]]
    BY <1>3, <1>4, <1>5, <2>2 DEF Agrees, Q
  <2>3. \A j, k \in Q : Opens(j) /\ Opens(k) => j.station = k.station
    BY DEF Latest, Q
  <2> QED
    BY <1>1, <2>1, <2>2, <2>3 DEF Latest, HomeOf, Answers, Opens
<1>14. Coming(JobsIn(jobs))'
  <2>1. CASE Answered(z, s, Q)
    BY <1>1, <1>3, <1>5, <2>1 DEF Coming
  <2>2. CASE ~Answered(z, s, Q)
    BY <1>1, <1>6, <2>2 DEF Coming
  <2> QED
    BY <2>1, <2>2
<1> QED
  BY <1>12, <1>13, <1>14
-----------------------------------------------------------------------------
\* What a step leaves alone keeps its part of the invariant.

\* The first job of the queue runs.
LEMMA Running ==
    ASSUME TypeOK, AbortedOnce(jobs), jobs # <<>>
    PROVE  /\ This \in Job /\ Rest \in Seq(Job)
           /\ JobsIn(jobs) = {This} \cup JobsIn(Rest)
           /\ AbortedOnce(Rest)
           /\ Aborts(This) => This \notin JobsIn(Rest)
  BY TypeParts, FirstJob, RestOnce DEF This, Rest

\* Jobs that abort nothing join the queue.
LEMMA MoreJobs ==
    ASSUME NEW q \in Seq(Job), AbortedOnce(q),
           NEW r \in Seq(Job), \A j \in JobsIn(r) : ~Aborts(j)
    PROVE  /\ q \o r \in Seq(Job) /\ JobsIn(q \o r) = JobsIn(q) \cup JobsIn(r)
           /\ AbortedOnce(q \o r)
  BY TwoQueues, NothingTwice, BothOnce

\* One job that aborts nothing joins the queue.
LEMMA OneMore ==
    ASSUME NEW q \in Seq(Job), AbortedOnce(q), NEW j \in Job, ~Aborts(j)
    PROVE  JobsIn(Append(q, j)) = JobsIn(q) \cup {j} /\ AbortedOnce(Append(q, j))
<1>1. Append(q, j) = q \o <<j>>
  OBVIOUS
<1> QED
  BY <1>1, OneJob, MoreJobs

\* What follows a search: the selection of the station it was made for, if any.
LEMMA WhatFollows ==
    ASSUME NEW s \in StationOrNone
    PROVE  /\ Onward(s) \in Seq(Job)
           /\ \A j \in JobsIn(Onward(s)) : j.do \in {"select", "render"}
           /\ s # None => \E j \in JobsIn(Onward(s)) : Opening(j) /\ j.station = s
<1>1. CASE s = None
  BY <1>1, NoJobs DEF Onward
<1>2. CASE s # None
  <2>1. /\ SelectJob(s) \in Job /\ SelectJob(s).do = "select"
        /\ SelectJob(s).station = s
    BY <1>2, JobNames DEF StationOrNone, SelectJob
  <2>2. /\ Onward(s) \in Seq(Job) /\ JobsIn(Onward(s)) = {SelectJob(s)}
    BY <1>2, <2>1, OneJob DEF Onward
  <2> QED
    BY <2>1, <2>2 DEF Opening
<1> QED
  BY <1>1, <1>2

\* No search is begun, answered, aborted or dropped.
LEMMA FetchesUndisturbed ==
    ASSUME Fetching(JobsIn(jobs)), UNCHANGED <<searches, searchCtl, lastAsked>>,
           \A j : j.do = "searchAborted" => (j \in JobsIn(jobs') <=> j \in JobsIn(jobs))
    PROVE  Fetching(JobsIn(jobs))'
<1>1. \A z : SearchAborted(z).do = "searchAborted"
  BY DEF SearchAborted
<1> QED
  BY <1>1 DEF Fetching

\* Nothing new is answered, opened or aborted.
LEMMA LatestUndisturbed ==
    ASSUME Latest(JobsIn(jobs)), UNCHANGED lastAsked,
           \A j \in JobsIn(jobs') :
              j \in JobsIn(jobs) \/ ~(Answers(j) \/ Opens(j) \/ j.do = "searchAborted")
    PROVE  Latest(JobsIn(jobs))'
  BY DEF Latest, HomeOf, Answers, Opens

\* No details are asked for, aborted or dropped.
LEMMA DetailsUndisturbed ==
    ASSUME Detailing(JobsIn(jobs)), UNCHANGED <<details, detailCtl, lastOpened>>,
           \A j \in JobsIn(jobs') : j \in JobsIn(jobs) \/ j.do # "detailsAborted"
    PROVE  Detailing(JobsIn(jobs))'
  BY DEF Detailing

\* The map and the searches stay as they are.
LEMMA StillComing ==
    ASSUME Coming(JobsIn(jobs)), UNCHANGED <<searches, lastAsked>>,
           ui'.centre = ui.centre, lastFailed => lastFailed',
           \A j \in JobsIn(jobs) : j.do = "search" => j \in JobsIn(jobs')
    PROVE  Coming(JobsIn(jobs))'
  BY DEF Coming

\* Whatever waited for the panel still does, or something does in its place.
LEMMA StillWorking ==
    ASSUME Working(JobsIn(jobs)), UNCHANGED <<searches, details, lastOpened>>,
           ui'.content = "loading" => ui.content = "loading",
           \A j \in JobsIn(jobs) : Opening(j) /\ j.station = lastOpened /\ lastOpened # None =>
              \E k \in JobsIn(jobs') : Opening(k) /\ k.station = lastOpened,
           \A j \in JobsIn(jobs') :
              j.do = "open" /\ j.outcome = "aborted" => j \in JobsIn(jobs)
    PROVE  Working(JobsIn(jobs))'
<1>0. searches' = searches /\ details' = details /\ lastOpened' = lastOpened
  OBVIOUS
<1>1. ASSUME ui'.content = "loading"
      PROVE  lastOpened' # None /\ Waits(lastOpened, JobsIn(jobs))'
  <2>1. lastOpened # None /\ Waits(lastOpened, JobsIn(jobs))
    BY <1>1 DEF Working
  <2>2. CASE lastOpened \in DOMAIN details
    BY <1>0, <2>1, <2>2 DEF Waits
  <2>3. CASE \E z \in DOMAIN searches :
                \E i \in 1 .. Len(searches[z]) : searches[z][i] = lastOpened
    BY <1>0, <2>1, <2>3 DEF Waits
  <2>4. CASE \E j \in JobsIn(jobs) : Opening(j) /\ j.station = lastOpened
    BY <1>0, <2>1, <2>4 DEF Waits, Opening
  <2> QED
    BY <1>0, <2>1, <2>2, <2>3, <2>4 DEF Waits
<1> QED
  BY <1>1 DEF Working

\* DimmedForSelection, of a screen.
Fits(u) ==
    /\ u.dimmed => u.selected \in u.markers
    /\ u.dimmed => u.lit = {u.selected}
    /\ u.lit \subseteq u.markers \cap {u.selected}

\* Whatever happens to the screen, the dimming fits the selection.
LEMMA ScreenFits ==
    ASSUME NEW u \in Screens, Fits(u)
    PROVE  /\ \A s \in StationOrNone : Fits(selectMarker(u, s))
           /\ Fits(closePanel(u))
           /\ \A s \in StationOrNone : Fits(showPanelLoading(selectMarker(u, s)))
           /\ \A s \in Stations : Fits(renderPanel(u, s))
           /\ Fits(redraw(u))
           /\ \A eligible \in SUBSET Stations : Fits(syncMarkers(u, eligible))
           /\ \A z \in Zones, eligible \in SUBSET Stations :
                 Fits(syncMarkers([u EXCEPT !.stations = InZone[z], !.centre = z], eligible))
           /\ Fits([u EXCEPT !.content = "error"])
           /\ Fits([u EXCEPT !.hidden = FALSE])
<1> USE DEF Screens
<1>1. ASSUME NEW v \in Screens, Fits(v), NEW s \in StationOrNone
      PROVE  Fits(selectMarker(v, s))
  <2>1. (v.lit \ {v.selected}) \cup ({s} \cap v.markers) = {s} \cap v.markers
    BY <1>1 DEF Fits
  <2> DEFINE w == selectMarker(v, s)
  <2>2. /\ w.selected = s /\ w.markers = v.markers /\ w.lit = {s} \cap v.markers
        /\ w.dimmed = (s \in v.markers)
    BY <2>1 DEF selectMarker
  <2> QED
    BY <2>2 DEF Fits
<1>2. ASSUME NEW v \in Screens, v.dimmed = u.dimmed, v.selected = u.selected,
             v.markers = u.markers, v.lit = u.lit
      PROVE  Fits(v)
  BY <1>2 DEF Fits
<1>3. Fits(closePanel(u))
  <2> DEFINE v == [u EXCEPT !.hidden = TRUE, !.current = None]
  <2>1. v \in Screens
    BY DEF StationOrNone
  <2>2. Fits(v)
    BY <1>2, <2>1
  <2> QED
    BY <1>1, <2>1, <2>2 DEF closePanel, StationOrNone
<1>4. ASSUME NEW s \in StationOrNone
      PROVE  Fits(showPanelLoading(selectMarker(u, s)))
  <2>1. selectMarker(u, s) \in Screens /\ Fits(selectMarker(u, s))
    BY <1>1, ScreenTypes
  <2> QED
    BY <2>1 DEF showPanelLoading, Fits
<1>5. ASSUME NEW v \in Screens, Fits(v), NEW eligible \in SUBSET Stations
      PROVE  Fits(syncMarkers(v, eligible))
  <2> DEFINE kept == Renderable(v) \cap (eligible \cup {v.selected})
             lost == v.selected \in v.markers \ kept
             w == syncMarkers(v, eligible)
  <2>1. /\ w.markers = kept /\ w.lit = v.lit \cap kept
        /\ w.selected = (IF lost THEN None ELSE v.selected)
        /\ w.dimmed = (v.dimmed /\ ~lost)
    BY DEF syncMarkers
  <2>2. CASE lost
    <3>1. v.selected \notin kept /\ v.lit \subseteq {v.selected}
      BY <1>5, <2>2 DEF Fits
    <3>2. v.lit \cap kept = {}
      BY <3>1
    <3>3. ~w.dimmed
      BY <2>1, <2>2, Zenon
    <3> QED
      BY <2>1, <3>2, <3>3 DEF Fits
  <2>3. CASE ~lost
    <3>1. v.dimmed => v.selected \in kept /\ v.lit = {v.selected}
      BY <1>5, <2>3 DEF Fits
    <3>2. w.selected = v.selected /\ (w.dimmed => v.dimmed)
      BY <2>1, <2>3
    <3>3. w.lit \subseteq w.markers \cap {w.selected}
      BY <1>5, <2>1, <3>2 DEF Fits
    <3> HIDE DEF kept, w, lost
    <3>4. Fits(w)
      BY <2>1, <3>1, <3>2, <3>3 DEF Fits
    <3> QED
      BY <3>4 DEF w
  <2> QED
    BY <2>2, <2>3
<1>6. ASSUME NEW z \in Zones, NEW eligible \in SUBSET Stations
      PROVE  Fits(syncMarkers([u EXCEPT !.stations = InZone[z], !.centre = z], eligible))
  <2> DEFINE v == [u EXCEPT !.stations = InZone[z], !.centre = z]
  <2>1. v \in Screens
    BY InZoneAssumption
  <2>2. Fits(v)
    BY <1>2, <2>1
  <2> QED
    BY <1>5, <2>1, <2>2
<1>7. /\ \A s \in Stations : Fits(renderPanel(u, s))
      /\ Fits(redraw(u))
      /\ Fits([u EXCEPT !.content = "error"]) /\ Fits([u EXCEPT !.hidden = FALSE])
  BY DEF Fits, renderPanel, redraw
<1> QED
  BY <1>1, <1>3, <1>4, <1>5, <1>6, <1>7

\* What happens to the screen and says nothing of its contents or centre.
LEMMA ScreenKeeps ==
    ASSUME NEW u \in Screens
    PROVE  /\ \A s \in StationOrNone :
                 selectMarker(u, s).content = u.content /\ selectMarker(u, s).centre = u.centre
           /\ closePanel(u).content = u.content /\ closePanel(u).centre = u.centre
           /\ \A e \in SUBSET Stations :
                 syncMarkers(u, e).content = u.content /\ syncMarkers(u, e).centre = u.centre
           /\ \A z \in Zones, e \in SUBSET Stations :
                 LET v == [u EXCEPT !.stations = InZone[z], !.centre = z]
                 IN  syncMarkers(v, e).content = u.content /\ syncMarkers(v, e).centre = z
           /\ redraw(u).content \in Stations \cup {u.content} /\ redraw(u).centre = u.centre
           /\ \A s \in Stations : renderPanel(u, s).content = s /\ renderPanel(u, s).centre = u.centre
  BY DEF Screens, selectMarker, closePanel, syncMarkers, redraw, renderPanel, StationOrNone
-----------------------------------------------------------------------------
\* Every step keeps the invariant: the events, which find the queue empty.

\* The screen alone changes.
LEMMA OnlyScreen ==
    ASSUME IInv, UNCHANGED <<netVars, jobs, historyVars>>, Fits(ui'),
           ui'.content = "loading" => ui.content = "loading", ui'.centre = ui.centre
    PROVE  Parts'
<1>1. /\ searches' = searches /\ searchCtl' = searchCtl /\ details' = details
      /\ detailCtl' = detailCtl /\ jobs' = jobs /\ lastAsked' = lastAsked
      /\ lastFailed' = lastFailed /\ lastOpened' = lastOpened
  BY DEF netVars, historyVars
<1>2. AbortedOnce(jobs)' /\ Fetching(JobsIn(jobs))' /\ Detailing(JobsIn(jobs))'
      /\ Latest(JobsIn(jobs))' /\ Coming(JobsIn(jobs))'
  BY <1>1, FetchesUndisturbed, DetailsUndisturbed, LatestUndisturbed, StillComing
     DEF IInv, Parts
<1>3. Working(JobsIn(jobs))'
  BY <1>1, StillWorking DEF IInv, Parts
<1>4. DimmedForSelection'
  BY DEF Fits, DimmedForSelection
<1> QED
  BY <1>2, <1>3, <1>4 DEF Parts

\* The latest search starts from an empty queue.
LEMMA UserSearchesKeeps ==
    ASSUME IInv, NEW z \in Zones, UserSearches(z)
    PROVE  Parts'
<1>1. /\ TypeOK /\ jobs = <<>> /\ JobsIn(<<>>) = {} /\ <<>> \in Seq(Job)
      /\ performSearch(ui, z, None, <<>>) /\ None \in StationOrNone
      /\ AbortedOnce(<<>>) /\ Fetching({}) /\ Latest({}) /\ Agrees(z, {})
      /\ Detailing({}) /\ Working({})
  BY NoJobs, NothingTwice DEF UserSearches, Idle, IInv, Parts, StationOrNone, Agrees
<1>2. AbortedOnce(jobs') /\ ui' = closePanel(ui)
      /\ (Joined(z, None, {}) \/ Answered(z, None, {}) \/ Begun(z, None, {}))
  BY <1>1, SearchEffect
<1>3. Fetching(JobsIn(jobs))' /\ Latest(JobsIn(jobs))' /\ Coming(JobsIn(jobs))'
  BY <1>1, SearchKeeps
<1>4. \A j \in JobsIn(jobs') : j.do \in {"searchAborted", "search"}
  BY <1>2 DEF Joined, Answered, Begun, Aborting, SearchAborted, SearchJob
<1>5. details' = details /\ detailCtl' = detailCtl /\ lastOpened' = lastOpened
  BY DEF UserSearches
<1>6. Detailing(JobsIn(jobs))'
  BY <1>1, <1>4, <1>5, DetailsUndisturbed
<1>7. ui \in Screens /\ ui'.content = ui.content /\ Fits(ui')
  <2>1. ui \in Screens /\ Fits(ui)
    BY <1>1, TypeParts DEF IInv, Parts, DimmedForSelection, Fits
  <2> QED
    BY <1>2, <2>1, ScreenKeeps, ScreenFits
<1>8. Working(JobsIn(jobs))'
  <2>1. Table(searches, Zones, StationOrNone)
    BY <1>1, TypeParts
  <2>2. ASSUME ui.content = "loading"
        PROVE  lastOpened # None /\ Awaited(lastOpened)
    BY <1>1, <2>2 DEF Working, Waits, Awaited
  <2>3. ASSUME ui.content = "loading"
        PROVE  Awaited(lastOpened)'
    BY <1>1, <1>2, <1>5, <2>1, <2>2, <2>3, StillAwaited
  <2> QED
    BY <1>4, <1>5, <1>7, <2>2, <2>3 DEF Working, Waits, Awaited
<1> QED
  BY <1>2, <1>3, <1>6, <1>7, <1>8 DEF Parts, DimmedForSelection, Fits
\* The panel waits for the station opened, which no abortion concerns.
LEMMA UserOpensKeeps ==
    ASSUME IInv, NEW s \in Stations, NEW known \in BOOLEAN, UserOpens(s, known)
    PROVE  Parts'
<1> DEFINE a == DetailsAborted(detailCtl)
           o == OpenJob(s, known, "ok")
<1>1. /\ TypeOK /\ jobs = <<>> /\ JobsIn(jobs) = {} /\ ui \in Screens
      /\ Table(details, Stations, BOOLEAN)
      /\ searches' = searches /\ searchCtl' = searchCtl /\ lastAsked' = lastAsked
      /\ lastFailed' = lastFailed /\ lastOpened' = s
      /\ ui' = showPanelLoading(selectMarker(ui, s))
  BY NoJobs, TypeParts DEF UserOpens, Idle, IInv
<1>2. /\ a.do = "detailsAborted" /\ a.station = detailCtl
      /\ o \in Job /\ o.do = "open" /\ o.station = s /\ o.outcome = "ok"
  BY JobNames DEF DetailsAborted, OpenJob, Outcomes
<1>3. /\ DetailsAbort \in Seq(Job) /\ AbortedOnce(DetailsAbort)
      /\ JobsIn(DetailsAbort) = IF detailCtl \in DOMAIN details THEN {a} ELSE {}
  BY <1>1, AbortFacts, OneOnce, NoJobs, NothingTwice DEF DetailsAbort
<1> HIDE DEF a, o
<1>4. /\ AbortedOnce(jobs')
      /\ JobsIn(jobs') \subseteq {a, o}
      /\ a \in JobsIn(jobs') =>
            detailCtl \in DOMAIN details' /\ detailCtl # detailCtl' /\ detailCtl # s
      /\ \A y \in DOMAIN details' : Len(details'[y]) > 0
      /\ s \in DOMAIN details' \/ o \in JobsIn(jobs')
  <2>1. CASE JoinDetails(s, known)
    <3>1. \A y \in DOMAIN details' : Len(details'[y]) > 0
      <4>1. Len(Append(details[s], known)) > 0
        BY <1>1, <2>1 DEF JoinDetails, Table
      <4> QED
        BY <1>1, <2>1, <4>1 DEF JoinDetails, IInv, Parts, Detailing
    <3> QED
      BY <1>1, <2>1, <3>1 DEF JoinDetails, IInv, Parts
  <2>2. CASE DetailsHit(s, known)
    <3>1. <<o>> \in Seq(Job) /\ JobsIn(<<o>>) = {o} /\ ~Aborts(o)
      BY <1>2, OneJob DEF Aborts
    <3>2. jobs' = DetailsAbort \o <<o>>
      BY <2>2 DEF DetailsHit, o
    <3>3. AbortedOnce(jobs') /\ JobsIn(jobs') = JobsIn(DetailsAbort) \cup {o}
      BY <1>3, <3>1, <3>2, MoreJobs
    <3>4. s \notin DOMAIN details /\ details' = details /\ detailCtl' = None
      BY <2>2 DEF DetailsHit
    <3>5. a # o
      BY <1>2
    <3> QED
      BY <1>1, <1>3, <3>3, <3>4, <3>5, NoneAssumption DEF IInv, Parts, Detailing, Table
  <2>3. CASE DetailsFetch(s, known)
    <3>1. /\ s \notin DOMAIN details /\ jobs' = DetailsAbort /\ detailCtl' = s
          /\ DOMAIN details' = DOMAIN details \cup {s}
          /\ details'[s] = <<known>>
          /\ \A y \in DOMAIN details : details'[y] = details[y]
      BY <2>3 DEF DetailsFetch, With
    <3>2. Len(details'[s]) > 0
      BY <3>1
    <3> QED
      BY <1>3, <3>1, <3>2 DEF IInv, Parts, Detailing
  <2> QED
    BY <2>1, <2>2, <2>3 DEF UserOpens
<1>5. Detailing(JobsIn(jobs))'
  BY <1>1, <1>2, <1>4 DEF Detailing
<1>6. Fetching(JobsIn(jobs))' /\ Latest(JobsIn(jobs))'
  <2>1. Fetching(JobsIn(jobs))'
    BY <1>1, <1>2, <1>4, FetchesUndisturbed DEF IInv, Parts
  <2> QED
    BY <1>2, <1>4, <2>1 DEF Latest, Answers, Opens
<1>7. Coming(JobsIn(jobs))' /\ Fits(ui')
  <2>1. ui'.centre = ui.centre
    BY <1>1 DEF Screens, showPanelLoading, selectMarker
  <2>2. Fits(ui)
    BY DEF IInv, Parts, DimmedForSelection, Fits
  <2> QED
    BY <1>1, <2>1, <2>2, StillComing, ScreenFits DEF IInv, Parts, StationOrNone
<1>8. Working(JobsIn(jobs))'
  <2>1. s # None
    BY NoneAssumption
  <2> QED
    BY <1>1, <1>2, <1>4, <2>1 DEF Working, Waits, Opening
<1> QED
  BY <1>4, <1>5, <1>6, <1>7, <1>8 DEF Parts, DimmedForSelection, Fits

\* The fetch that settles is the latest one, and each search it resumes is too.
LEMMA SearchSettlesKeeps ==
    ASSUME IInv, NEW z \in Zones, NEW o \in {"ok", "error"}, SearchSettles(z, o)
    PROVE  Parts'
<1>1. /\ TypeOK /\ jobs = <<>> /\ JobsIn(jobs) = {} /\ z \in DOMAIN searches
      /\ Table(searches, Zones, StationOrNone)
      /\ Len(searches[z]) > 0 /\ z = lastAsked
      /\ \A y \in DOMAIN searches : y = lastAsked
      /\ ui' = ui /\ searchCtl' = searchCtl /\ details' = details /\ detailCtl' = detailCtl
      /\ lastAsked' = lastAsked /\ lastFailed' = lastFailed /\ lastOpened' = lastOpened
  BY NoJobs, TypeParts DEF SearchSettles, Idle, IInv, Parts, Fetching, historyVars
<1> DEFINE w == searches[z]
<1>2. w \in Seq(StationOrNone) /\ o \in Outcomes
  BY <1>1 DEF Table, Outcomes
<1>3. /\ jobs' \in Seq(Job)
      /\ \A j \in JobsIn(jobs') : j.do = "search" /\ j.zone = z /\ j.outcome = o
      /\ \A i \in 1 .. Len(w) : SearchJob(z, w[i], o) \in JobsIn(jobs')
  BY <1>2, ResumedSearches DEF SearchSettles
<1>4. AbortedOnce(jobs') /\ DOMAIN searches' = {}
  <2>1. \A j \in JobsIn(jobs') : ~Aborts(j)
    BY <1>3 DEF Aborts
  <2>2. DOMAIN searches' = DOMAIN searches \ {z}
    BY DEF SearchSettles, Dropping
  <2> QED
    BY <1>1, <1>3, <2>1, <2>2, NothingTwice
<1>5. Fetching(JobsIn(jobs))' /\ Latest(JobsIn(jobs))'
  BY <1>1, <1>3, <1>4 DEF Fetching, Latest, Answers, Opens
<1>6. Detailing(JobsIn(jobs))'
  BY <1>1, <1>3, DetailsUndisturbed DEF IInv, Parts
<1>7. Coming(JobsIn(jobs))'
  <2>1. 1 \in 1 .. Len(w)
    BY <1>1, <1>2
  <2> QED
    BY <1>1, <1>3, <2>1 DEF Coming
<1>8. Working(JobsIn(jobs))'
  <2>1. ASSUME ui.content = "loading"
        PROVE  lastOpened # None /\ Waits(lastOpened, JobsIn(jobs))'
    <3>1. lastOpened # None /\ Waits(lastOpened, {})
      BY <1>1, <2>1 DEF IInv, Parts, Working
    <3>2. CASE lastOpened \in DOMAIN details
      BY <1>1, <3>1, <3>2 DEF Waits
    <3>3. ASSUME NEW y \in DOMAIN searches, NEW i \in 1 .. Len(searches[y]),
                 searches[y][i] = lastOpened
          PROVE  lastOpened # None /\ Waits(lastOpened, JobsIn(jobs))'
      <4>1. SearchJob(z, lastOpened, o) \in JobsIn(jobs')
        BY <1>1, <1>3, <3>3
      <4>2. SearchJob(z, lastOpened, o).do = "search"
            /\ SearchJob(z, lastOpened, o).station = lastOpened
        BY DEF SearchJob
      <4> QED
        BY <1>1, <3>1, <4>1, <4>2 DEF Waits, Opening
    <3> QED
      BY <3>1, <3>2, <3>3 DEF Waits
  <2> QED
    BY <1>1, <1>3, <2>1 DEF Working
<1> QED
  BY <1>1, <1>4, <1>5, <1>6, <1>7, <1>8 DEF Parts, IInv, DimmedForSelection

\* Each opening that a station's details resume goes on for that station.
LEMMA DetailsSettleKeeps ==
    ASSUME IInv, NEW s \in Stations, NEW o \in {"ok", "error"}, DetailsSettle(s, o)
    PROVE  Parts'
<1>1. /\ TypeOK /\ jobs = <<>> /\ JobsIn(jobs) = {} /\ s \in DOMAIN details
      /\ Table(details, Stations, BOOLEAN) /\ Len(details[s]) > 0
      /\ ui' = ui /\ searches' = searches /\ searchCtl' = searchCtl
      /\ detailCtl' = detailCtl
      /\ lastAsked' = lastAsked /\ lastFailed' = lastFailed /\ lastOpened' = lastOpened
  BY NoJobs, TypeParts DEF DetailsSettle, Idle, IInv, Parts, Detailing, historyVars
<1> DEFINE w == details[s]
<1>2. w \in Seq(BOOLEAN) /\ o \in Outcomes /\ o # "aborted"
  BY <1>1 DEF Table, Outcomes
<1>3. /\ jobs' \in Seq(Job)
      /\ \A j \in JobsIn(jobs') : j.do = "open" /\ j.station = s /\ j.outcome = o
      /\ \A i \in 1 .. Len(w) : OpenJob(s, w[i], o) \in JobsIn(jobs')
  BY <1>2, ResumedOpenings DEF DetailsSettle
<1>4. AbortedOnce(jobs')
  BY <1>3, NothingTwice DEF Aborts
<1>5. Fetching(JobsIn(jobs))' /\ Latest(JobsIn(jobs))'
  <2>1. Fetching(JobsIn(jobs))'
    BY <1>1, <1>3, FetchesUndisturbed DEF IInv, Parts
  <2> QED
    BY <1>3, <2>1 DEF Latest, Answers, Opens
<1>6. Detailing(JobsIn(jobs))'
  <2>1. /\ DOMAIN details' = DOMAIN details \ {s}
        /\ \A y \in DOMAIN details' : details'[y] = details[y]
    BY DEF DetailsSettle, Dropping
  <2> QED
    BY <1>3, <2>1 DEF IInv, Parts, Detailing
<1>7. Coming(JobsIn(jobs))'
  BY <1>1, StillComing DEF IInv, Parts
<1>8. Working(JobsIn(jobs))'
  <2>1. ASSUME ui.content = "loading"
        PROVE  lastOpened # None /\ Waits(lastOpened, JobsIn(jobs))'
    <3>1. lastOpened # None /\ Waits(lastOpened, {})
      BY <1>1, <2>1 DEF IInv, Parts, Working
    <3>2. CASE lastOpened = s
      <4>1. 1 \in 1 .. Len(w)
        BY <1>1, <1>2
      <4>2. OpenJob(s, w[1], o) \in JobsIn(jobs')
        BY <1>3, <4>1
      <4> QED
        BY <1>1, <1>3, <3>1, <3>2, <4>2 DEF Waits, Opening
    <3>3. CASE lastOpened \in DOMAIN details \ {s}
      BY <1>1, <3>1, <3>3 DEF Waits, DetailsSettle, Dropping
    <3>4. CASE \E y \in DOMAIN searches :
                  \E i \in 1 .. Len(searches[y]) : searches[y][i] = lastOpened
      BY <1>1, <3>1, <3>4 DEF Waits
    <3> QED
      BY <3>1, <3>2, <3>3, <3>4 DEF Waits
  <2> QED
    BY <1>1, <1>2, <1>3, <2>1 DEF Working
<1> QED
  BY <1>1, <1>4, <1>5, <1>6, <1>7, <1>8 DEF Parts, IInv, DimmedForSelection
-----------------------------------------------------------------------------
\* Every step keeps the invariant: the jobs.

\* An aborted search is not the latest, and it is aborted once.
LEMMA SearchRejectsKeeps ==
    ASSUME IInv, SearchRejects
    PROVE  Parts'
<1> DEFINE z == This.zone
           w == searches[z]
           r == [i \in 1 .. Len(w) |-> SearchJob(z, w[i], "aborted")]
<1>1. /\ TypeOK /\ jobs # <<>> /\ AbortedOnce(jobs) /\ This.do = "searchAborted"
      /\ Table(searches, Zones, StationOrNone)
      /\ ui' = ui /\ searchCtl' = searchCtl /\ details' = details /\ detailCtl' = detailCtl
      /\ lastAsked' = lastAsked /\ lastFailed' = lastFailed /\ lastOpened' = lastOpened
      /\ jobs' = Rest \o r
  BY TypeParts DEF SearchRejects, Runs, IInv, Parts, historyVars
<1>2. /\ This \in Job /\ Rest \in Seq(Job) /\ JobsIn(jobs) = {This} \cup JobsIn(Rest)
      /\ AbortedOnce(Rest) /\ This \notin JobsIn(Rest)
  BY <1>1, Running DEF Aborts
<1>3. /\ z \in Zones /\ This = SearchAborted(z)
      /\ z \in DOMAIN searches /\ z # searchCtl /\ z # lastAsked
  BY <1>1, <1>2, JobFacts DEF IInv, Parts, Fetching
<1>4. w \in Seq(StationOrNone) /\ "aborted" \in Outcomes
  BY <1>1, <1>3 DEF Table, Outcomes
<1>5. /\ r \in Seq(Job)
      /\ \A j \in JobsIn(r) : j.do = "search" /\ j.zone = z /\ j.outcome = "aborted"
      /\ \A i \in 1 .. Len(w) : SearchJob(z, w[i], "aborted") \in JobsIn(r)
  BY <1>3, <1>4, ResumedSearches
<1>6. /\ DOMAIN searches' = DOMAIN searches \ {z}
      /\ \A y \in DOMAIN searches' : searches'[y] = searches[y]
  BY DEF SearchRejects, Dropping
<1> HIDE DEF r
<1>7. JobsIn(jobs') = JobsIn(Rest) \cup JobsIn(r) /\ AbortedOnce(jobs')
  <2>1. \A j \in JobsIn(r) : ~Aborts(j)
    BY <1>5 DEF Aborts
  <2> QED
    BY <1>1, <1>2, <1>5, <2>1, MoreJobs
<1>8. Fetching(JobsIn(jobs))'
  <2>1. ASSUME NEW y \in DOMAIN searches'
        PROVE  /\ Len(searches'[y]) > 0
               /\ SearchAborted(y) \in JobsIn(jobs') \/ (y = lastAsked /\ y = searchCtl)
    <3>1. y \in DOMAIN searches /\ y # z
      BY <1>6
    <3>2. SearchAborted(y) # This
      BY <1>3, <3>1 DEF SearchAborted
    <3> QED
      BY <1>2, <1>6, <1>7, <3>1, <3>2 DEF IInv, Parts, Fetching
  <2>2. ASSUME NEW j \in JobsIn(jobs'), j.do = "searchAborted"
        PROVE  j.zone \in DOMAIN searches' /\ j.zone # searchCtl /\ j.zone # lastAsked
    <3>1. j \in JobsIn(Rest) /\ j \in Job /\ j # This
      BY <1>2, <1>5, <1>7, <2>2, QueueJobs
    <3>2. j = SearchAborted(j.zone)
      BY <2>2, <3>1, JobFacts
    <3>3. j.zone # z
      BY <1>3, <3>1, <3>2
    <3> QED
      BY <1>2, <1>6, <2>2, <3>1, <3>3 DEF IInv, Parts, Fetching
  <2> QED
    BY <1>1, <1>6, <2>1, <2>2 DEF IInv, Parts, Fetching
<1>9. Latest(JobsIn(jobs))' /\ Detailing(JobsIn(jobs))'
  <2>1. \A j \in JobsIn(jobs') : j \in JobsIn(jobs)
           \/ (j.do = "search" /\ j.outcome = "aborted")
    BY <1>2, <1>5, <1>7
  <2> QED
    BY <1>1, <2>1, LatestUndisturbed, DetailsUndisturbed DEF IInv, Parts, Answers, Opens
<1>10. Coming(JobsIn(jobs))'
  <2>1. lastAsked \in DOMAIN searches => lastAsked \in DOMAIN searches'
    BY <1>3, <1>6
  <2> QED
    BY <1>1, <1>2, <1>7, <2>1 DEF IInv, Parts, Coming
<1>11. Working(JobsIn(jobs))'
  <2>1. ASSUME ui.content = "loading"
        PROVE  lastOpened # None /\ Waits(lastOpened, JobsIn(jobs))'
    <3>1. lastOpened # None /\ Waits(lastOpened, JobsIn(jobs))
      BY <1>1, <2>1 DEF IInv, Parts, Working
    <3>2. CASE lastOpened \in DOMAIN details
      BY <1>1, <3>1, <3>2 DEF Waits
    <3>3. ASSUME NEW y \in DOMAIN searches, NEW i \in 1 .. Len(searches[y]),
                 searches[y][i] = lastOpened
          PROVE  lastOpened # None /\ Waits(lastOpened, JobsIn(jobs))'
      <4>1. CASE y = z
        <5>1. SearchJob(z, lastOpened, "aborted") \in JobsIn(jobs')
          BY <1>5, <1>7, <3>3, <4>1
        <5>2. SearchJob(z, lastOpened, "aborted").do = "search"
              /\ SearchJob(z, lastOpened, "aborted").station = lastOpened
          BY DEF SearchJob
        <5> QED
          BY <1>1, <3>1, <5>1, <5>2 DEF Waits, Opening
      <4>2. CASE y # z
        BY <1>1, <1>6, <3>1, <3>3, <4>2 DEF Waits
      <4> QED
        BY <4>1, <4>2
    <3>4. ASSUME NEW j \in JobsIn(jobs), Opening(j), j.station = lastOpened
          PROVE  lastOpened # None /\ Waits(lastOpened, JobsIn(jobs))'
      <4>1. j \in JobsIn(jobs')
        BY <1>1, <1>2, <1>7, <3>4 DEF Opening
      <4> QED
        BY <1>1, <3>1, <3>4, <4>1 DEF Waits
    <3> QED
      BY <3>1, <3>2, <3>3, <3>4 DEF Waits
  <2>2. \A j \in JobsIn(jobs') : j.do = "open" => j \in JobsIn(jobs)
    BY <1>2, <1>5, <1>7
  <2> QED
    BY <1>1, <2>1, <2>2 DEF IInv, Parts, Working
<1> QED
  BY <1>1, <1>7, <1>8, <1>9, <1>10, <1>11 DEF Parts, IInv, DimmedForSelection

\* An aborted fetch of details is not for the station opened last.
LEMMA DetailsRejectKeeps ==
    ASSUME IInv, DetailsReject
    PROVE  Parts'
<1> DEFINE s == This.station
           w == details[s]
           r == [i \in 1 .. Len(w) |-> OpenJob(s, w[i], "aborted")]
<1>1. /\ TypeOK /\ jobs # <<>> /\ AbortedOnce(jobs) /\ This.do = "detailsAborted"
      /\ Table(details, Stations, BOOLEAN)
      /\ ui' = ui /\ searches' = searches /\ searchCtl' = searchCtl
      /\ detailCtl' = detailCtl
      /\ lastAsked' = lastAsked /\ lastFailed' = lastFailed /\ lastOpened' = lastOpened
      /\ jobs' = Rest \o r
  BY TypeParts DEF DetailsReject, Runs, IInv, Parts, historyVars
<1>2. /\ This \in Job /\ Rest \in Seq(Job) /\ JobsIn(jobs) = {This} \cup JobsIn(Rest)
      /\ AbortedOnce(Rest) /\ This \notin JobsIn(Rest)
  BY <1>1, Running DEF Aborts
<1>3. /\ s \in Stations /\ This = DetailsAborted(s)
      /\ s \in DOMAIN details /\ s # detailCtl /\ s # lastOpened
  BY <1>1, <1>2, JobFacts DEF IInv, Parts, Detailing
<1>4. w \in Seq(BOOLEAN) /\ "aborted" \in Outcomes
  BY <1>1, <1>3 DEF Table, Outcomes
<1>5. /\ r \in Seq(Job)
      /\ \A j \in JobsIn(r) : j.do = "open" /\ j.station = s /\ j.outcome = "aborted"
  BY <1>3, <1>4, ResumedOpenings
<1>6. /\ DOMAIN details' = DOMAIN details \ {s}
      /\ \A y \in DOMAIN details' : details'[y] = details[y]
  BY DEF DetailsReject, Dropping
<1> HIDE DEF r
<1>7. JobsIn(jobs') = JobsIn(Rest) \cup JobsIn(r) /\ AbortedOnce(jobs')
  <2>1. \A j \in JobsIn(r) : ~Aborts(j)
    BY <1>5 DEF Aborts
  <2> QED
    BY <1>1, <1>2, <1>5, <2>1, MoreJobs
<1>8. Detailing(JobsIn(jobs))'
  <2>1. ASSUME NEW j \in JobsIn(jobs'), j.do = "detailsAborted"
        PROVE  j.station \in DOMAIN details' /\ j.station # detailCtl /\ j.station # lastOpened
    <3>1. j \in JobsIn(Rest) /\ j \in Job /\ j # This
      BY <1>2, <1>5, <1>7, <2>1, QueueJobs
    <3>2. j = DetailsAborted(j.station)
      BY <2>1, <3>1, JobFacts
    <3>3. j.station # s
      BY <1>3, <3>1, <3>2
    <3> QED
      BY <1>2, <1>6, <2>1, <3>1, <3>3 DEF IInv, Parts, Detailing
  <2> QED
    BY <1>1, <1>6, <2>1 DEF IInv, Parts, Detailing
<1>9. Fetching(JobsIn(jobs))' /\ Latest(JobsIn(jobs))' /\ Coming(JobsIn(jobs))'
  <2>1. \A j \in JobsIn(jobs') : j \in JobsIn(jobs)
           \/ (j.do = "open" /\ j.outcome = "aborted")
    BY <1>2, <1>5, <1>7
  <2>2. \A j \in JobsIn(jobs) : j.do # "detailsAborted" => j \in JobsIn(jobs')
    BY <1>1, <1>2, <1>7
  <2>3. Fetching(JobsIn(jobs))'
    BY <1>1, <2>1, <2>2, FetchesUndisturbed DEF IInv, Parts
  <2>4. Latest(JobsIn(jobs))' /\ Coming(JobsIn(jobs))'
    BY <1>1, <2>1, <2>2, LatestUndisturbed, StillComing DEF IInv, Parts, Answers, Opens
  <2> QED
    BY <2>3, <2>4
<1>10. Working(JobsIn(jobs))'
  <2>1. ASSUME ui.content = "loading"
        PROVE  lastOpened # None /\ Waits(lastOpened, JobsIn(jobs))'
    <3>1. lastOpened # None /\ Waits(lastOpened, JobsIn(jobs))
      BY <1>1, <2>1 DEF IInv, Parts, Working
    <3>2. CASE lastOpened \in DOMAIN details
      BY <1>1, <1>3, <1>6, <3>1, <3>2 DEF Waits
    <3>3. CASE \E y \in DOMAIN searches :
                  \E i \in 1 .. Len(searches[y]) : searches[y][i] = lastOpened
      BY <1>1, <3>1, <3>3 DEF Waits
    <3>4. ASSUME NEW j \in JobsIn(jobs), Opening(j), j.station = lastOpened
          PROVE  lastOpened # None /\ Waits(lastOpened, JobsIn(jobs))'
      <4>1. j \in JobsIn(jobs')
        BY <1>1, <1>2, <1>7, <3>4 DEF Opening
      <4> QED
        BY <1>1, <3>1, <3>4, <4>1 DEF Waits
    <3> QED
      BY <3>1, <3>2, <3>3, <3>4 DEF Waits
  <2>2. \A j \in JobsIn(jobs') : j.do = "open" /\ j.outcome = "aborted"
           => j.station # lastOpened
    BY <1>2, <1>3, <1>5, <1>7 DEF IInv, Parts, Working
  <2> QED
    BY <1>1, <2>1, <2>2 DEF Working
<1> QED
  BY <1>1, <1>7, <1>8, <1>9, <1>10 DEF Parts, IInv, DimmedForSelection
\* A job that runs without a search leaves the fetches alone.
LEMMA JobRuns ==
    ASSUME IInv, jobs # <<>>, ~Aborts(This), NEW n \in Seq(Job),
           \A j \in JobsIn(n) : j.do \in {"select", "render"},
           jobs' = Rest \o n,
           UNCHANGED <<searches, searchCtl, details, detailCtl, lastAsked, lastOpened>>
    PROVE  /\ This \in Job /\ JobsIn(jobs) = {This} \cup JobsIn(Rest)
           /\ JobsIn(jobs') = JobsIn(Rest) \cup JobsIn(n)
           /\ AbortedOnce(jobs)' /\ Fetching(JobsIn(jobs))' /\ Latest(JobsIn(jobs))'
           /\ Detailing(JobsIn(jobs))'
<1>1. /\ This \in Job /\ Rest \in Seq(Job) /\ JobsIn(jobs) = {This} \cup JobsIn(Rest)
      /\ AbortedOnce(Rest)
  BY Running DEF IInv, Parts
<1>2. \A j \in JobsIn(n) : ~Aborts(j) /\ ~Answers(j) /\ ~Opens(j)
  BY DEF Aborts, Answers, Opens
<1>3. JobsIn(jobs') = JobsIn(Rest) \cup JobsIn(n) /\ AbortedOnce(jobs')
  BY <1>1, <1>2, MoreJobs
<1>4. Fetching(JobsIn(jobs))'
  <2>1. \A j : j.do = "searchAborted" => (j \in JobsIn(jobs') <=> j \in JobsIn(jobs))
    BY <1>1, <1>2, <1>3 DEF Aborts
  <2> QED
    BY <2>1, FetchesUndisturbed DEF IInv, Parts
<1>5. Latest(JobsIn(jobs))' /\ Detailing(JobsIn(jobs))'
  <2>1. \A j \in JobsIn(jobs') :
           j \in JobsIn(jobs) \/ ~(Answers(j) \/ Opens(j) \/ Aborts(j))
    BY <1>1, <1>2, <1>3
  <2> QED
    BY <2>1, LatestUndisturbed, DetailsUndisturbed DEF IInv, Parts, Aborts
<1> QED
  BY <1>1, <1>3, <1>4, <1>5

\* What a job does to the spinner: whoever waited for the job that runs waits for
\* what it leaves, or for nothing, the spinner being gone.
LEMMA JobWorks ==
    ASSUME IInv, jobs # <<>>, NEW N, JobsIn(jobs) = {This} \cup JobsIn(Rest),
           JobsIn(jobs') = JobsIn(Rest) \cup N, UNCHANGED <<searches, details, lastOpened>>,
           \A j \in N : j.do \in {"select", "render"},
           ui'.content = "loading" => ui.content = "loading",
           (Opening(This) /\ This.station = lastOpened /\ lastOpened # None
               /\ ui'.content = "loading")
              => \E k \in N : Opening(k) /\ k.station = lastOpened
    PROVE  Working(JobsIn(jobs))'
<1>1. searches' = searches /\ details' = details /\ lastOpened' = lastOpened
  OBVIOUS
<1>2. CASE ui'.content = "loading"
  <2>1. \A j \in JobsIn(jobs) : Opening(j) /\ j.station = lastOpened /\ lastOpened # None =>
           \E k \in JobsIn(jobs') : Opening(k) /\ k.station = lastOpened
    BY <1>2
  <2>2. \A j \in JobsIn(jobs') : j.do = "open" /\ j.outcome = "aborted" => j \in JobsIn(jobs)
    OBVIOUS
  <2> QED
    BY <1>1, <2>1, <2>2, StillWorking DEF IInv, Parts
<1>3. CASE ui'.content # "loading"
  BY <1>1, <1>3 DEF IInv, Parts, Working
<1> QED
  BY <1>2, <1>3

\* Stations are installed for the latest search alone.
LEMMA SearchInstallsKeeps ==
    ASSUME IInv, SearchInstalls
    PROVE  Parts' /\ ui'.centre = lastAsked
<1> DEFINE n == Onward(This.station)
<1>1. /\ TypeOK /\ jobs # <<>> /\ This.do = "search" /\ This.outcome = "ok"
      /\ ui \in Screens /\ Fits(ui)
      /\ jobs' = Rest \o n
      /\ searches' = searches /\ searchCtl' = searchCtl /\ details' = details
      /\ detailCtl' = detailCtl
      /\ lastAsked' = lastAsked /\ lastFailed' = lastFailed /\ lastOpened' = lastOpened
  BY TypeParts DEF SearchInstalls, Runs, IInv, Parts, DimmedForSelection, Fits,
                   netVars, historyVars
<1>2. This \in Job /\ This \in JobsIn(jobs)
  BY <1>1, Running DEF IInv, Parts
<1>3. This.zone \in Zones /\ This.station \in StationOrNone /\ This.zone = lastAsked
  BY <1>1, <1>2, JobFacts DEF IInv, Parts, Latest, Answers
<1>4. /\ n \in Seq(Job)
      /\ \A j \in JobsIn(n) : j.do \in {"select", "render"}
      /\ This.station # None =>
            \E j \in JobsIn(n) : Opening(j) /\ j.station = This.station
  BY <1>3, WhatFollows
<1> HIDE DEF n
<1>5. /\ JobsIn(jobs) = {This} \cup JobsIn(Rest)
      /\ JobsIn(jobs') = JobsIn(Rest) \cup JobsIn(n)
      /\ AbortedOnce(jobs)' /\ Fetching(JobsIn(jobs))' /\ Latest(JobsIn(jobs))'
      /\ Detailing(JobsIn(jobs))'
  BY <1>1, <1>4, JobRuns DEF Aborts
<1>6. ui'.content = ui.content /\ ui'.centre = lastAsked /\ Fits(ui')
  <2>1. PICK e \in SUBSET Stations :
           ui' = syncMarkers([ui EXCEPT !.stations = InZone[This.zone],
                                        !.centre = This.zone], e)
    BY DEF SearchInstalls
  <2> QED
    BY <1>1, <1>3, <2>1, ScreenKeeps, ScreenFits
<1>7. Coming(JobsIn(jobs))'
  BY <1>1, <1>6 DEF Coming
<1>8. Working(JobsIn(jobs))'
  <2>1. lastOpened # None /\ This.station = lastOpened =>
           \E k \in JobsIn(n) : Opening(k) /\ k.station = lastOpened
    BY <1>4
  <2> QED
    BY <1>1, <1>4, <1>5, <1>6, <2>1, JobWorks
<1> QED
  BY <1>5, <1>6, <1>7, <1>8 DEF Parts, DimmedForSelection, Fits

\* A search that fails is given up only if it is the latest.
LEMMA SearchFailsKeeps ==
    ASSUME IInv, SearchFails
    PROVE  Parts'
<1> DEFINE n == Onward(This.station)
<1>1. /\ TypeOK /\ jobs # <<>> /\ This.do = "search" /\ This.outcome # "ok"
      /\ jobs' = Rest \o n /\ ui' = ui
      /\ searches' = searches /\ searchCtl' = searchCtl /\ details' = details
      /\ detailCtl' = detailCtl
      /\ lastAsked' = lastAsked /\ lastOpened' = lastOpened
      /\ lastFailed \/ (This.outcome = "error" /\ This.zone = lastAsked) => lastFailed'
  BY TypeParts DEF SearchFails, Runs, IInv, netVars
<1>2. This \in Job /\ This.station \in StationOrNone
  BY <1>1, Running, JobFacts DEF IInv, Parts
<1>3. /\ n \in Seq(Job)
      /\ \A j \in JobsIn(n) : j.do \in {"select", "render"}
      /\ This.station # None =>
            \E j \in JobsIn(n) : Opening(j) /\ j.station = This.station
  BY <1>2, WhatFollows
<1> HIDE DEF n
<1>4. /\ JobsIn(jobs) = {This} \cup JobsIn(Rest)
      /\ JobsIn(jobs') = JobsIn(Rest) \cup JobsIn(n)
      /\ AbortedOnce(jobs)' /\ Fetching(JobsIn(jobs))' /\ Latest(JobsIn(jobs))'
      /\ Detailing(JobsIn(jobs))'
  BY <1>1, <1>3, JobRuns DEF Aborts
<1>5. Coming(JobsIn(jobs))'
  <2>1. \A j \in JobsIn(jobs) : j = This \/ j \in JobsIn(jobs')
    BY <1>4
  <2> QED
    BY <1>1, <2>1 DEF IInv, Parts, Coming
<1>6. Working(JobsIn(jobs))'
  <2>1. lastOpened # None /\ This.station = lastOpened =>
           \E k \in JobsIn(n) : Opening(k) /\ k.station = lastOpened
    BY <1>3
  <2> QED
    BY <1>1, <1>3, <1>4, <2>1, JobWorks
<1> QED
  BY <1>1, <1>4, <1>5, <1>6 DEF Parts, IInv, DimmedForSelection
\* An opening that goes on searches around its station; whatever was asked for
\* since its answer arrived was asked for by another opening of the same station.
LEMMA OpenSearchesHomeKeeps ==
    ASSUME IInv, OpenSearchesHome
    PROVE  Parts'
<1> DEFINE s == This.station
           Q == JobsIn(Rest)
<1>1. /\ TypeOK /\ jobs # <<>> /\ This.do = "open" /\ This.outcome = "ok" /\ Opens(This)
      /\ Table(searches, Zones, StationOrNone) /\ ui \in Screens /\ Fits(ui)
      /\ details' = details /\ detailCtl' = detailCtl /\ lastOpened' = lastOpened
      /\ Fetching(JobsIn(jobs)) /\ Latest(JobsIn(jobs))
  BY TypeParts DEF OpenSearchesHome, Runs, IInv, Parts, DimmedForSelection, Fits, Opens
<1>2. /\ This \in Job /\ Rest \in Seq(Job) /\ JobsIn(jobs) = {This} \cup Q
      /\ AbortedOnce(Rest) /\ s \in Stations /\ s \in StationOrNone
  BY <1>1, Running, JobFacts DEF IInv, Parts, StationOrNone
<1>3. PICK t \in Selected : performSearch(ui, HomeZone[s][t], s, Rest)
  BY DEF OpenSearchesHome
<1> DEFINE z == HomeZone[s][t]
<1>4. z \in Zones /\ Setting[z] = t
  BY <1>2, HomeIsHome DEF Selected
<1>5. Fetching(Q) /\ Latest(Q)
  <2>1. \A j : j.do = "searchAborted" => (j \in JobsIn(jobs) <=> j \in Q)
    BY <1>1, <1>2
  <2>2. \A y : SearchAborted(y).do = "searchAborted"
    BY DEF SearchAborted
  <2>3. Fetching(Q)
    BY <1>1, <2>1, <2>2 DEF Fetching
  <2> QED
    BY <1>1, <1>2, <2>3 DEF Latest
<1>6. Agrees(z, Q)
  <2>1. ASSUME NEW j \in Q, Answers(j) \/ j.do = "searchAborted"
        PROVE  z = lastAsked
    <3>1. lastAsked = HomeOf(s)
      BY <1>1, <1>2, <2>1 DEF Latest
    <3>2. lastAsked # None
      <4>1. CASE Answers(j)
        <5>1. j \in Job /\ j.do = "search"
          BY <1>2, <4>1, QueueJobs DEF Answers
        <5>2. j.zone \in Zones /\ j.zone = lastAsked
          BY <1>5, <4>1, <5>1, JobFacts DEF Latest
        <5> QED
          BY <5>2, NoneAssumption
      <4>2. CASE j.do = "searchAborted"
        BY <1>5, <4>2 DEF Fetching
      <4> QED
        BY <2>1, <4>1, <4>2
    <3>3. t = Setting[lastAsked]
      BY <3>2 DEF Selected
    <3> QED
      BY <3>1, <3>3 DEF HomeOf
  <2>2. ASSUME NEW j \in Q, Opens(j)
        PROVE  z = HomeZone[j.station][Setting[z]]
    <3>1. j.station = s
      BY <1>1, <1>2, <2>2 DEF Latest
    <3> QED
      BY <1>4, <3>1
  <2> QED
    BY <2>1, <2>2 DEF Agrees
<1> HIDE DEF z
<1>7. performSearch(ui, z, s, Rest)
  BY <1>3 DEF z
<1>8. AbortedOnce(jobs') /\ ui' = closePanel(ui)
      /\ (Joined(z, s, Q) \/ Answered(z, s, Q) \/ Begun(z, s, Q))
  BY <1>1, <1>2, <1>4, <1>5, <1>7, SearchEffect
<1>9. Fetching(JobsIn(jobs))' /\ Latest(JobsIn(jobs))' /\ Coming(JobsIn(jobs))'
  BY <1>1, <1>2, <1>4, <1>5, <1>6, <1>7, SearchKeeps
<1>10. /\ \A j \in JobsIn(jobs') : j \in Q \/ j.do \in {"searchAborted", "search"}
       /\ Q \subseteq JobsIn(jobs')
  BY <1>8 DEF Joined, Answered, Begun, Aborting, SearchAborted, SearchJob
<1>11. Detailing(JobsIn(jobs))'
  <2>1. \A j \in JobsIn(jobs') : j \in JobsIn(jobs) \/ j.do # "detailsAborted"
    BY <1>2, <1>10
  <2> QED
    BY <1>1, <2>1, DetailsUndisturbed DEF IInv, Parts
<1>12. ui'.content = ui.content /\ Fits(ui')
  BY <1>1, <1>8, ScreenKeeps, ScreenFits
<1>13. Working(JobsIn(jobs))'
  <2>1. ASSUME ui.content = "loading"
        PROVE  lastOpened # None /\ Waits(lastOpened, JobsIn(jobs))'
    <3>1. lastOpened # None
           /\ (Awaited(lastOpened)
                 \/ \E j \in JobsIn(jobs) : Opening(j) /\ j.station = lastOpened)
      BY <1>1, <2>1 DEF IInv, Parts, Working, Waits, Awaited
    <3>2. CASE Awaited(lastOpened)
      <4>1. Awaited(lastOpened)'
        BY <1>1, <1>2, <1>4, <1>8, <3>2, StillAwaited
      <4> QED
        BY <1>1, <3>1, <4>1 DEF Awaited, Waits
    <3>3. ASSUME NEW j \in JobsIn(jobs), Opening(j), j.station = lastOpened
          PROVE  Waits(lastOpened, JobsIn(jobs))'
      <4>1. CASE j \in Q
        BY <1>1, <1>10, <3>3, <4>1 DEF Waits
      <4>2. CASE j = This /\ Joined(z, s, Q)
        <5>1. /\ z \in DOMAIN searches' /\ searches'[z] = Append(searches[z], s)
              /\ searches[z] \in Seq(StationOrNone)
          BY <1>1, <4>2 DEF Joined, Table
        <5>2. /\ Len(searches'[z]) \in 1 .. Len(searches'[z])
              /\ searches'[z][Len(searches'[z])] = s
          BY <1>2, <5>1
        <5> QED
          BY <1>1, <3>3, <4>2, <5>1, <5>2 DEF Waits
      <4>3. CASE j = This /\ Answered(z, s, Q)
        <5>1. SearchJob(z, s, "ok") \in JobsIn(jobs')
          BY <4>3 DEF Answered
        <5>2. SearchJob(z, s, "ok").do = "search" /\ SearchJob(z, s, "ok").station = s
          BY DEF SearchJob
        <5> QED
          BY <1>1, <3>3, <4>3, <5>1, <5>2 DEF Waits, Opening
      <4>4. CASE j = This /\ Begun(z, s, Q)
        <5>1. z \in DOMAIN searches' /\ searches'[z] = <<s>>
          BY <4>4 DEF Begun, With
        <5>2. 1 \in 1 .. Len(searches'[z]) /\ searches'[z][1] = s
          BY <5>1
        <5> QED
          BY <1>1, <3>3, <4>4, <5>1, <5>2 DEF Waits
      <4> QED
        BY <1>2, <1>8, <4>1, <4>2, <4>3, <4>4
    <3> QED
      BY <3>1, <3>2, <3>3
  <2>2. \A j \in JobsIn(jobs') : j.do = "open" => j \in JobsIn(jobs)
    BY <1>2, <1>10
  <2> QED
    BY <1>1, <1>12, <2>1, <2>2 DEF IInv, Parts, Working
<1> QED
  BY <1>8, <1>9, <1>11, <1>12, <1>13 DEF Parts, DimmedForSelection, Fits

\* The other jobs leave behind at most the drawing of the panel.
LEMMA LastJobsKeep ==
    ASSUME IInv, OpenInPlace \/ OpenFails \/ SelectAfterSearch \/ RenderStation
    PROVE  Parts'
<1> DEFINE draws == OpenInPlace \/ SelectAfterSearch
           s == This.station
           n == IF draws THEN <<RenderJob(s)>> ELSE <<>>
<1>1. /\ TypeOK /\ jobs # <<>> /\ ui \in Screens /\ Fits(ui)
      /\ This.do \in {"open", "select", "render"}
      /\ searches' = searches /\ searchCtl' = searchCtl /\ details' = details
      /\ detailCtl' = detailCtl
      /\ lastAsked' = lastAsked /\ lastFailed' = lastFailed /\ lastOpened' = lastOpened
  BY TypeParts DEF OpenInPlace, OpenFails, SelectAfterSearch, RenderStation, Runs,
                   IInv, Parts, DimmedForSelection, Fits, netVars, historyVars
<1>2. /\ This \in Job /\ Rest \in Seq(Job) /\ s \in Stations /\ This \in JobsIn(jobs)
  BY <1>1, Running, JobFacts DEF IInv, Parts
<1>3. /\ n \in Seq(Job) /\ jobs' = Rest \o n
      /\ \A j \in JobsIn(n) : j.do \in {"select", "render"}
      /\ draws => \E k \in JobsIn(n) : Opening(k) /\ k.station = s
  <2>1. CASE draws
    <3>1. RenderJob(s) \in Job /\ RenderJob(s).do = "render" /\ RenderJob(s).station = s
      BY <1>2, JobNames DEF RenderJob
    <3>2. JobsIn(<<RenderJob(s)>>) = {RenderJob(s)} /\ <<RenderJob(s)>> \in Seq(Job)
      BY <3>1, OneJob
    <3>3. jobs' = Append(Rest, RenderJob(s))
      BY <2>1 DEF OpenInPlace, SelectAfterSearch
    <3>4. Append(Rest, RenderJob(s)) = Rest \o <<RenderJob(s)>>
      BY <1>2, <3>1
    <3> QED
      BY <2>1, <3>1, <3>2, <3>3, <3>4 DEF Opening
  <2>2. CASE ~draws
    <3>1. jobs' = Rest
      BY <2>2 DEF OpenFails, RenderStation
    <3>2. Rest \o <<>> = Rest
      BY <1>2
    <3> QED
      BY <2>2, <3>1, <3>2, NoJobs
  <2> QED
    BY <2>1, <2>2
<1>4. /\ Fits(ui') /\ ui'.centre = ui.centre
      /\ ui'.content = "loading" => ui.content = "loading" /\ ~RenderStation
      /\ OpenFails /\ ui'.content = "loading" => This.outcome = "aborted"
  <2>1. CASE OpenInPlace
    BY <1>1, <2>1 DEF OpenInPlace, OpenFails, RenderStation, Runs
  <2>2. CASE OpenFails
    <3>1. CASE This.outcome = "error"
      BY <1>1, <2>2, <3>1, ScreenFits DEF OpenFails, Screens
    <3>2. CASE This.outcome # "error"
      <4>1. This.outcome \in Outcomes /\ This.outcome # "ok"
        BY <1>2, <2>2, JobFacts DEF OpenFails, Runs
      <4> QED
        BY <1>1, <2>2, <3>2, <4>1 DEF OpenFails, RenderStation, Runs, Outcomes
    <3> QED
      BY <3>1, <3>2
  <2>3. CASE SelectAfterSearch
    BY <1>1, <1>2, <2>3, ScreenKeeps, ScreenFits
       DEF SelectAfterSearch, OpenFails, RenderStation, Runs, StationOrNone
  <2>4. CASE RenderStation
    BY <1>1, <1>2, <2>4, ScreenKeeps, ScreenFits, StationsAssumption, ZenonT(40)
       DEF RenderStation, OpenFails, Runs
  <2> QED
    BY <2>1, <2>2, <2>3, <2>4
<1> HIDE DEF n
<1>5. /\ JobsIn(jobs) = {This} \cup JobsIn(Rest)
      /\ JobsIn(jobs') = JobsIn(Rest) \cup JobsIn(n)
      /\ AbortedOnce(jobs)' /\ Fetching(JobsIn(jobs))' /\ Latest(JobsIn(jobs))'
      /\ Detailing(JobsIn(jobs))'
  BY <1>1, <1>3, JobRuns DEF Aborts
<1>6. Coming(JobsIn(jobs))'
  <2>1. \A j \in JobsIn(jobs) : j.do = "search" => j \in JobsIn(jobs')
    BY <1>1, <1>5
  <2> QED
    BY <1>1, <1>4, <2>1, StillComing DEF IInv, Parts
<1>7. Working(JobsIn(jobs))'
  <2>1. This.do = "open" /\ This.outcome = "aborted" => s # lastOpened
    BY <1>2 DEF IInv, Parts, Working
  <2>2. s = lastOpened /\ ui'.content = "loading" => draws
    <3> SUFFICES ASSUME s = lastOpened, ui'.content = "loading"
                 PROVE  draws
      OBVIOUS
    <3>1. ~RenderStation
      BY <1>4
    <3>2. ~OpenFails
      BY <1>4, <2>1 DEF OpenFails, Runs
    <3> QED
      BY <3>1, <3>2
  <2>3. s = lastOpened /\ ui'.content = "loading" =>
           \E k \in JobsIn(n) : Opening(k) /\ k.station = lastOpened
    BY <1>3, <2>2
  <2> HIDE DEF draws
  <2> QED
    BY <1>1, <1>3, <1>4, <1>5, <2>3, JobWorks
<1> QED
  BY <1>4, <1>5, <1>6, <1>7 DEF Parts, DimmedForSelection, Fits
-----------------------------------------------------------------------------
\* The invariant holds at the start and after every step.

\* At the start nothing is asked for.
LEMMA InitIInv == Init => IInv
<1> SUFFICES ASSUME Init PROVE IInv
  OBVIOUS
<1>1. /\ jobs = <<>> /\ DOMAIN searches = {} /\ DOMAIN details = {}
      /\ lastAsked = None /\ ui.content = "blank" /\ ui.centre = None
      /\ ui.dimmed = FALSE /\ ui.lit = {}
  BY DEF Init
<1>2. TypeOK
  <2>1. ui \in Screens
    BY DEF Init, Screens, StationOrNone
  <2>2. Table(searches, Zones, StationOrNone) /\ Table(details, Stations, BOOLEAN)
    BY DEF Init, Table
  <2> QED
    BY <2>1, <2>2, NoJobs, TypeParts DEF Init, StationOrNone
<1>3. AbortedOnce(jobs) /\ JobsIn(jobs) = {}
  BY <1>1, NoJobs, NothingTwice
<1>4. Fetching({}) /\ Detailing({}) /\ Latest({}) /\ Coming({}) /\ Working({})
  BY <1>1 DEF Fetching, Detailing, Latest, Coming, Working
<1>5. DimmedForSelection
  BY <1>1 DEF DimmedForSelection
<1> QED
  BY <1>2, <1>3, <1>4, <1>5 DEF IInv, Parts

\* The events and jobs that change the screen alone.
LEMMA ScreenEventsKeep ==
    ASSUME IInv,
           \/ UserCloses
           \/ \E eligible \in SUBSET Stations : MarkersRefresh(eligible)
           \/ LanguageChanges
           \/ DragStarts
           \/ \E closing \in BOOLEAN : DragEnds(closing)
           \/ UNCHANGED vars
    PROVE  Parts' /\ ui'.centre = ui.centre
<1>1. ui \in Screens /\ Fits(ui)
  BY TypeParts DEF IInv, Parts, DimmedForSelection, Fits
<1>2. /\ UNCHANGED <<netVars, jobs, historyVars>>
      /\ Fits(ui') /\ ui'.centre = ui.centre
      /\ ui'.content = "loading" => ui.content = "loading"
  <2>1. CASE UserCloses
    BY <1>1, <2>1, ScreenKeeps, ScreenFits DEF UserCloses
  <2>2. ASSUME NEW eligible \in SUBSET Stations, MarkersRefresh(eligible)
        PROVE  <1>2!:
    BY <1>1, <2>2, ScreenKeeps, ScreenFits DEF MarkersRefresh
  <2>3. CASE LanguageChanges
    BY <1>1, <2>3, ScreenKeeps, ScreenFits, StationsAssumption DEF LanguageChanges
  <2>4. CASE DragStarts
    BY <1>1, <2>4 DEF DragStarts
  <2>5. ASSUME NEW closing \in BOOLEAN, DragEnds(closing)
        PROVE  <1>2!:
    <3>1. ui' = closePanel(ui) \/ ui' = [ui EXCEPT !.hidden = FALSE]
      BY <2>5 DEF DragEnds
    <3>2. CASE ui' = closePanel(ui)
      BY <1>1, <2>5, <3>2, ScreenKeeps, ScreenFits DEF DragEnds
    <3>3. CASE ui' = [ui EXCEPT !.hidden = FALSE]
      BY <1>1, <2>5, <3>3, ScreenFits DEF DragEnds, Screens
    <3> QED
      BY <3>1, <3>2, <3>3
  <2>6. CASE UNCHANGED vars
    BY <1>1, <2>6 DEF vars
  <2> QED
    BY <2>1, <2>2, <2>3, <2>4, <2>5, <2>6
<1> QED
  BY <1>2, OnlyScreen

\* Every step keeps the invariant, and none but SearchInstalls moves the map.
LEMMA NextIInv ==
    IInv /\ [Next]_vars => IInv' /\ (ui'.centre # ui.centre => ui'.centre = lastAsked)
<1> SUFFICES ASSUME IInv, [Next]_vars
             PROVE  Parts' /\ (ui'.centre # ui.centre => ui'.centre = lastAsked)
  BY NextTypes DEF IInv
<1>0. ui \in Screens /\ TypeOK /\ AbortedOnce(jobs)
  BY TypeParts DEF IInv, Parts
<1>1. ASSUME NEW z \in Zones, UserSearches(z)
      PROVE  Parts' /\ ui'.centre = ui.centre
  BY <1>0, <1>1, UserSearchesKeeps, ScreenKeeps DEF UserSearches, performSearch
<1>2. ASSUME NEW s \in Stations, NEW known \in BOOLEAN, UserOpens(s, known)
      PROVE  Parts' /\ ui'.centre = ui.centre
  BY <1>0, <1>2, UserOpensKeeps DEF UserOpens, Screens, showPanelLoading, selectMarker
<1>3. ASSUME NEW z \in Zones, NEW o \in {"ok", "error"}, SearchSettles(z, o)
      PROVE  Parts' /\ ui'.centre = ui.centre
  BY <1>3, SearchSettlesKeeps DEF SearchSettles
<1>4. ASSUME NEW s \in Stations, NEW o \in {"ok", "error"}, DetailsSettle(s, o)
      PROVE  Parts' /\ ui'.centre = ui.centre
  BY <1>4, DetailsSettleKeeps DEF DetailsSettle
<1>5. CASE SearchRejects
  BY <1>5, SearchRejectsKeeps DEF SearchRejects
<1>6. CASE DetailsReject
  BY <1>6, DetailsRejectKeeps DEF DetailsReject
<1>7. CASE SearchInstalls
  BY <1>7, SearchInstallsKeeps
<1>8. CASE SearchFails
  BY <1>8, SearchFailsKeeps DEF SearchFails
<1>9. CASE OpenSearchesHome
  BY <1>0, <1>9, OpenSearchesHomeKeeps, ScreenKeeps DEF OpenSearchesHome, performSearch
<1>10. CASE OpenInPlace
  BY <1>10, LastJobsKeep DEF OpenInPlace
<1>11. CASE OpenFails
  <2>1. ui'.centre = ui.centre
    BY <1>0, <1>11 DEF OpenFails, Screens
  <2> QED
    BY <1>11, <2>1, LastJobsKeep
<1>12. CASE SelectAfterSearch \/ RenderStation
  <2>1. This \in Job /\ This.station \in Stations
    BY <1>0, <1>12, Running, JobFacts DEF SelectAfterSearch, RenderStation, Runs
  <2>2. ui'.centre = ui.centre
    <3>1. CASE SelectAfterSearch
      BY <1>0, <2>1, <3>1, ScreenKeeps DEF SelectAfterSearch, StationOrNone
    <3>2. CASE RenderStation
      BY <1>0, <2>1, <3>2, ScreenKeeps DEF RenderStation
    <3> QED
      BY <1>12, <3>1, <3>2
  <2> QED
    BY <1>12, <2>2, LastJobsKeep
<1> QED
  BY <1>1, <1>2, <1>3, <1>4, <1>5, <1>6, <1>7, <1>8, <1>9, <1>10, <1>11, <1>12,
     ScreenEventsKeep DEF Next, Settle, RunJob

-----------------------------------------------------------------------------
\* A spinner is never left turning over nothing: while the panel is loading, a
\* fetch of the details of the station opened last is under way, or a search made
\* for it, or a step of its opening is queued.  The safety half of SpinnerEnds
\* (panels.js:174-192, api.js:70-101).
SpinnerHasWork ==
    ui.content = "loading" =>
        /\ lastOpened # None
        /\ Waits(lastOpened, JobsIn(jobs))

\* The inductive invariant holds of every behaviour.
THEOREM Invariant == Spec => []IInv
<1>1. Init => IInv
  BY InitIInv
<1>2. IInv /\ [Next]_vars => IInv'
  BY NextIInv
<1> QED
  BY <1>1, <1>2, PTL DEF Spec

\* The screen, the fetches and the queue keep their types.
THEOREM TypeCorrect == Spec => []TypeOK
<1>1. IInv => TypeOK
  BY DEF IInv
<1> QED
  BY <1>1, Invariant, PTL

\* Once nothing is in flight, the map shows the latest search unless it failed,
\* however many fetches were joined, aborted or answered by the cache.
THEOREM LatestIsShown == Spec => []LatestSearchIsShown
<1>1. IInv => LatestSearchIsShown
  <2> SUFFICES ASSUME IInv, Idle, DOMAIN searches = {}, ~lastFailed
               PROVE  ui.centre = lastAsked
    BY DEF LatestSearchIsShown
  <2>1. JobsIn(jobs) = {}
    BY NoJobs DEF Idle
  <2> QED
    BY <2>1 DEF IInv, Parts, Coming
<1> QED
  BY <1>1, Invariant, PTL

\* The map is dimmed only for a selected station whose marker is the one drawn as
\* selected.
THEOREM DimmingFits == Spec => []DimmedForSelection
<1>1. IInv => DimmedForSelection
  BY DEF IInv, Parts
<1> QED
  BY <1>1, Invariant, PTL

\* A superseded search never replaces the stations on the map.
THEOREM SupersededStaysAway == Spec => SupersededNeverInstalls
<1>1. IInv /\ [Next]_vars => [ui'.centre # ui.centre => ui'.centre = lastAsked]_vars
  BY NextIInv
<1> QED
  BY <1>1, Invariant, PTL DEF Spec, SupersededNeverInstalls

\* A panel that is loading has work behind it.
THEOREM SpinnersWork == Spec => []SpinnerHasWork
<1>1. IInv => SpinnerHasWork
  BY DEF IInv, Parts, Working, SpinnerHasWork
<1> QED
  BY <1>1, Invariant, PTL
=============================================================================
