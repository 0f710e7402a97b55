# oh-my-pieno, specified

TLA+ models of [oh-my-pieno](../src/README.md), a map of Italian fuel prices: a
Go server that answers searches from two upstream services through caches, and a
browser front end in plain JavaScript. The models are checked with TLC on small
instances. Every safety property that the passing runs check, of the server and of
the browser, is also proved with TLAPS for every value of the constants.

Paths below are relative to `src/`. Every definition names its source lines in
`PROJECT.json` ("map").

## 1. The system

### Server (Go)

| Component | State | Operations | What is hard | What makes it correct |
|---|---|---|---|---|
| LRU cache, `internal/cache/cache.go` | map, recency list, deadlines, stop channel | Set, Get, Stop, the janitor's sweep | a map and a list under one mutex; deadlines fixed before the lock; a sweep that walks the list it removes from; tick against Stop | the two structures agree; it behaves as an LRU store with deadlines; expired entries go unasked; the janitor obeys Stop |
| Rate limiter, `internal/app/ratelimit.go` | table of token buckets, stop channel | allow, pruning, cleanup, stop, the choice of the client address | dropping and remaking buckets; a full table; headers the client forges | nobody exceeds the rate, nobody is refused without cause, the table is bounded |
| Station client, `internal/api/client.go` | two caches, a singleflight group | SearchZone, GetServiceArea, doRequest | a shared call that outlives the request that led it; cancellation; cache read outside the group | one call per key, the right answer for each, no cancellation felt by others, every request ends |
| Geocoding client, `internal/api/geocode.go` | cache, singleflight group, limiter | Geocode | the same, with a limiter that may refuse the shared call | the same; languages do not mix |
| Timing and log, `internal/obs/obs.go`, `app.go:116` | a counter per request | Record, Snapshot | written by a goroutine that outlives the request | a log line tells the round trips its request waited for (those of a cancelled leader are in none, see 6) |
| Handlers, `internal/handlers` | none of their own; results shared through the cache | search, station, fuels, geocode; validation; errors | results are shared by pointer between requests | a search gets the lowest price of its own fuel; only valid points go upstream |
| Response middleware, `app.go:133-296` | pool of gzip writers, one decision per response | WriteHeader, Write, Flush, close | a pooled writer passes between requests; headers settle at the first byte | every client gets its whole body under a header that fits it |
| Lifecycle, `main.go`, `app.go:29-101`, `config.go` | server, connections, signal | Run, Close | draining against timeouts set in three files; a signal and a failure at once; connections that stay open | a request in flight is answered before the process ends; the process ends |

A request passes logging, security headers, gzip, the rate limiter (only
`/api/`), cache-control, validation and a handler; the handler calls a client;
the client reads its cache, then joins or starts the one call in flight for the
key. That call runs in its own goroutine and fills the cache. All three caches
and the limiter have a background goroutine each.

### Browser (JavaScript)

| Component | State | What is hard | What makes it correct |
|---|---|---|---|
| Searches, panel, markers: `panels.js`, `api.js`, `map.js`, `ui.js`, `app.js` | `state.js`, the DOM, fetches in flight, abort controllers | code goes on after an await in a world that has changed; a fetch is joined while it is being aborted | the map shows the latest search, the panel the latest selection; no spinner without work behind it |
| Draggable sheets, `Sheet.js` | a drag per panel | a drag outlives the panel it began on | closing is not undone unnoticed |
| Client cache, `api.js:7-49` | map with deadlines | recency by reinsertion | an LRU store with deadlines |
| History and favourites, `state.js:3-97` | two lists per tab, written whole to localStorage | two tabs over one storage; a write that throws after the list has changed | nothing else loses an update; the heart tells the truth |
| Dialogs and keys: `modal.js`, `tutorial.js`, `settings.js`, `keyboard.js`, toggles of `panels.js` | overlays, their listeners, the session history | close() is not idempotent; history.back() only asks; two listeners hear one key | Back dismisses the tutorial and keeps the page; an Escape that closes a dialog leaves the panels; a tutorial that was finished does not come up again |
| Controls, address bar, boot, brand filter: `app.js`, `state.js:99-140`, `map.js:35-95`, `ui.js:264-321` | the view, a 250 ms timer, the filter, its options, the URL | six handlers and a timer write the URL, each at its own point; the filter outlives the zone its options came from | a reload restores the view; markers, options and filter fit one another |
| Address search and suggestions, `app.js:233-319` | a debounce timer, a controller | an answer that arrives when nobody wants it | suggestions are those for the latest text |
| Texts, formats, constants, page, style | none | nothing | not modelled |

One thread runs all of it. An async function is cut at each `await`; a promise's
continuations run before the next event.

## 2. The modules

| Module | Models | Shape |
|---|---|---|
| `LRUStore` | what a caller of either cache is promised | abstract: a finite map, a recency *relation*, a clock. No list, no lock, no sweep |
| `Cache` | `cache.go` | `items`, `lru`, the sweep cut element by element (`SweepBegin`, `SweepStep`, `SweepEnd`), Set cut where it takes the mutex |
| `CacheProofs` | | theorems about `Cache`, the refinement among them |
| `RateLimit` | `ratelimit.go` | table of `[credit, last, lastSeen]`; one action per outcome of a request (`Grant`, `Refuse`, `TurnAway`), plus cleanup |
| `RateLimitProofs` | | theorems about `RateLimit` |
| `UpstreamClients` | `client.go`, `geocode.go`, the singleflight library, `obs.go`, the logging middleware | a request and the call it leads are two processes; zones, areas and places are three kinds of query |
| `UpstreamClientsProofs` | | theorems about `UpstreamClients` |
| `GzipWriter` | `gzipResponseWriter` and its pool | functions of the state of all responses |
| `Handlers` | `internal/handlers`; EXTENDS `GzipWriter` | a request is cut at each station it enriches and each piece it writes |
| `HandlersProofs` | | theorems about `Handlers` and `GzipWriter` |
| `StationView` | searches, openings, markers, panel, its sheet | one-threaded: a queue of jobs, `Idle` guards the events |
| `StationViewProofs` | | theorems about `StationView` |
| `Overlays` | dialogs, keys, toggles, drags, suggestions, session history | functions of the page, applied by one action per event |
| `MapControls` | fuel, radius, brand, the map's place, the URL and the boot that reads it, the brand filter | one action per control; searches are pending or not |
| `PageProofs` | | theorems about `MapControls` and `Overlays`; it extends both, which is why some names in `Overlays` carry its own |
| `Collections` | history and favourites in several tabs over one localStorage | a tab is a record; an action per event in a tab |
| `CollectionsProofs` | | theorems about `Collections` |
| `Lifecycle` | `main.go`, `App.Run`, `App.Close`, the timeouts, over net/http's connections | time in ticks: `Tick` waits for what is due |
| `LifecycleProofs` | | theorems about `Lifecycle` |
| `MC*` | | model values for TLC |

How state corresponds to the code is said at each VARIABLE, how an action does
in "map". Conventions: a variable has the source's name where it has one there;
an operator written in lower case is the function of that name. *Definitions
called `slip_` are plausible mistakes in the definition after them. No action
uses them; put in its place, each makes a checked property fail.*

### Abstractions worth knowing

- `Cache`: the clock does not go back. The ticker's period is left out: a tick
  may come at any time, so a sweep is never late in the model because of it.
  A ticker holds one tick, so does `tickDue`.
- `RateLimit`: a bucket's credit is an integer number of ticks (the library uses
  floating point); each request reads the clock once, where the code
  reads it up to three times under the mutex. The proxy is the usual one:
  it appends the peer's address to one X-Forwarded-For header. `grants`, `asked` and
  `refusals` are history: no guard reads them. A refusal may leave the table as it is;
  `refusals`, a count modulo 2, makes it a step that an action property sees.
- `UpstreamClients`: the caches are maps that may forget any key at any time,
  which is what `LRUStore` with its deadlines and evictions looks like without
  the clock. The two singleflight groups and three caches share one map, their
  keys being of different kinds. The geocoder's limiter earns a token whenever
  it likes, up to its burst. `GetServiceArea` (`Area`) is in the module but not in the
  instances: its control is SearchZone's line for line, with another key.
- `Handlers`: latitude and longitude are members of a small set with a kind
  (number, NaN, infinite, garbage, absent). Static files are two pieces. Flush
  is left out since no handler calls it.
- `StationView`: the two collection panels appear by what they do to the station panel. A marker
  made after its station was selected is not highlighted, as in the code. A
  station without a price for the selected fuel has no marker. `located` follows
  the one object the cache shares between openings. A request the cache could
  answer may always have to be fetched again. `Listed` are the entries of the history and of the
  favourites, each with or without the station's coordinates.
- `Lifecycle`: a handler takes as long as its one upstream round trip, and no
  time for the rest (every handler makes at most one). `Poll` is not fair and
  `Expire` is: Shutdown polls at growing intervals, so that it may see the
  connections gone only at its deadline. A request that is still being read when
  main goes on to close is `late`: it is handled, but nothing is promised to it.
- `Collections`: what a history entry knows of a station is a set of facts; a
  missing brand, address or location is taken from the entry before, a date
  yields only to a later one, so a fact once known stays. Timestamps are left out.
  One opening per tab waits for a search at a time.
- `MapControls`: a place is one value for latitude and longitude. All stations
  have a price and are in view, and none is selected: those exceptions are
  `StationView`'s. The tutorial's entry is the only one the page pushes; which
  address was current then is left open, and going forward to it again left out. `GoTo` is every place that calls setView and
  searches: the boot's own position, the locate button, a suggestion, an address.
- `Overlays`: any station panel event may come at any time. A page that was left
  comes back by loading anew. `finished` is history: the tutorial's latest run has gone
  from the screen at the end of its fade. The steps inside the tutorial, focus and the
  Tab trap are left out.

## 3. The runs

Constants are in each `.cfg`; every bound is named in a guard of the module.

| Run | Question | Instance and why it is enough |
|---|---|---|
| `cache` | Does the cache implement `LRUStore`, with map and list in step, expiry unasked, and a janitor that stops? | 3 keys for 2 places: eviction, overwriting and the third key's return all occur. One value, as an overwrite also shows in deadline and recency. Clock to 3, durations 0 (never) and 1: an entry can be fresh, expire, be swept and be set again. One setter with a delayed commit beside the janitor and Gets |
| `rate_limit` | Rate, cause of refusal, bound, invisibility of pruning, forgetting | 3 clients for a table of 2: one is turned away, returns, and takes a pruned place. Burst 1 with Cost 3 = IdleTTL is the tightest legal ratio: a bucket is pruned on the first tick it may be. Clock to 5: a full refill, then a client pruned and re-admitted. Each client may claim to be any other in both headers |
| `upstream_clients` | Coalescing, cancellation, monotone reads | 3 requests for one key (a leader, one that joins, one that comes late); data change once. Requests are interchangeable, so symmetry is sound (no liveness here) |
| `upstream_clients_ends` | Right answers; every request ends | 2 requests, one place in two languages that the geocoder maps to different keys, a budget of one call |
| `handlers` | Own fuel, own body, fitting header, valid searches | 2 requests, as a writer or a result changes hands between two; 2 writers; queries with one fault each; a station whose lowest price is first, last, repeated, absent or 0 |
| `station_view` | Latest search shown, dimming, no stale installation, spinners end | 2 stations, 3 zones: one holds both stations, one a single station, one a station without a price, under two fuels. One station's coordinates are known from its list entry only, the other's from the server only, so that each is searched for when it has no marker. `MaxPending` 2 bounds the continuations pending *when the user acts*: an opening that waits and a second that overtakes it. What they start is not bounded |
| `station_view_stale` | api.js:111-113 | violated, see 6 |
| `overlays` | Back dismisses the tutorial; one that has finished stays away; Escape spares the panels; suggestions | 2 removals per fade (a double click, or Escape heard twice), 3 history entries (a replay before the last entry is gone), 2 pending requests to go back, 2 texts (an earlier and a later; interchangeable, so symmetry is sound) |
| `overlays_back` | tutorial.js:118 | violated, see 6 |
| `map_controls` | Does a reload restore the view? Do filter and zone fit? | 2 places, 2 zooms (one of them 0, which the boot takes for none), 2 fuels, 2 radii; 2 brands and the bucket, one place in the top, so that a brand enters and leaves it; zones with a draw and without named brands |
| `collections` | What can lose an update? Does the heart tell the truth? | 3 stations for 2 places in the history: one falls out and comes back. 2 tabs, so one can be stale. 5 writes: four openings with a refused write among them, or two tabs' marks in turn |
| `lifecycle` | Is what is in flight served? Does the process end? | ticks of 5 s with the code's timeouts: 5 s to read, 15 s upstream, 20 s to write and to shut down. 3 connections: one in flight, one new, one idle. Deadlock is not checked: a process that has ended does nothing |

### What the properties say

- **Cache**: `TypeOK`, which includes that list and map agree
  (`ListMatchesMap`); `ImplementsStore` (refinement:
  `store` is `items`, `before` is read off `lru`, a sweep's removals are the
  store's expiries); `ExpiredIsCollected`; `StopEndsJanitor`.
- **Rate limiter**: `WithinRate` is stated of the *client*, not of the key it is
  charged to, so that forged headers and remade buckets count. `RefusedOnlyWithCause`
  is its converse, for every step that refuses: a client with a bucket has used its rate up,
  and one without finds the table full of *others that asked within IdleTTL*. That is said by
  the history of requests, not by the table. `CreditChangesOnlyByGrant`: dropping a bucket and making it
  anew cannot be seen from outside. `TableBounded`; `IdleIsForgotten`.
- **Upstream clients**: `OneCallPerKey`; `CancellationIsPrivate` (only the
  cancelled are told of a cancellation, and every other log line counts all the
  round trips recorded for its request);
  `AnswerMatchesRequest`; `NoStepBack` (no request gets data older than what had
  been given out before it began); `EveryRequestEnds`.
- **Handlers**: `AnswersOwnFuel` compares with a declarative definition of the
  cheapest offer (`Cheapest`); `WholeAndOwn`; `HeaderFitsBody`; `OnlyValidSearches`.
- **Station view**: `SupersededNeverInstalls`, `LatestSearchIsShown`: an older
  search never replaces a newer one, and the newer one is not lost.
  `DimmedForSelection`, `SpinnerEnds`.
- **Overlays**: `BackDismisses`; `FinishedIsNotShownAgain`: once the tutorial has gone from
  the screen, no first search shows it again, on this visit or the next (one that was still
  fading when the page was left does come again, see 6). `EscapeTakesOneLayer`: an
  Escape that closes a dialog leaves the panels beneath. It says nothing of two dialogs,
  or of a dialog and the suggestions, which may go together, and leaves reduced motion
  out (see 6). `SuggestionsOfLatest`.
- **Map controls**: `ReloadRestores` relates the URL, written by six actions, to what
  the boot makes of it, whenever the map is at rest. `FilterFitsZone`: what is
  drawn is what the filter lets through under the *current* zone's top brands,
  and every station can be brought back by some option.
- **Collections**: `NothingIsLost` compares the stored lists with all that was
  ever opened and marked, as long as no tab wrote over what it had not read and
  none ended after a refused write: those two are the only ways to lose anything.
  `HeartTellsFavourite`.
- **Lifecycle**: `InFlightIsServed`, `ProcessEnds`.

### Fairness

- `Cache`: weak fairness of the janitor's steps, and of its choice of Stop once
  that is closed and no sweep is on (Go's `select` picks among ready cases at
  random, so Stop cannot lose forever: that is strong fairness of the choice).
  None of Set and Get: `ExpiredIsCollected` must hold if nobody calls.
- `RateLimit`: weak fairness of `Cleanup` alone (a ticker and a runnable goroutine).
- `UpstreamClients`: weak fairness of each request's and each call's own next
  step. The call ends because the HTTP clients have timeouts (15 s and 10 s).
  Nobody is obliged to cancel, forget or change anything.
- `StationView`: jobs run, and a fetch settles one way or the other: the server
  answers or its write timeout closes the connection. The user owes nothing.

- `Lifecycle`: time goes on; the main goroutine runs when it can; reads end at
  their deadline and handlers with their round trip. `ProcessEnds` needs no
  client to go away: an idle connection is closed by Shutdown or left behind.
- `Handlers`, `Overlays`, `MapControls` and `Collections` claim nothing that
  needs fairness.

## 4. The proofs

`RateLimitProofs` proves, from the assumptions in `RateLimit` and nothing else (the
addresses are finitely many, so that a table of them can be counted):

| Theorem | Statement |
|---|---|
| `TypeCorrect` | `Spec => []TypeOK` |
| `Invariant` | `Spec => []IInv` |
| `RateHolds` | `Spec => []WithinRate` |
| `CreditIsOwn` | `Spec => CreditChangesOnlyByGrant` |
| `TableIsBounded` | `Spec => []TableBounded` |
| `RefusalHasCause` | `Spec => RefusedOnlyWithCause` |

The assumption that carries weight is `IdleTTLAssumption`, IdleTTL >= Burst *
Cost: a bucket is full before it may be dropped (ten minutes against two
seconds). The bound on the clock plays no part.

*Why a stronger invariant is needed.* `WithinRate` speaks only of requests that
were let through; from it alone one cannot tell that the next grant is legal.
`IInv` adds the bucket: `EntriesInOrder` and `GrantsInPast` (instants in order),
`WithinBudget` (a client's level is at most what *every* run of its latest
grants has left over) and `NothingLost` (and at least what *some* run has left,
or a full burst). `Level` is total: an unknown client counts as full, so pruning
a stale, hence full, bucket changes no level. A grant spends `Cost` of the level
and of every run's balance alike; a tick earns both alike up to the burst.
`WithinBudget` then gives `WithinRate`, and `NothingLost` gives
`RefusedOnlyWithCause`: a bucket is empty only if its client's own grants
emptied it. The other half of `RefusedOnlyWithCause` rests on `SeenWhenAsked`, that a bucket
was last seen when its client last asked: a client is turned away when pruning leaves no
room, so the buckets that are left are MaxLimiters, all of them other clients', and each of
those has asked within IdleTTL. The layout: lemmas for each effect (`PrunedKeepsLevels`,
`NewEntryIsFull`, `TableForKeepsLevels`; `TickEarns` and `HistoryAfterTick`;
`GrantSpends` and `HistoryAfterGrant`), one for the actions that change neither
levels nor history (`Quiet`, instantiated by `PruneIsQuiet` and `RefuseIsQuiet`),
and a case per action in `NextPreserves`; `SeenPreserved` has its own.
`TableIsBounded` has its own small invariant, since a full table is pruned
within the same step.

`LifecycleProofs` proves, from `TimeoutAssumption` (the timeouts are naturals) and
`ExceedAssumption` (the upstream timeout is below the write timeout and below
shutdownTimeout, which is what app.go:85 and config.go:43 ask for):

| Theorem | Statement |
|---|---|
| `TypeCorrect` | `Spec => []TypeOK` |
| `Invariant` | `Spec => []IInv` |
| `DrainIsLongEnough` | `Spec => []InFlightIsServed` |

`InFlightIsServed` says nothing of ages, and is not inductive. `IInv` adds
`OlderThanDrain`, that a request in flight has been at work at least as long as
Shutdown has been waiting, and `NoneLeft`, that none is in flight once main has
gone beyond. A tick makes both ages grow alike, so at Shutdown's deadline a request
in flight would be older than its upstream timeout, which `TypeOK` excludes
(`NoneLeftAtDeadline`). `RespondsInTime` is the same argument for the write deadline.
The theorem holds for every number of connections and all such timeouts.

`UpstreamClientsProofs` proves, from the assumptions in `UpstreamClients` (types
only: the rounding of coordinates may be any function, the languages any strings):

| Theorem | Statement |
|---|---|
| `TypeCorrect` | `Spec => []TypeOK` |
| `Invariant` | `Spec => []IInv` |
| `CallsAreShared` | `Spec => []OneCallPerKey` |
| `AnswersMatch` | `Spec => []AnswerMatchesRequest` |
| `ReadsAreMonotone` | `Spec => []NoStepBack` |
| `CancellationStaysPrivate` | `Spec => []CancellationIsPrivate` |

`IInv` has four layers, each proved with the help of the ones before it, and
`CancellationIsPrivate` itself. `Shaped`: the stage of a request and of its call
tells what they hold. `Grouped`: the group is the inverse of the active calls, so
there is one per key; whoever has joined a call asks for its key; a leader that was
not cancelled waits for its own call, so what is recorded on it is still to be
logged. `Matching`: a result, wherever it is held, is about the key it is held
for; that equal keys mean equal questions is `SameKeyServes`. `Fresh` is what
monotone reads need: `AtLeast(v, k)` says that v is no older than anything for key
k that was given out, is cached or is on its way. It holds of the upstream's
version, of what is cached and of the result of every call, and a result once stored is
not newer than what is cached *when it is delivered*. That last part depends on `Grouped`:
were there two calls for a key, the slower could store an older result over a
newer one. A step that gives out nothing new keeps `Fresh` by `OrderKept`; storing and
delivering do by `OrderExtended`; an answer by `AnswerFresh`. Neither the bound on versions
nor the kind of a query plays a part.

`CacheProofs` proves, from the assumptions in `Cache` (MaxSize and MaxTime are
positive, durations are naturals):

| Theorem | Statement |
|---|---|
| `Invariant` | `Spec => []IInv` |
| `TypeCorrect` | `Spec => []TypeOK` |
| `Implements` | `Spec => ImplementsStore` |

`TypeOK` includes `ListMatchesMap`. `IInv` puts it as `Coherent` (the list has
each key of the map once, and not more than MaxSize of them) and adds what a step in the
middle of a sweep needs: the cursor is a place on the list, a sweep judges by a
time that has passed, and a Set that has begun carries a deadline. The refinement
rests on four lemmas that say what the list's operations do to the order of use that it
stands for: `Removed`, `Pushed`, `FrontMoved`, `BackEvicted`. From them, what the
list's back evicts is what the store calls least recently used. What a sweep
removes had expired at its `sweepNow`, so it has expired now, and forgetting it is a
step of the store (`RemovalForgets`); Get and Set are the store's own
(`HitImplements`, `CommitImplements`); the rest are stutters.

`HandlersProofs` proves, from the assumptions in `GzipWriter` and `Handlers`
(no writer is called "none" and no request "discard"; the content types of the code
are among the types, and the empty one is not compressed; a search has numbers where
it has any; the bounds are integers, the largest radius at least the default; a
station's offers are a sequence and their prices integers):

| Theorem | Statement |
|---|---|
| `Invariant` | `Spec => [](IInv /\ RInv)` |
| `BodiesAreWhole` | `Spec => []WholeAndOwn` |
| `HeadersAreTrue` | `Spec => []HeaderFitsBody` |
| `SearchesAreValid` | `Spec => []OnlyValidSearches` |
| `TypeCorrect` | `Spec => []TypeOK` |
| `AnswersAreOwn` | `Spec => []AnswersOwnFuel` |

`WholeAndOwn` and `HeaderFitsBody` speak of answered requests only, where the writer
has gone back to the pool. `IInv` says of each request, in every phase, what its reply,
its response and its gzip writer have to do with one another (`Good`): a header that has
left is the one its decision called for (`Settled`); the pieces written are the first
of its body (`Body`); those and the ones still to be written make up the whole
(`Remaining`, `Written`). `PoolIsFree` says that nobody has a pooled
writer. That a writer has one user needs no conjunct: it aims at its user, and so
has only one (`WriterIsOwn`). A step of one request leaves the rest
alone (`OutChanges`); what it does to its own is a matter of `StatusIsGood`,
`PlainPieceIsGood` and `GzipPieceIsGood`, which do not mention the state.
`SearchesAreValid` has a small invariant of its own, `VInv`.

`AnswersAreOwn` follows the data from the cache to the client. `RInv`: the shared
zone stays what the upstream sent, and the slice a search works on is either the
zone itself (no fuel was asked for) or its own, with as many stations priced as
the loop has passed. `Sound`, a part of `IInv`: a search that does not fail has
nothing but its own answer (`AnswerOf`) in its reply, in what is written and in what its gzip
writer holds. What remains is that the code's loop over the offers finds the cheapest
(`SelectedIsCheapest`): see *Induction* below.

`CollectionsProofs` proves, from the assumptions in `Collections` (the history's
limit is positive, no station is called "none"):

| Theorem | Statement |
|---|---|
| `HeartIsTrue` | `Spec => []HeartTellsFavourite` |
| `Invariant` | `Spec => []IInv` |
| `TypeCorrect` | `Spec => []TypeOK` |
| `NoUpdateIsLost` | `Spec => NothingIsLost` |

Every action replaces one tab (`OneTab`), and each keeps that tab `Honest`. The
other tabs, and how the writes went, do not come into it: a heart is
right about its own tab's list.

`NothingIsLost` speaks of moments at which no tab has a refused write. `IInv` says what
holds in between (`InStep`, once per list): a tab that has read the others' writes, and has no refused
one of its own, holds what is stored; and unless something was lost for good, what is
stored is up to date once all tabs have saved, and so is *such a tab's copy* once all
the others have. The last is what makes a refused write harmless: the tab's next one makes it
good. What the lists' operations do is a matter of lemmas about
`addToHistory` and `toggleFavorite` (`HistoryAdded`, `LatestAdded`, `KnowledgeAdded`,
`Toggled`), with no tab in sight.

`StationViewProofs` proves, from the assumptions in `StationView` (a station has a
home under each setting, which is a zone of that setting; those with a price are in
the zone; nothing is called "none", no station what the panel is without one):

| Theorem | Statement |
|---|---|
| `Invariant` | `Spec => []IInv` |
| `TypeCorrect` | `Spec => []TypeOK` |
| `LatestIsShown` | `Spec => []LatestSearchIsShown` |
| `DimmingFits` | `Spec => []DimmedForSelection` |
| `SupersededStaysAway` | `Spec => SupersededNeverInstalls` |
| `SpinnersWork` | `Spec => []SpinnerHasWork` |

`LatestSearchIsShown` holds once all is quiet; the proof is about the queue of
continuations before that. `IInv` speaks of it as a set (`JobsIn`), since most of
what is true does not depend on the order. `Fetching`: a fetch under way is the one asked for
last, under the current controller, or its abort is in the queue; `AbortedOnce` keeps
that abort from hitting a later fetch of the same zone. `Latest`: an answer in the
queue is about what was asked for last. For that, openings have to be looked at: one that goes on
may search once more, from the middle of the queue. All that do so are for one
station, and once any of them has searched, the latest search was for that station's home, so
the others join it. `Coming`: the latest search is shown, has failed or is on its way.
`Working` is the same for the panel; it gives `SpinnersWork`, the safety half of
`SpinnerEnds`: a spinner has work behind it, so none is left behind by an abort.

`PageProofs` proves, of `MapControls`, from its assumptions (the defaults are among the
choices, nothing is called "none"):

| Theorem | Statement |
|---|---|
| `ControlsInvariant` | `Spec => []IInv` |
| `TypeCorrect` | `Spec => []TypeOK` |
| `ReloadsRestore` | `Spec => []ReloadRestores` |
| `FilterFits` | `Spec => []FilterFitsZone` |

and of `Overlays`, from `BoundsAssumption` (every bound is positive):

| Theorem | Statement |
|---|---|
| `OverlaysInvariant` | `OverlaysSpec => []OverInv` |
| `OverlaysTypeCorrect` | `OverlaysSpec => []OverlaysTypeOK` |
| `BackIsOnThePage` | `OverlaysSpec => []BackDismisses` |
| `FinishedStaysAway` | `OverlaysSpec => FinishedIsNotShownAgain` |
| `EscapeIsOneLayer` | `OverlaysSpec => EscapeTakesOneLayer` |
| `LatestSuggestions` | `OverlaysSpec => SuggestionsOfLatest` |

`ReloadRestores` is inductive with the types: between a change and the write that
follows it the map is moving. It rests on `BootedRestores` and `WrittenRestores`, which
say that a boot reads back what a handler or another boot wrote. `FilterFitsZone` is not: a change
of the brand draws the markers by the top brands the filter remembers. `IInv` adds
that these are the zone's (`filter.top`). `OptionsFit` is about any zone.

Of `Overlays`, `BackDismisses` is inductive together with the types.
`FinishedIsNotShownAgain` needs `FinishedIsSeen`, a part of `OverInv`: a run that has finished
is recorded in localStorage. Only a removal makes a run finish, and it records it
(`RunIsRecorded`). The page is a record to which an event applies several functions, so the lemmas are
about the functions and any page (`DialogEffects`, `EscapeEffects`, `GoToEffects`);
most only take something away (`Less`), which keeps all that matters (`LessIsSafe`).
`SuggestionsOfLatest` needs one fact more, that no text but the latest is being asked for.

*Induction.* Two definitions are recursive functions: `Without`
(`list.filter`) and the loop in `calculateSelectedPrice`. No installed prover can
use the library's induction theorems, which take an operator. What the two
compute is proved all the same, for lists of every length, by least counterexample: a
set of naturals that is not empty has a least member (`Least`, from
`NatLessThanWellFounded` and `WFMin`), and the first place at which the function does not do
what it should is neither 0 nor a successor (`WithoutIs`, `LoopIs`).

*Only model-checked*: liveness under fairness, which is beyond the prover
(`ExpiredIsCollected`, `StopEndsJanitor`, `IdleIsForgotten`, `EveryRequestEnds`,
`SpinnerEnds`, `ProcessEnds`), and the two properties the code violates. Every
other property of a run has a theorem above.

## 5. Not modelled

| Part | Why |
|---|---|
| The browser's TTLCache (`api.js:7-49`) | planned; `StationView` takes it for a set of keys that may be forgotten |
| Whether the search-here button is shown; the order of two address searches | the code orders neither, see 6 |
| Language and theme | a value that is stored and read back whole |
| Flush, the WebSocket bypass, the constant headers | no handler calls them; no state |
| Toasts, focus, the Tab trap, the tutorial's steps, text, layout, translations | no state a property could be about |
| Build and deployment files | no behaviour of the program |

## 6. Where code and documentation part

Each is a run whose counterexample is the shortest.

1. `overlays_back` (`modal.js:38`, `tutorial.js:109`). A second click on Skip
   or Finish during the fade registers a second removal. Both run at its end, and
   both find the tutorial's history entry current, as `history.back()` only asks.
   The user goes back two entries, possibly off the page.
2. `station_view_stale` (`panels.js:144`). An opening that waits for its search
   is not cancelled by a later opening, and renders over it.

Noticed, without a run. On the server:

- The round trip of a call whose leader was cancelled is recorded after the
  middleware has read the timing, and is in no log line (`client.go:73`, `app.go:122`).
- After an offer at price 0 a dearer one is taken for the best
  (`handlers.go:97`); `AnswersOwnFuel` leaves such offers out.
- A request that misses the cache and reaches the singleflight group after the
  call in flight has ended makes a second upstream call for a key the cache now
  answers (`client.go:95-100`).
- A static file asked for by range is compressed like any other (`decide` does not
  look at the status): its Content-Range then counts bytes the client does not
  get as such.
- A request that is still being read when Shutdown begins may take 5 s to read
  and 15 s upstream: all of the 20 s of shutdownTimeout, with no margin. `docker
  stop` kills after 10 s unless told otherwise, and `docker-compose.yml` does not
  (`main.go:31`).

In the browser:

- TUTORIAL_SEEN is written at the end of the fade (`tutorial.js:108`). A tutorial that was
  dismissed, and whose page was left before that (by Back twice, say), comes up again on the next visit.
- One Escape may close the tutorial and the suggestions, or both dialogs
  (`modal.js:45-49`, `keyboard.js:26-33`): each listener acts on its own.
- With reduced motion a dialog is gone by the time `closeTopmost` looks for it,
  and the same Escape closes the panel beneath (`keyboard.js:32`, `modal.js:45`).
- The first search opens the tutorial over an open settings dialog
  (`panels.js:95`), the stacking `settings.js:58-60` avoids in the other order.
- A drag that outlasts its panel shows it again (`Sheet.js:138`), also beside the
  other collection.
- A text that becomes too short hides the suggestions, but the request for the
  longer one goes on and shows them again (`app.js:289-292`), as it does after a
  suggestion was chosen. A second address search does not abort the first, so the
  older may win (`app.js:263-279`).
- Two tabs overwrite each other's lists (`state.js:33-34, 64, 95`). If setItem
  throws, opening a station ends in an error and a click leaves the heart as it was.
- The boot takes zoom 0, latitude 0 and longitude 0 for absent (`app.js:88-90`). A
  link with a brand but no fuel loses the brand from the address bar on a first
  visit, since loadFuels writes it before the brand is read (`app.js:94-95`). Going back
  over the tutorial's entry restores an older address that nobody reads.

## 7. Plan

Modelled: every server component, and of the browser all but what section 5
lists. Left, in this order:

1. `ClientCache`: TTLCache (`api.js:7-49`) as a second implementation of `LRUStore`,
   recency by reinsertion, with its refinement proved. Bounds as for `cache`.
2. The hazards no property covers yet (`PROJECT.json`, those with a note).
