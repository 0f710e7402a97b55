----------------------------- MODULE MapControls -----------------------------
(***************************************************************************)
(* The controls of the page: fuel, radius and brand, the place the map is  *)
(* at, the address bar that records them (state.js), the boot that reads   *)
(* it (app.js) and the brand filter (map.js, ui.js).                       *)
(*                                                                         *)
(* Searches are StationView's subject; here one is pending or not, and     *)
(* brings a zone: how many stations there are of each brand.  No station   *)
(* is selected, and all are in view and have a price.                      *)
(***************************************************************************)
EXTENDS Integers, FiniteSets

CONSTANTS
    Centres, Home,          \* places for the map; MAP_CONFIG's default
    MaxZoom, DEFAULT_ZOOM,
    Fuels, FirstFuel,       \* FUELS, FUELS[0]
    Radii, DEFAULT_RADIUS,
    Brands,                 \* brands by the rank of their names; not the bucket
    BUCKET, TOP_N,          \* BRAND_CONFIG
    Zones,                  \* what a search may bring: brand or bucket -> stations
    None

Named == Brands \cup {BUCKET}
Views == [centre : Centres, zoom : 0 .. MaxZoom, fuel : Fuels, radius : Radii,
          brand : Named \cup {None}]
Bare == [centre |-> None, zoom |-> None, fuel |-> None, radius |-> None, brand |-> None]

ASSUME ControlsAssumption ==
    /\ Home \in Centres /\ MaxZoom \in Nat /\ DEFAULT_ZOOM \in 1 .. MaxZoom
    /\ FirstFuel \in Fuels /\ DEFAULT_RADIUS \in Radii
    /\ Brands \subseteq Nat /\ BUCKET \notin Brands /\ TOP_N \in Nat
    /\ Zones \subseteq [Named -> Nat]

ASSUME NoneAssumption ==
    None \notin Centres \cup (0 .. MaxZoom) \cup Fuels \cup Radii \cup Named

VARIABLES
    view,       \* where the map is, selectedFuelId, radius, selectedBrand
    motion,     \* what is under way: the map "moving", the 250 ms after it ("timer")
    savedFuel,  \* localStorage: FUEL
    url,        \* the query of the address bar; None: one written before the
                \*   latest, left open which
    beneath,    \* there is a history entry beneath the tutorial's
    pending,    \* a search is on its way, or the position it will be for
    zone,       \* stationsById
    filter,     \* topBrands, and the brand select: options, disabled ones, value
    markers     \* brands of which stations are drawn

vars == <<view, motion, savedFuel, url, beneath, pending, zone, filter, markers>>

EmptyZone == [b \in Named |-> 0]
Present(z) == {b \in Named : z[b] > 0}

TypeOK ==
    /\ view \in Views
    /\ motion \subseteq {"moving", "timer"}
    /\ savedFuel \in Fuels \cup {None}
    /\ url \in Views \cup {Bare, None}
    /\ beneath \in BOOLEAN
    /\ pending \in BOOLEAN
    /\ zone \in Zones \cup {EmptyZone}
    /\ filter \in [top : SUBSET Brands, options : SUBSET Named,
                   disabled : SUBSET Named, value : Named \cup {None}]
    /\ filter.disabled \subseteq filter.options
    /\ filter.value \in filter.options \cup {None}
    /\ markers \subseteq Named

-----------------------------------------------------------------------------
\* Definitions named slip_ are plausible mistakes in the definition that
\* follows them; no action uses one.

\* The TOP_N most common brands, by name where they are equally common.
TopBrands(z) ==
    {b \in Brands \cap Present(z) :
        Cardinality({c \in Brands : z[c] > z[b] \/ (z[c] = z[b] /\ c < b)}) < TOP_N}

\* The bucket also stands for every brand beyond the top.  A selection the zone
\* does not have is kept, disabled.
refreshBrandOptions(z, brand) ==
    LET names == TopBrands(z) \cup
                    (IF Present(z) \subseteq TopBrands(z) THEN {} ELSE {BUCKET})
    IN  [top |-> TopBrands(z), options |-> names \cup ({brand} \ {None}),
         disabled |-> ({brand} \ {None}) \ (Present(z) \cup names), value |-> brand]

Matches(brand, top, b) ==
    \/ brand \in {None, b}
    \/ brand = BUCKET /\ b \notin top

syncMarkers(z, brand, top) == {b \in Present(z) : Matches(brand, top, b)}

updateURL(v) == url' = v

slip_UncheckedRadius(query, saved) ==
    [centre |-> IF query.centre = None THEN Home ELSE query.centre,
     zoom   |-> IF query.zoom \in {None, 0} THEN DEFAULT_ZOOM ELSE query.zoom,
     fuel   |-> IF query.fuel # None THEN query.fuel
                ELSE IF saved # None THEN saved ELSE FirstFuel,
     radius |-> query.radius,
     brand  |-> query.brand]

\* getStateFromURL, and what the boot makes of it.  A zoom of 0 counts as none.
Booted(query, saved) ==
    [centre |-> IF query.centre = None THEN Home ELSE query.centre,
     zoom   |-> IF query.zoom \in {None, 0} THEN DEFAULT_ZOOM ELSE query.zoom,
     fuel   |-> IF query.fuel # None THEN query.fuel
                ELSE IF saved # None THEN saved ELSE FirstFuel,
     radius |-> IF query.radius = None THEN DEFAULT_RADIUS ELSE query.radius,
     brand  |-> query.brand]

\* loadFuels writes the address where it found no fuel anywhere, before
\* bootstrapApp has taken the brand from it.
Written(query, saved) ==
    IF query.fuel = None /\ saved = None
    THEN [Booted(query, saved) EXCEPT !.brand = None] ELSE query

NoOptions == [top |-> {}, options |-> {}, disabled |-> {}, value |-> None]

Init ==
    /\ savedFuel \in Fuels \cup {None}
    /\ view = Booted(Bare, savedFuel)
    /\ url = Written(Bare, savedFuel)
    /\ motion = {}
    /\ beneath = FALSE
    /\ pending = TRUE
    /\ zone = EmptyZone
    /\ filter = NoOptions
    /\ markers = {}

-----------------------------------------------------------------------------
\* bootstrapApp, on whatever the address bar holds.
Boot(query) ==
    /\ view' = Booted(query, savedFuel)
    /\ url' = Written(query, savedFuel)
    /\ motion' = {}
    /\ pending' = TRUE
    /\ zone' = EmptyZone
    /\ filter' = NoOptions
    /\ markers' = {}
    /\ UNCHANGED <<savedFuel, beneath>>

Reload == \E query \in (IF url = None THEN Views \cup {Bare} ELSE {url}) : Boot(query)

\* The user drags or zooms, or flyTo does.
MapMoves(centre, zoom) ==
    /\ motion' = motion \cup {"moving"}
    /\ view' = [view EXCEPT !.centre = centre, !.zoom = zoom]
    /\ UNCHANGED <<savedFuel, url, beneath, pending, zone, filter, markers>>

\* Each end of a movement starts the timer anew.
MoveEnds ==
    /\ "moving" \in motion
    /\ motion' = {"timer"}
    /\ UNCHANGED <<view, savedFuel, url, beneath, pending, zone, filter, markers>>

\* The timer may fire while the map is moving again.
MoveTimer ==
    /\ "timer" \in motion
    /\ motion' = motion \ {"timer"}
    /\ markers' = syncMarkers(zone, view.brand, filter.top)
    /\ updateURL(view)
    /\ UNCHANGED <<view, savedFuel, beneath, pending, zone, filter>>

\* The locate button, the boot's own position, an address: setView and a search.
GoTo(centre) ==
    /\ view' = [view EXCEPT !.centre = centre, !.zoom = DEFAULT_ZOOM]
    /\ motion' = motion \cup {"moving"}
    /\ pending' = TRUE
    /\ UNCHANGED <<savedFuel, url, beneath, zone, filter, markers>>

FuelChanges(fuel) ==
    /\ view' = [view EXCEPT !.fuel = fuel]
    /\ savedFuel' = fuel
    /\ pending' = TRUE
    /\ updateURL(view')
    /\ UNCHANGED <<motion, beneath, zone, filter, markers>>

slip_WrittenTooEarly(radius) ==
    /\ updateURL(view)
    /\ view' = [view EXCEPT !.radius = radius]
    /\ pending' = TRUE
    /\ UNCHANGED <<motion, savedFuel, beneath, zone, filter, markers>>

RadiusChanges(radius) ==
    /\ view' = [view EXCEPT !.radius = radius]
    /\ pending' = TRUE
    /\ updateURL(view')
    /\ UNCHANGED <<motion, savedFuel, beneath, zone, filter, markers>>

BrandChanges(brand) ==
    /\ brand \in (filter.options \ filter.disabled) \cup {None}
    /\ view' = [view EXCEPT !.brand = brand]
    /\ filter' = [filter EXCEPT !.value = brand]
    /\ markers' = syncMarkers(zone, brand, filter.top)
    /\ updateURL(view')
    /\ UNCHANGED <<motion, savedFuel, beneath, pending, zone>>

\* updateUILanguage.
LanguageChanges ==
    /\ filter' = refreshBrandOptions(zone, view.brand)
    /\ UNCHANGED <<view, motion, savedFuel, url, beneath, pending, zone, markers>>

\* The search-here button, or a click on the map.
SearchHere ==
    /\ pending' = TRUE
    /\ UNCHANGED <<view, motion, savedFuel, url, beneath, zone, filter, markers>>

slip_MarkersFirst(z) ==
    /\ pending
    /\ pending' = FALSE
    /\ zone' = z
    /\ markers' = syncMarkers(z, view.brand, filter.top)
    /\ filter' = refreshBrandOptions(z, view.brand)
    /\ UNCHANGED <<view, motion, savedFuel, url, beneath>>

SearchSucceeds(z) ==
    /\ pending
    /\ pending' = FALSE
    /\ zone' = z
    /\ filter' = refreshBrandOptions(z, view.brand)
    /\ markers' = syncMarkers(z, view.brand, filter'.top)
    /\ UNCHANGED <<view, motion, savedFuel, url, beneath>>

SearchFails ==
    /\ pending
    /\ pending' = FALSE
    /\ UNCHANGED <<view, motion, savedFuel, url, beneath, zone, filter, markers>>

\* The tutorial pushes an entry of its own (Overlays says when) ...
TutorialStarts ==
    /\ beneath' = TRUE
    /\ UNCHANGED <<view, motion, savedFuel, url, pending, zone, filter, markers>>

\* ... over which the user goes back, or its close does, to the address that
\* was current then.  Nobody reads it.
GoBack ==
    /\ beneath
    /\ url' = None
    /\ beneath' = FALSE
    /\ UNCHANGED <<view, motion, savedFuel, pending, zone, filter, markers>>

Next ==
    \/ Reload
    \/ \E centre \in Centres, zoom \in 0 .. MaxZoom : MapMoves(centre, zoom)
    \/ MoveEnds
    \/ MoveTimer
    \/ \E centre \in Centres : GoTo(centre)
    \/ \E fuel \in Fuels : FuelChanges(fuel)
    \/ \E radius \in Radii : RadiusChanges(radius)
    \/ \E brand \in Named \cup {None} : BrandChanges(brand)
    \/ LanguageChanges
    \/ SearchHere
    \/ \E z \in Zones : SearchSucceeds(z)
    \/ SearchFails
    \/ TutorialStarts
    \/ GoBack

Spec == Init /\ [][Next]_vars

-----------------------------------------------------------------------------
\* Once the map has come to rest, a reload gives the user back the view there
\* is: the address bar and the saved fuel between them hold all of it, whichever
\* control wrote last (state.js:99-140, app.js:78-98, 126-142).  Two cases are
\* out: the map zoomed out to 0, which the boot takes for no zoom, and an address
\* that going back over the tutorial's entry has restored.
ReloadRestores ==
    (motion = {} /\ url # None /\ view.zoom # 0) => Booted(url, savedFuel) = view

\* Brand filtering "just hides markers" (map.js:81-83): whatever was selected
\* before the zone changed, what is drawn is what the filter lets through, every
\* station can be brought back by an option, and once there is a zone the select
\* shows the filter in force.
FilterFitsZone ==
    /\ markers = syncMarkers(zone, view.brand, TopBrands(zone))
    /\ zone # EmptyZone =>
          /\ filter.value = view.brand
          /\ \A b \in Present(zone) : \E o \in filter.options \ filter.disabled :
                b \in syncMarkers(zone, o, filter.top)
=============================================================================
