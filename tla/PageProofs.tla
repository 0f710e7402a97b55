----------------------------- MODULE PageProofs -----------------------------
(***************************************************************************)
(* The page around the map.  For any places, zooms, fuels, radii, brands   *)
(* and zones: a reload gives back the view, and the brand filter fits the  *)
(* stations there are (MapControls).  For any bounds on the history and    *)
(* the closes, and any texts: there is an entry to go back to while the    *)
(* tutorial is open, a run of it that has finished is not shown again      *)
(* uncalled, an Escape that closes a dialog leaves the panels, and the     *)
(* suggestions are those for the latest text (Overlays).                   *)
(***************************************************************************)
EXTENDS MapControls, Overlays, SequenceTheorems, TLAPS

-----------------------------------------------------------------------------
\* The view and the address that records it.

\* The boot makes a view of whatever address there is.
LEMMA BootedIsView ==
    ASSUME NEW query \in Views \cup {Bare}, NEW saved \in Fuels \cup {None}
    PROVE  Booted(query, saved) \in Views /\ Written(query, saved) \in Views \cup {Bare}
<1>1. /\ query.centre \in Centres \cup {None} /\ query.zoom \in (0 .. MaxZoom) \cup {None}
      /\ query.fuel \in Fuels \cup {None} /\ query.radius \in Radii \cup {None}
      /\ query.brand \in Named \cup {None}
  BY DEF Views, Bare
<1>2. Booted(query, saved) \in Views
  BY <1>1, ControlsAssumption DEF Booted, Views
<1>3. [Booted(query, saved) EXCEPT !.brand = None] \in Views
  BY <1>2 DEF Views
<1> QED
  BY <1>2, <1>3 DEF Written

\* A view that was written is the view a boot makes of it, but for the zoom of 0.
LEMMA BootedRestores ==
    ASSUME NEW v \in Views, NEW saved, v.zoom # 0
    PROVE  Booted(v, saved) = v
<1>1. /\ v.centre # None /\ v.zoom # None /\ v.fuel # None /\ v.radius # None
      /\ v = [centre |-> v.centre, zoom |-> v.zoom, fuel |-> v.fuel,
              radius |-> v.radius, brand |-> v.brand]
  BY NoneAssumption DEF Views
<1> QED
  BY <1>1 DEF Booted

\* What a boot writes is what the next boot makes the same of.
LEMMA WrittenRestores ==
    ASSUME NEW query \in Views \cup {Bare}, NEW saved \in Fuels \cup {None}
    PROVE  Booted(Written(query, saved), saved) = Booted(query, saved)
<1>1. CASE query.fuel = None /\ saved = None
  <2>1. query = Bare
    BY <1>1, NoneAssumption DEF Views
  <2> DEFINE b == Booted(query, saved)
  <2>2. b \in Views /\ b.zoom # 0 /\ b.brand = None
    BY <2>1, BootedIsView, ControlsAssumption DEF Booted, Bare
  <2>3. [b EXCEPT !.brand = None] = b
    BY <2>2 DEF Views
  <2> QED
    BY <1>1, <2>2, <2>3, BootedRestores DEF Written
<1>2. CASE ~(query.fuel = None /\ saved = None)
  BY <1>2 DEF Written
<1> QED
  BY <1>1, <1>2

-----------------------------------------------------------------------------
\* The brand filter and the markers.

ZoneMaps == [Named -> Nat]

\* The top brands are brands the zone has.
LEMMA TopIsPresent ==
    \A z : TopBrands(z) \subseteq Brands /\ TopBrands(z) \subseteq Present(z)
  BY DEF TopBrands

\* A zone with no stations has no brands.
LEMMA NothingPresent == Present(EmptyZone) = {} /\ TopBrands(EmptyZone) = {}
  BY DEF Present, EmptyZone, TopBrands

\* Every station of the zone can be brought back by one of the options.
Covers(z, f) ==
    \A b \in Present(z) : \E o \in f.options \ f.disabled : b \in syncMarkers(z, o, f.top)

\* The types of filter's fields.
Filters ==
    {f \in [top : SUBSET Brands, options : SUBSET Named, disabled : SUBSET Named,
            value : Named \cup {None}] :
        f.disabled \subseteq f.options /\ f.value \in f.options \cup {None}}

\* The select, built anew for a zone, covers it and shows the filter in force.
LEMMA OptionsFit ==
    ASSUME NEW z, NEW brand \in Named \cup {None}
    PROVE  LET f == refreshBrandOptions(z, brand)
           IN  /\ f \in Filters
               /\ f.top = TopBrands(z) /\ f.value = brand
               /\ Covers(z, f)
<1> DEFINE f == refreshBrandOptions(z, brand)
           names == TopBrands(z) \cup
                       (IF Present(z) \subseteq TopBrands(z) THEN {} ELSE {BUCKET})
<1>1. /\ f.top = TopBrands(z) /\ f.options = names \cup ({brand} \ {None})
      /\ f.disabled = ({brand} \ {None}) \ (Present(z) \cup names) /\ f.value = brand
  BY DEF refreshBrandOptions
<1>2. names \subseteq Named /\ TopBrands(z) \subseteq Brands
  BY TopIsPresent DEF Named
<1>3. f \in Filters
  <2>1. f \in [top : SUBSET Brands, options : SUBSET Named, disabled : SUBSET Named,
               value : Named \cup {None}]
    BY <1>2 DEF refreshBrandOptions
  <2> QED
    BY <1>1, <2>1 DEF Filters
<1>4. Covers(z, f)
  <2> SUFFICES ASSUME NEW b \in Present(z)
               PROVE  \E o \in f.options \ f.disabled : b \in syncMarkers(z, o, f.top)
    BY DEF Covers
  <2>1. CASE b \in TopBrands(z)
    <3>1. b \in f.options \ f.disabled
      BY <1>1, <2>1
    <3>2. b \in syncMarkers(z, b, f.top)
      BY DEF syncMarkers, Matches
    <3> QED
      BY <3>1, <3>2
  <2>2. CASE b \notin TopBrands(z)
    <3>1. BUCKET \in f.options \ f.disabled
      BY <1>1, <2>2
    <3>2. b \in syncMarkers(z, BUCKET, f.top)
      BY <1>1, <2>2 DEF syncMarkers, Matches
    <3> QED
      BY <3>1, <3>2
  <2> QED
    BY <2>1, <2>2
<1> QED
  BY <1>1, <1>3, <1>4

\* The inductive invariant: the brands the filter takes for the top ones, which
\* the markers are drawn from, are those of the zone on the map.
IInv ==
    /\ TypeOK
    /\ ReloadRestores
    /\ filter.top = TopBrands(zone)
    /\ FilterFitsZone

\* The types, in parts.
LEMMA TypeParts ==
    TypeOK <=> /\ view \in Views /\ motion \subseteq {"moving", "timer"}
               /\ savedFuel \in Fuels \cup {None} /\ url \in Views \cup {Bare, None}
               /\ beneath \in BOOLEAN /\ pending \in BOOLEAN
               /\ zone \in Zones \cup {EmptyZone} /\ filter \in Filters
               /\ markers \subseteq Named
  BY DEF TypeOK, Filters

\* The same of the next state.
LEMMA NextTypeParts ==
    ASSUME view' \in Views, motion' \subseteq {"moving", "timer"},
           savedFuel' \in Fuels \cup {None}, url' \in Views \cup {Bare, None},
           beneath' \in BOOLEAN, pending' \in BOOLEAN,
           zone' \in Zones \cup {EmptyZone}, filter' \in Filters, markers' \subseteq Named
    PROVE  TypeOK'
  BY DEF TypeOK, Filters

\* The brands drawn are brands.
LEMMA DrawnAreNamed == \A z, brand, top : syncMarkers(z, brand, top) \subseteq Named
  BY DEF syncMarkers, Present

\* A page that has just been loaded: no zone, no options, no markers.
LEMMA Loaded ==
    /\ NoOptions \in Filters /\ NoOptions.top = TopBrands(EmptyZone)
    /\ \A brand : {} = syncMarkers(EmptyZone, brand, TopBrands(EmptyZone))
<1>1. NoOptions \in Filters
  BY DEF NoOptions, Filters
<1> QED
  BY <1>1, NothingPresent DEF NoOptions, syncMarkers

\* It holds on the first visit.
LEMMA InitIInv == Init => IInv
<1> SUFFICES ASSUME Init PROVE IInv
  OBVIOUS
<1>1. Bare \in Views \cup {Bare} /\ savedFuel \in Fuels \cup {None}
  BY DEF Init
<1>2. TypeOK
  BY <1>1, BootedIsView, Loaded, TypeParts DEF Init
<1>3. ReloadRestores
  BY <1>1, WrittenRestores DEF Init, ReloadRestores
<1>4. filter.top = TopBrands(zone) /\ FilterFitsZone
  BY Loaded DEF Init, FilterFitsZone
<1> QED
  BY <1>2, <1>3, <1>4 DEF IInv

\* Every step keeps the types.
LEMMA NextTypes == IInv /\ [Next]_vars => TypeOK'
<1> SUFFICES ASSUME IInv, [Next]_vars
             PROVE  TypeOK'
  OBVIOUS
<1>1. /\ view \in Views /\ motion \subseteq {"moving", "timer"}
      /\ savedFuel \in Fuels \cup {None} /\ url \in Views \cup {Bare, None}
      /\ beneath \in BOOLEAN /\ pending \in BOOLEAN
      /\ zone \in Zones \cup {EmptyZone} /\ filter \in Filters
      /\ markers \subseteq Named /\ view.brand \in Named \cup {None}
  BY TypeParts DEF IInv, Views
<1>2. CASE Reload
  <2>1. PICK query \in Views \cup {Bare} : Boot(query)
    BY <1>1, <1>2 DEF Reload
  <2> QED
    BY <1>1, <2>1, BootedIsView, Loaded, NextTypeParts DEF Boot
<1>3. ASSUME NEW centre \in Centres, NEW zoom \in 0 .. MaxZoom, MapMoves(centre, zoom)
      PROVE  TypeOK'
  BY <1>1, <1>3, NextTypeParts DEF MapMoves, Views
<1>4. CASE MoveEnds
  BY <1>1, <1>4, NextTypeParts DEF MoveEnds
<1>5. CASE MoveTimer
  BY <1>1, <1>5, DrawnAreNamed, NextTypeParts DEF MoveTimer, updateURL
<1>6. ASSUME NEW centre \in Centres, GoTo(centre)
      PROVE  TypeOK'
  <2>1. DEFAULT_ZOOM \in 0 .. MaxZoom
    BY ControlsAssumption
  <2>2. view' \in Views
    BY <1>1, <1>6, <2>1 DEF GoTo, Views
  <2> QED
    BY <1>1, <1>6, <2>2, NextTypeParts DEF GoTo
<1>7. ASSUME NEW fuel \in Fuels, FuelChanges(fuel)
      PROVE  TypeOK'
  BY <1>1, <1>7, NextTypeParts DEF FuelChanges, updateURL, Views
<1>8. ASSUME NEW radius \in Radii, RadiusChanges(radius)
      PROVE  TypeOK'
  BY <1>1, <1>8, NextTypeParts DEF RadiusChanges, updateURL, Views
<1>9. ASSUME NEW brand \in Named \cup {None}, BrandChanges(brand)
      PROVE  TypeOK'
  <2>1. view' \in Views /\ filter' \in Filters
    BY <1>1, <1>9 DEF BrandChanges, Views, Filters
  <2> QED
    BY <1>1, <1>9, <2>1, DrawnAreNamed, NextTypeParts DEF BrandChanges, updateURL
<1>10. CASE LanguageChanges
  BY <1>1, <1>10, OptionsFit, NextTypeParts DEF LanguageChanges
<1>11. CASE SearchHere
  BY <1>1, <1>11, NextTypeParts DEF SearchHere
<1>12. ASSUME NEW z \in Zones, SearchSucceeds(z)
       PROVE  TypeOK'
  BY <1>1, <1>12, OptionsFit, DrawnAreNamed, NextTypeParts DEF SearchSucceeds
<1>13. CASE SearchFails
  BY <1>1, <1>13, NextTypeParts DEF SearchFails
<1>14. CASE TutorialStarts
  BY <1>1, <1>14, NextTypeParts DEF TutorialStarts
<1>15. CASE GoBack
  BY <1>1, <1>15, NextTypeParts DEF GoBack
<1>16. CASE UNCHANGED vars
  BY <1>1, <1>16, NextTypeParts DEF vars
<1> QED
  BY <1>2, <1>3, <1>4, <1>5, <1>6, <1>7, <1>8, <1>9, <1>10, <1>11, <1>12, <1>13, <1>14,
     <1>15, <1>16 DEF Next

\* Every step leaves an address that gives back the view, or a map in motion.
LEMMA NextRestores == IInv /\ [Next]_vars => ReloadRestores'
<1> SUFFICES ASSUME IInv, [Next]_vars,
                    motion' = {}, url' # None, view'.zoom # 0
             PROVE  Booted(url', savedFuel') = view'
  BY DEF ReloadRestores
<1>1. /\ view \in Views /\ savedFuel \in Fuels \cup {None}
      /\ url \in Views \cup {Bare, None} /\ view' \in Views
      /\ motion = {} /\ url # None /\ view.zoom # 0 => Booted(url, savedFuel) = view
  <2>1. TypeOK'
    BY NextTypes
  <2>2. view' \in Views
    BY <2>1 DEF TypeOK
  <2> QED
    BY <2>2, TypeParts DEF IInv, ReloadRestores
<1>2. CASE Reload
  <2>1. PICK query \in Views \cup {Bare} : Boot(query)
    BY <1>1, <1>2 DEF Reload
  <2> QED
    BY <1>1, <2>1, WrittenRestores DEF Boot
<1>3. CASE url' = view'
  BY <1>1, <1>3, BootedRestores
<1>4. CASE UNCHANGED <<view, motion, savedFuel, url>>
  BY <1>1, <1>4
<1>5. ASSUME NEW centre \in Centres, NEW zoom \in 0 .. MaxZoom, MapMoves(centre, zoom)
      PROVE  FALSE
  BY <1>5 DEF MapMoves
<1>6. ASSUME NEW centre \in Centres, GoTo(centre)
      PROVE  FALSE
  BY <1>6 DEF GoTo
<1>7. CASE MoveEnds
  BY <1>7 DEF MoveEnds
<1>8. CASE GoBack
  BY <1>8 DEF GoBack
<1>9. \/ Reload \/ url' = view' \/ UNCHANGED <<view, motion, savedFuel, url>>
      \/ \E centre \in Centres, zoom \in 0 .. MaxZoom : MapMoves(centre, zoom)
      \/ \E centre \in Centres : GoTo(centre)
      \/ MoveEnds \/ GoBack
  BY DEF Next, vars, MoveTimer, FuelChanges, RadiusChanges, BrandChanges, updateURL,
         LanguageChanges, SearchHere, SearchSucceeds, SearchFails, TutorialStarts
<1> QED
  BY <1>2, <1>3, <1>4, <1>5, <1>6, <1>7, <1>8, <1>9

\* Every step leaves a filter that fits the zone.
LEMMA NextFits == IInv /\ [Next]_vars => filter'.top = TopBrands(zone') /\ FilterFitsZone'
<1> SUFFICES ASSUME IInv, [Next]_vars
             PROVE  filter'.top = TopBrands(zone') /\ FilterFitsZone'
  OBVIOUS
<1> DEFINE Fit(v, z, f, m) ==
              /\ f.top = TopBrands(z)
              /\ m = syncMarkers(z, v.brand, TopBrands(z))
              /\ z # EmptyZone => f.value = v.brand /\ Covers(z, f)
<1>1. /\ view \in Views /\ view.brand \in Named \cup {None} /\ filter \in Filters
      /\ Fit(view, zone, filter, markers)
  BY TypeParts DEF IInv, Views, FilterFitsZone, Covers
<1> SUFFICES Fit(view', zone', filter', markers')
  BY DEF FilterFitsZone, Covers
<1>2. CASE Reload
  BY <1>2, Loaded DEF Reload, Boot
<1>3. CASE view'.brand = view.brand /\ UNCHANGED <<zone, filter, markers>>
  BY <1>1, <1>3
<1>4. CASE MoveTimer
  BY <1>1, <1>4 DEF MoveTimer
<1>5. ASSUME NEW brand \in Named \cup {None}, BrandChanges(brand)
      PROVE  Fit(view', zone', filter', markers')
  <2>1. /\ view'.brand = brand /\ zone' = zone
        /\ filter'.top = filter.top /\ filter'.options = filter.options
        /\ filter'.disabled = filter.disabled /\ filter'.value = brand
        /\ markers' = syncMarkers(zone, brand, filter.top)
    BY <1>1, <1>5 DEF BrandChanges, Views, Filters
  <2> QED
    BY <1>1, <2>1 DEF Covers
<1>6. CASE LanguageChanges
  BY <1>1, <1>6, OptionsFit DEF LanguageChanges
<1>7. ASSUME NEW z \in Zones, SearchSucceeds(z)
      PROVE  Fit(view', zone', filter', markers')
  <2>1. /\ view' = view /\ zone' = z /\ filter' = refreshBrandOptions(z, view.brand)
        /\ markers' = syncMarkers(z, view.brand, filter'.top)
    BY <1>7 DEF SearchSucceeds
  <2> QED
    BY <1>1, <2>1, OptionsFit
<1>8. \/ Reload \/ (view'.brand = view.brand /\ UNCHANGED <<zone, filter, markers>>)
      \/ MoveTimer \/ (\E brand \in Named \cup {None} : BrandChanges(brand))
      \/ LanguageChanges \/ (\E z \in Zones : SearchSucceeds(z))
  <2> DEFINE same == view'.brand = view.brand /\ UNCHANGED <<zone, filter, markers>>
  <2>1. ASSUME \/ \E centre \in Centres, zoom \in 0 .. MaxZoom : MapMoves(centre, zoom)
               \/ \E centre \in Centres : GoTo(centre)
               \/ \E fuel \in Fuels : FuelChanges(fuel)
               \/ \E radius \in Radii : RadiusChanges(radius)
        PROVE  same
    BY <1>1, <2>1 DEF MapMoves, GoTo, FuelChanges, RadiusChanges, Views
  <2>2. ASSUME MoveEnds \/ SearchHere \/ SearchFails \/ TutorialStarts \/ GoBack
                 \/ UNCHANGED vars
        PROVE  same
    BY <2>2 DEF MoveEnds, SearchHere, SearchFails, TutorialStarts, GoBack, vars
  <2> QED
    BY <2>1, <2>2 DEF Next
<1> QED
  BY <1>2, <1>3, <1>4, <1>5, <1>6, <1>7, <1>8

\* The inductive invariant holds of every behaviour.
THEOREM ControlsInvariant == Spec => []IInv
<1>1. Init => IInv
  BY InitIInv
<1>2. IInv /\ [Next]_vars => IInv'
  BY NextTypes, NextRestores, NextFits DEF IInv
<1> QED
  BY <1>1, <1>2, PTL DEF Spec

\* The controls and the address keep their types.
THEOREM TypeCorrect == Spec => []TypeOK
<1>1. IInv => TypeOK
  BY DEF IInv
<1> QED
  BY <1>1, ControlsInvariant, PTL

\* A reload at rest gives back the view, whichever control wrote the address last.
THEOREM ReloadsRestore == Spec => []ReloadRestores
<1>1. IInv => ReloadRestores
  BY DEF IInv
<1> QED
  BY <1>1, ControlsInvariant, PTL

\* What is drawn is what the filter lets through, and every station has an option
\* that brings it back.
THEOREM FilterFits == Spec => []FilterFitsZone
<1>1. IInv => FilterFitsZone
  BY DEF IInv
<1> QED
  BY <1>1, ControlsInvariant, PTL
-----------------------------------------------------------------------------
\* What lies over the map: module Overlays, for any bounds and any texts.

\* What a dialog is: present with no removal registered, closing, or absent.
Dialog ==
    {x \in [at : {"absent", "open", "closing"}, removals : Nat] :
        x.removals > 0 <=> x.at = "closing"}

\* What is on the screen, without the bounds of the model.
Pages ==
    [dialog : [Dialogs -> Dialog], shown : SUBSET Layers,
     dragged : SUBSET Panels, here : Nat, backs : Nat, seen : BOOLEAN]

\* Another dialog, whatever else is on the page.
LEMMA OtherDialog ==
    ASSUME NEW u \in Pages, NEW d \in Dialogs, NEW x \in Dialog
    PROVE  [u EXCEPT !.dialog[d] = x] \in Pages
<1>1. [u.dialog EXCEPT ![d] = x] \in [Dialogs -> Dialog]
  BY DEF Pages
<1> QED
  BY <1>1 DEF Pages

\* Closing a dialog and removing it, opening one, and Escape.
LEMMA DialogTypes ==
    ASSUME NEW u \in Pages, NEW d \in Dialogs
    PROVE  /\ \A n \in Nat : remove(u, d, n) \in Pages
           /\ close(u, d) \in Pages
           /\ createModal(u, d) \in Pages
<1>1. ASSUME NEW n \in Nat
      PROVE  remove(u, d, n) \in Pages
  <2> DEFINE v == [u EXCEPT !.dialog[d] = Absent]
             b == IF d = "tutorial" /\ entries[u.here] = "tutorial"
                  THEN u.backs + n ELSE u.backs
             e == (u.seen \/ d = "tutorial")
  <2>1. Absent \in Dialog
    BY DEF Absent, Dialog
  <2>2. v \in Pages
    BY <2>1, OtherDialog
  <2>3. b \in Nat /\ e \in BOOLEAN
    BY DEF Pages
  <2>4. remove(u, d, n) = [v EXCEPT !.seen = e, !.backs = b]
    BY <2>2 DEF remove, Pages
  <2> HIDE DEF v, b, e
  <2> QED
    BY <2>2, <2>3, <2>4 DEF Pages
<1>2. close(u, d) \in Pages
  <2>1. [at |-> "closing", removals |-> u.dialog[d].removals + 1] \in Dialog
    BY DEF Pages, Dialog
  <2> QED
    BY <1>1, <2>1, OtherDialog DEF close
<1>3. createModal(u, d) \in Pages
  <2>1. [at |-> "open", removals |-> 0] \in Dialog
    BY DEF Dialog
  <2> QED
    BY <2>1, OtherDialog DEF createModal
<1> QED
  BY <1>1, <1>2, <1>3
\* The tutorial counts as seen, or is on the screen.
Settled(u) == u.seen = TRUE \/ OnScreen(u, "tutorial")

\* What dismissing things makes of u.
Less(u, v) ==
    /\ v \in Pages /\ v.here = u.here
    /\ Open(v, "tutorial") => Open(u, "tutorial")
    /\ Settled(u) => Settled(v)

\* A dialog that is closed or removed takes nothing else with it; it is gone, or
\* fading out, and a tutorial that is gone is seen.
LEMMA DialogEffects ==
    ASSUME NEW u \in Pages, NEW d \in Dialogs
    PROVE  /\ \A n \in Nat : Less(u, remove(u, d, n))
           /\ Less(u, close(u, d))
           /\ close(u, d).shown = u.shown
           /\ ~Open(close(u, d), d)
           /\ \A e \in Dialogs : e # d => close(u, d).dialog[e] = u.dialog[e]
           /\ ~reducedMotion => OnScreen(close(u, d), d)
<1>1. ASSUME NEW n \in Nat
      PROVE  LET v == remove(u, d, n)
             IN  /\ v \in Pages /\ v.here = u.here /\ v.shown = u.shown
                 /\ v.dialog = [u.dialog EXCEPT ![d] = Absent]
                 /\ v.seen = (u.seen \/ d = "tutorial")
  <2> DEFINE v == remove(u, d, n)
             b == IF d = "tutorial" /\ entries[u.here] = "tutorial"
                  THEN u.backs + n ELSE u.backs
             e == (u.seen \/ d = "tutorial")
             f == [u.dialog EXCEPT ![d] = Absent]
  <2>1. v = [u EXCEPT !.dialog = f, !.seen = e, !.backs = b]
    BY DEF remove
  <2> HIDE DEF b, e, f
  <2>2. /\ v.here = u.here /\ v.shown = u.shown
        /\ v.dialog = f /\ v.seen = e
    BY <2>1 DEF Pages
  <2> QED
    BY <2>2, DialogTypes DEF e, f
<1>2. ASSUME ~reducedMotion
      PROVE  LET v == close(u, d)
             IN  /\ v \in Pages /\ v.here = u.here /\ v.shown = u.shown
                 /\ v.dialog = [u.dialog EXCEPT ![d] =
                       [at |-> "closing", removals |-> u.dialog[d].removals + 1]]
                 /\ v.seen = u.seen
  BY <1>2, DialogTypes DEF close, Pages
<1>3. ASSUME reducedMotion
      PROVE  close(u, d) = remove(u, d, 1)
  BY <1>3 DEF close
<1>4. ASSUME NEW v \in Pages, NEW x \in Dialog, x.at # "open", v.here = u.here,
             v.dialog = [u.dialog EXCEPT ![d] = x],
             (u.seen = TRUE \/ (d = "tutorial" /\ x.at = "absent")) => v.seen = TRUE
      PROVE  Less(u, v) /\ ~Open(v, d)
  BY <1>4 DEF Less, Settled, Open, OnScreen, Pages, Dialogs
<1>5. ASSUME NEW n \in Nat
      PROVE  Less(u, remove(u, d, n)) /\ ~Open(remove(u, d, n), d)
  <2> DEFINE v == remove(u, d, n)
  <2>1. Absent \in Dialog /\ Absent.at = "absent"
    BY DEF Absent, Dialog
  <2>2. (u.seen = TRUE \/ d = "tutorial") => v.seen = TRUE
    BY <1>1 DEF Pages
  <2> HIDE DEF v
  <2>3. /\ v \in Pages /\ v.here = u.here
        /\ v.dialog = [u.dialog EXCEPT ![d] = Absent]
    BY <1>1 DEF v
  <2>4. Less(u, v) /\ ~Open(v, d)
    BY <1>4, <2>1, <2>2, <2>3
  <2> QED
    BY <2>4 DEF v
<1>6. CASE ~reducedMotion
  <2> DEFINE v == close(u, d)
             x == [at |-> "closing", removals |-> u.dialog[d].removals + 1]
  <2>1. x \in Dialog /\ x.at = "closing"
    BY DEF Dialog, Pages
  <2> HIDE DEF v, x
  <2>2. /\ v \in Pages /\ v.here = u.here /\ v.shown = u.shown
        /\ v.dialog = [u.dialog EXCEPT ![d] = x] /\ v.seen = u.seen
    BY <1>2, <1>6 DEF v, x
  <2>3. Less(u, v) /\ ~Open(v, d)
    BY <1>4, <2>1, <2>2
  <2>4. /\ \A e \in Dialogs : e # d => v.dialog[e] = u.dialog[e]
        /\ OnScreen(v, d)
    BY <2>1, <2>2 DEF OnScreen, Pages
  <2> QED
    BY <1>5, <2>2, <2>3, <2>4 DEF v
<1>7. CASE reducedMotion
  <2>1. close(u, d) = remove(u, d, 1) /\ 1 \in Nat
    BY <1>3, <1>7
  <2>2. /\ remove(u, d, 1).shown = u.shown
        /\ \A e \in Dialogs : e # d => remove(u, d, 1).dialog[e] = u.dialog[e]
    BY <1>1, <2>1 DEF Pages
  <2> QED
    BY <1>5, <1>7, <2>1, <2>2
<1> QED
  BY <1>6, <1>7

\* Escape, from the traps of the dialogs down to the panels.
LEMMA EscapeEffects ==
    ASSUME NEW u \in Pages
    PROVE  LET t == Trapped(u)
           IN  /\ Less(u, t) /\ t.shown = u.shown
               /\ ~reducedMotion => \A d \in Dialogs :
                     Open(u, d) => OnScreen(t, d)
               /\ Less(u, closeTopmost(t))
               /\ (\E d \in Dialogs : OnScreen(t, d)) =>
                     closeTopmost(t).shown \cap Panels = u.shown \cap Panels
<1> DEFINE one == IF Open(u, "settings") THEN close(u, "settings") ELSE u
           t == Trapped(u)
<1>1. Dialogs = {"settings", "tutorial"}
  BY DEF Dialogs
<1>2. /\ Less(u, one) /\ one.shown = u.shown /\ one.dialog["tutorial"] = u.dialog["tutorial"]
      /\ ~reducedMotion => (Open(u, "settings") => OnScreen(one, "settings"))
  <2>1. CASE Open(u, "settings")
    BY <1>1, <2>1, DialogEffects
  <2>2. CASE ~Open(u, "settings")
    BY <2>2 DEF Less
  <2> QED
    BY <2>1, <2>2
<1>3. t = IF Open(one, "tutorial") THEN close(one, "tutorial") ELSE one
  BY DEF Trapped
<1> HIDE DEF one, t
<1>4. /\ Less(one, t) /\ t.shown = one.shown /\ t.dialog["settings"] = one.dialog["settings"]
      /\ ~reducedMotion => (Open(one, "tutorial") => OnScreen(t, "tutorial"))
  <2>1. one \in Pages
    BY <1>2 DEF Less
  <2>2. CASE Open(one, "tutorial")
    BY <1>1, <1>3, <2>1, <2>2, DialogEffects
  <2>3. CASE ~Open(one, "tutorial")
    BY <1>3, <2>1, <2>3 DEF Less
  <2> QED
    BY <2>2, <2>3
<1>5. Less(u, t) /\ t.shown = u.shown /\ t \in Pages
  BY <1>2, <1>4 DEF Less
<1>6. ~reducedMotion => \A d \in Dialogs : Open(u, d) => OnScreen(t, d)
  BY <1>1, <1>2, <1>4 DEF Open, OnScreen
<1> DEFINE w == closeTopmost(t)
<1>7. /\ Less(t, w)
      /\ (\E d \in Dialogs : OnScreen(t, d)) =>
            w.shown \cap Panels = t.shown \cap Panels
  <2>1. ASSUME NEW X
        PROVE  LET v == [t EXCEPT !.shown = @ \ X]
               IN  Less(t, v) /\ v.shown = t.shown \ X
    BY <1>5 DEF Less, Pages, Settled, Open, OnScreen
  <2>2. CASE OnScreen(t, "settings")
    <3>1. w = close(t, "settings")
      BY <2>2 DEF closeTopmost
    <3> QED
      BY <1>1, <1>5, <3>1, DialogEffects
  <2>3. CASE ~OnScreen(t, "settings") /\ "suggestions" \in t.shown
    <3>1. w = [t EXCEPT !.shown = @ \ {"suggestions"}]
      BY <2>3 DEF closeTopmost
    <3>2. "suggestions" \notin Panels
      BY DEF Panels, Collections
    <3>3. Less(t, w) /\ w.shown = t.shown \ {"suggestions"}
      BY <2>1, <3>1
    <3> QED
      BY <3>2, <3>3
  <2>4. CASE ~OnScreen(t, "settings") /\ "suggestions" \notin t.shown
               /\ OnScreen(t, "tutorial")
    BY <1>5, <2>4 DEF closeTopmost, Less
  <2>5. CASE ~OnScreen(t, "settings") /\ "suggestions" \notin t.shown
               /\ ~OnScreen(t, "tutorial")
    <3>1. w = [t EXCEPT !.shown = @ \ TopPanel(t)]
      BY <2>5 DEF closeTopmost
    <3> QED
      BY <1>1, <2>1, <2>5, <3>1
  <2> QED
    BY <2>2, <2>3, <2>4, <2>5
<1> HIDE DEF w
<1>8. Less(u, w)
  BY <1>5, <1>7 DEF Less
<1> QED
  BY <1>5, <1>6, <1>7, <1>8 DEF t, w
\* A run of the tutorial that has gone from the screen is on record, and the
\* tutorial is not on the screen again.
FinishedIsSeen == finished => page.seen = TRUE /\ ~OnScreen(page, "tutorial")

\* What is proved of the overlays: with the types, that the tutorial can be gone
\* back from, its finished runs are on record, and at most the latest text is asked for.
OverInv ==
    /\ OverlaysTypeOK
    /\ BackDismisses
    /\ FinishedIsSeen
    /\ suggest.inflight \subseteq {suggest.latest}

\* The bounds of the model, of the page.
InBounds(u) ==
    /\ \A d \in Dialogs : u.dialog[d].removals <= MaxCloses
    /\ u.backs <= MaxBacks

\* A page within the bounds is a page, and the other way round.
LEMMA PageTypes ==
    ASSUME NEW u, NEW n \in 1 .. MaxEntries
    PROVE  (/\ u \in [dialog : [Dialogs -> [at : {"absent", "open", "closing"},
                                                 removals : 0 .. MaxCloses]],
                      shown : SUBSET Layers, dragged : SUBSET Panels,
                      here : 0 .. MaxEntries, backs : 0 .. MaxBacks, seen : BOOLEAN]
            /\ \A d \in Dialogs :
                  u.dialog[d].removals > 0 <=> u.dialog[d].at = "closing"
            /\ u.here <= n)
           <=> (u \in Pages /\ InBounds(u) /\ u.here <= n)
<1> DEFINE Record ==
              [dialog : [Dialogs -> [at : {"absent", "open", "closing"},
                                          removals : 0 .. MaxCloses]],
               shown : SUBSET Layers, dragged : SUBSET Panels,
               here : 0 .. MaxEntries, backs : 0 .. MaxBacks, seen : BOOLEAN]
<1>1. ASSUME u \in Record,
             \A d \in Dialogs : u.dialog[d].removals > 0 <=> u.dialog[d].at = "closing"
      PROVE  u \in Pages /\ InBounds(u)
  <2>1. u.dialog \in [Dialogs -> [at : {"absent", "open", "closing"},
                                       removals : 0 .. MaxCloses]]
    BY <1>1
  <2>2. ASSUME NEW d \in Dialogs
        PROVE  u.dialog[d] \in Dialog /\ u.dialog[d].removals <= MaxCloses
    BY <1>1, <2>1, BoundsAssumption DEF Dialog
  <2>3. u.dialog \in [Dialogs -> Dialog]
    BY <2>1, <2>2
  <2>4. /\ u = [dialog |-> u.dialog, shown |-> u.shown, dragged |-> u.dragged,
                here |-> u.here, backs |-> u.backs, seen |-> u.seen]
        /\ u.shown \in SUBSET Layers /\ u.dragged \in SUBSET Panels
        /\ u.here \in Nat /\ u.backs \in Nat /\ u.seen \in BOOLEAN
        /\ u.backs <= MaxBacks
    BY <1>1, BoundsAssumption
  <2> QED
    BY <2>2, <2>3, <2>4 DEF Pages, InBounds
<1>2. ASSUME u \in Pages, InBounds(u), u.here <= n
      PROVE  /\ u \in Record
             /\ \A d \in Dialogs :
                   u.dialog[d].removals > 0 <=> u.dialog[d].at = "closing"
  <2>1. u.dialog \in [Dialogs -> Dialog]
    BY <1>2 DEF Pages
  <2>2. ASSUME NEW d \in Dialogs
        PROVE  /\ u.dialog[d] \in [at : {"absent", "open", "closing"},
                                   removals : 0 .. MaxCloses]
               /\ u.dialog[d].removals > 0 <=> u.dialog[d].at = "closing"
    BY <1>2, <2>1, BoundsAssumption DEF Dialog, InBounds
  <2>3. u.dialog \in [Dialogs -> [at : {"absent", "open", "closing"},
                                       removals : 0 .. MaxCloses]]
    BY <2>1, <2>2
  <2>4. u.here \in 0 .. MaxEntries /\ u.backs \in 0 .. MaxBacks
    BY <1>2, BoundsAssumption DEF Pages, InBounds
  <2> QED
    BY <1>2, <2>2, <2>3, <2>4 DEF Pages
<1> QED
  BY <1>1, <1>2

\* The types, with the bounds apart.
LEMMA OverTypeParts ==
    ASSUME OverlaysTypeOK
    PROVE  /\ page \in Pages /\ InBounds(page) /\ page.here <= Len(entries)
           /\ entries \in Seq({"plain", "tutorial"}) /\ Len(entries) \in 1 .. MaxEntries
           /\ searched \in BOOLEAN
           /\ suggest \in [inflight : SUBSET Queries, latest : Queries \cup {NoText}]
           /\ reducedMotion \in BOOLEAN /\ finished \in BOOLEAN
  BY PageTypes DEF OverlaysTypeOK

\* The same of the next state.
LEMMA NextOverTypes ==
    ASSUME page' \in Pages, InBounds(page'), page'.here <= Len(entries'),
           entries' \in Seq({"plain", "tutorial"}), Len(entries') \in 1 .. MaxEntries,
           searched' \in BOOLEAN,
           suggest' \in [inflight : SUBSET Queries, latest : Queries \cup {NoText}],
           reducedMotion' \in BOOLEAN, finished' \in BOOLEAN
    PROVE  OverlaysTypeOK'
  BY PageTypes DEF OverlaysTypeOK

\* At the start.
LEMMA OverInit == OverlaysInit => OverInv
<1> SUFFICES ASSUME OverlaysInit PROVE OverInv
  OBVIOUS
<1>1. PICK seen \in BOOLEAN : page = Fresh(1, seen)
  BY DEF OverlaysInit
<1>2. /\ page \in Pages /\ InBounds(page) /\ page.here = 1
      /\ page.dialog = [d \in Dialogs |-> Absent]
  <2>1. Absent \in Dialog /\ Absent.removals = 0
    BY DEF Absent, Dialog
  <2> HIDE DEF Absent
  <2>2. page.dialog = [d \in Dialogs |-> Absent] /\ page.here = 1 /\ page.backs = 0
    BY <1>1 DEF Fresh
  <2>3. page \in Pages
    BY <1>1, <2>1 DEF Fresh, Pages
  <2> QED
    BY <2>1, <2>2, <2>3, BoundsAssumption DEF InBounds
<1>3. /\ entries \in Seq({"plain", "tutorial"}) /\ Len(entries) = 1
      /\ Len(entries) \in 1 .. MaxEntries
  BY BoundsAssumption DEF OverlaysInit
<1>4. OverlaysTypeOK
  <2>1. page.here <= Len(entries)
    BY <1>2, <1>3
  <2>2. /\ searched \in BOOLEAN /\ reducedMotion \in BOOLEAN
        /\ finished \in BOOLEAN
        /\ suggest \in [inflight : SUBSET Queries, latest : Queries \cup {NoText}]
    BY <1>1 DEF OverlaysInit, Fresh
  <2> QED
    BY <1>2, <1>3, <2>1, <2>2, PageTypes DEF OverlaysTypeOK
<1>5. BackDismisses
  BY <1>2 DEF BackDismisses, Open, Absent, Dialogs
<1>6. FinishedIsSeen
  <2>1. finished => page.seen = TRUE
    BY <1>2 DEF OverlaysInit, Pages
  <2> QED
    BY <1>2, <2>1 DEF FinishedIsSeen, OnScreen, Absent, Dialogs
<1> QED
  BY <1>4, <1>5, <1>6 DEF OverInv, OverlaysInit
\* What a step has to leave behind.
Safe ==
    /\ page \in Pages /\ InBounds(page) /\ page.here <= Len(entries)
    /\ entries \in Seq({"plain", "tutorial"}) /\ Len(entries) \in 1 .. MaxEntries
    /\ Open(page, "tutorial") => page.here > 1
    /\ finished \in BOOLEAN /\ FinishedIsSeen

\* A step that takes the tutorial off the screen only with a record of it.
LEMMA RunIsRecorded ==
    ASSUME OverInv, NoteRun, page' \in Pages, Settled(page) => Settled(page')
    PROVE  finished' \in BOOLEAN /\ FinishedIsSeen'
<1>1. finished \in BOOLEAN /\ FinishedIsSeen
  BY OverTypeParts DEF OverInv
<1>2. finished' \in BOOLEAN
  BY <1>1 DEF NoteRun, OnPage, OnScreen
<1>3. ASSUME finished'
      PROVE  Settled(page') /\ ~OnScreen(page', "tutorial")
  BY <1>1, <1>3 DEF NoteRun, FinishedIsSeen, Settled
<1> QED
  BY <1>2, <1>3 DEF FinishedIsSeen, Settled

\* A step that leaves the tutorial as it is has no run to note.
LEMMA NoRunToNote ==
    ASSUME OverInv, finished' = finished,
           page'.dialog["tutorial"] = page.dialog["tutorial"]
    PROVE  NoteRun
<1>1. finished \in BOOLEAN /\ FinishedIsSeen
  BY OverTypeParts DEF OverInv
<1>2. OnScreen(page', "tutorial") <=> OnScreen(page, "tutorial")
  BY DEF OnScreen
<1>3. CASE OnScreen(page, "tutorial")
  <2>1. ~finished
    BY <1>1, <1>3 DEF FinishedIsSeen
  <2> QED
    BY <1>1, <1>2, <1>3, <2>1 DEF NoteRun
<1>4. CASE ~OnScreen(page, "tutorial")
  BY <1>1, <1>2, <1>4 DEF NoteRun
<1> QED
  BY <1>3, <1>4

\* A step that only dismisses things does.
LEMMA LessIsSafe ==
    ASSUME OverInv, Less(page, page'), InBounds(page'),
           UNCHANGED entries, NoteRun
    PROVE  Safe'
<1>1. /\ page \in Pages /\ page.here <= Len(entries)
      /\ entries \in Seq({"plain", "tutorial"}) /\ Len(entries) \in 1 .. MaxEntries
      /\ Open(page, "tutorial") => page.here > 1
  BY OverTypeParts DEF OverInv, BackDismisses
<1>2. finished' \in BOOLEAN /\ FinishedIsSeen'
  BY RunIsRecorded DEF Less
<1> QED
  BY <1>1, <1>2 DEF Less, Safe

\* The bounds that the module puts on a step.
LEMMA BoundedIsInBounds == Bounded => InBounds(page') /\ Len(entries') <= MaxEntries
  BY DEF Bounded, InBounds

\* The tutorial comes up on an entry of its own.
LEMMA TutorialStart ==
    ASSUME OverInv, NEW u \in Pages, u.here > 0, u.here <= Len(entries),
           Open(u, "tutorial") => u.here > 1, startTutorial(u), NoteRun, Bounded
    PROVE  Safe' /\ OnScreen(page', "tutorial")
<1>1. /\ entries \in Seq({"plain", "tutorial"}) /\ Len(entries) \in 1 .. MaxEntries
      /\ InBounds(page') /\ Len(entries') <= MaxEntries
  BY OverTypeParts, BoundedIsInBounds DEF OverInv
<1>2. ASSUME OnScreen(page', "tutorial")
      PROVE  finished' \in BOOLEAN /\ FinishedIsSeen'
  BY <1>2 DEF NoteRun, FinishedIsSeen
<1>3. CASE OnScreen(u, "tutorial")
  BY <1>1, <1>2, <1>3 DEF startTutorial, Safe
<1>4. CASE ~OnScreen(u, "tutorial")
  <2> DEFINE v == [u EXCEPT !.here = @ + 1]
             pushed == Append(SubSeq(entries, 1, u.here), "tutorial")
  <2>1. v \in Pages /\ v.here = u.here + 1 /\ "tutorial" \in Dialogs
    BY DEF Pages, Dialogs
  <2>2. pushed \in Seq({"plain", "tutorial"}) /\ Len(pushed) = u.here + 1
    <3>1. u.here \in Nat /\ u.here \in 1 .. Len(entries)
      BY DEF Pages
    <3> QED
      BY <1>1, <3>1
  <2>3. page' = createModal(v, "tutorial") /\ entries' = pushed
    BY <1>4 DEF startTutorial
  <2> HIDE DEF pushed, v
  <2>4. /\ page' \in Pages /\ page'.here = u.here + 1
        /\ page'.dialog["tutorial"] = [at |-> "open", removals |-> 0]
    BY <2>1, <2>3, DialogTypes, ZenonT(40) DEF createModal, Pages
  <2>5. u.here + 1 > 1 /\ u.here \in Nat
    BY DEF Pages
  <2> QED
    BY <1>1, <1>2, <2>2, <2>3, <2>4, <2>5 DEF Safe, OnScreen
<1> QED
  BY <1>3, <1>4

\* The browser goes to another entry, which dismisses the tutorial.
LEMMA GoToEffects ==
    ASSUME NEW u \in Pages, NEW entry \in Nat
    PROVE  LET v == AtEntry(u, entry)
           IN  /\ v \in Pages /\ v.here = entry
               /\ Open(v, "tutorial") =>
                     Open(u, "tutorial") /\ entry \in {0, u.here}
               /\ Settled(u) => Settled(v)
<1> DEFINE w == [u EXCEPT !.here = entry]
<1>1. /\ w \in Pages /\ w.here = entry /\ w.dialog = u.dialog /\ w.seen = u.seen
      /\ "tutorial" \in Dialogs
  BY DEF Pages, Dialogs
<1>2. /\ Settled(u) <=> Settled(w)
      /\ Open(u, "tutorial") <=> Open(w, "tutorial")
  BY <1>1 DEF Settled, Open, OnScreen
<1> HIDE DEF w
<1>3. CASE entry \in {0, u.here}
  BY <1>1, <1>2, <1>3 DEF AtEntry, w
<1>4. CASE entry \notin {0, u.here}
  <2>1. AtEntry(u, entry) = onPopState(w)
    BY <1>4 DEF AtEntry, w
  <2>2. CASE OnScreen(w, "tutorial")
    <3>1. AtEntry(u, entry) = close(w, "tutorial")
      BY <2>1, <2>2 DEF onPopState
    <3> QED
      BY <1>1, <1>2, <3>1, DialogEffects DEF Less
  <2>3. CASE ~OnScreen(w, "tutorial")
    <3>1. AtEntry(u, entry) = w
      BY <2>1, <2>3 DEF onPopState
    <3>2. ~Open(w, "tutorial")
      BY <2>3 DEF Open, OnScreen
    <3> QED
      BY <1>1, <1>2, <3>1, <3>2
  <2> QED
    BY <2>2, <2>3
<1> QED
  BY <1>3, <1>4

\* The panels, the suggestions and the sheets come and go above the dialogs.
LEMMA LayersMove ==
    ASSUME NEW u \in Pages, NEW s \in SUBSET Layers, NEW g \in SUBSET Panels, NEW v,
           \/ v = [u EXCEPT !.shown = s]
           \/ v = [u EXCEPT !.dragged = g]
           \/ v = [u EXCEPT !.dragged = g, !.shown = s]
           \/ v = u
    PROVE  Less(u, v) /\ v.dialog = u.dialog /\ (InBounds(u) => InBounds(v))
<1>1. /\ v \in Pages /\ v.here = u.here /\ v.dialog = u.dialog /\ v.seen = u.seen
      /\ v.backs = u.backs
  BY DEF Pages
<1> QED
  BY <1>1 DEF Less, Settled, InBounds, Open, OnScreen
\* Every step of the overlays keeps what is proved of them.
LEMMA OverNext == OverInv /\ [OverlaysNext]_overlayVars => OverInv'
<1> SUFFICES ASSUME OverInv, [OverlaysNext]_overlayVars
             PROVE  OverInv'
  OBVIOUS
<1> DEFINE Asking == suggest \in [inflight : SUBSET Queries, latest : Queries \cup {NoText}]
                        /\ suggest.inflight \subseteq {suggest.latest}
<1>0. /\ page \in Pages /\ InBounds(page) /\ page.here <= Len(entries)
      /\ entries \in Seq({"plain", "tutorial"}) /\ Len(entries) \in 1 .. MaxEntries
      /\ Open(page, "tutorial") => page.here > 1
      /\ finished \in BOOLEAN /\ FinishedIsSeen
      /\ searched \in BOOLEAN /\ reducedMotion \in BOOLEAN /\ Asking
      /\ page.here \in Nat /\ page.shown \in SUBSET Layers
      /\ page.dragged \in SUBSET Panels
      /\ Panels \subseteq Layers
      /\ "settings" \in Dialogs /\ "tutorial" \in Dialogs
      /\ "settings" # "tutorial"
  BY OverTypeParts DEF OverInv, BackDismisses, Pages,
                       Layers, Panels, Dialogs
<1> DEFINE Kept == Safe' /\ searched' \in BOOLEAN /\ reducedMotion' \in BOOLEAN /\ Asking'
           others == UNCHANGED <<searched, reducedMotion, suggest>>
<1>1. ASSUME Kept
      PROVE  OverInv'
  <2>1. OverlaysTypeOK'
    BY <1>1, NextOverTypes DEF Safe
  <2> QED
    BY <1>1, <2>1 DEF OverInv, Safe, BackDismisses
<1>2. ASSUME others
      PROVE  searched' \in BOOLEAN /\ reducedMotion' \in BOOLEAN /\ Asking'
  BY <1>0, <1>2
<1>3. ASSUME FirstSearch
      PROVE  Kept
  <2>1. Safe'
    <3>1. CASE page.seen
      <4>1. page' = page /\ entries' = entries /\ NoteRun
        BY <1>3, <3>1 DEF FirstSearch
      <4>2. finished' \in BOOLEAN /\ FinishedIsSeen'
        BY <1>0, <4>1, RunIsRecorded
      <4> QED
        BY <1>0, <4>1, <4>2 DEF Safe
    <3>2. CASE ~page.seen
      BY <1>0, <1>3, <3>2, TutorialStart DEF FirstSearch, OnPage
    <3> QED
      BY <3>1, <3>2
  <2> QED
    BY <1>0, <2>1 , <1>3 DEF FirstSearch
<1>4. ASSUME OpenSettings
      PROVE  Kept
  <2> DEFINE x == [at |-> "open", removals |-> 0]
  <2>1. page' \in Pages /\ page' = [page EXCEPT !.dialog["settings"] = x]
    BY <1>0, <1>4, DialogTypes DEF OpenSettings, createModal
  <2>2. /\ page'.here = page.here /\ page'.seen = page.seen /\ page'.backs = page.backs
        /\ page'.dialog = [page.dialog EXCEPT !["settings"] = x]
    BY <1>0, <2>1 DEF Pages
  <2>3. x.removals <= MaxCloses
    BY BoundsAssumption
  <2> HIDE DEF x
  <2>4. Less(page, page') /\ InBounds(page')
    BY <1>0, <2>1, <2>2, <2>3 DEF Less, Settled, InBounds, Open, OnScreen, Pages
  <2>5. page'.dialog["tutorial"] = page.dialog["tutorial"]
    BY <1>0, <2>2 DEF Pages
  <2>6. NoteRun
    BY <1>4, <2>5, NoRunToNote DEF OpenSettings
  <2> QED
    BY <1>2, <1>4, <2>4, <2>6, LessIsSafe DEF OpenSettings
<1>5. ASSUME Replay
      PROVE  Kept
  <2> DEFINE u == close(page, "settings")
             v == [u EXCEPT !.seen = FALSE]
  <2>1. /\ u \in Pages /\ u.here = page.here
        /\ Open(u, "tutorial") => Open(page, "tutorial")
    BY <1>0, DialogEffects DEF Less
  <2>2. /\ v \in Pages /\ v.here = page.here
        /\ Open(v, "tutorial") => Open(page, "tutorial")
    BY <2>1 DEF Pages, Open
  <2> HIDE DEF v
  <2>3. startTutorial(v) /\ NoteRun /\ Bounded /\ page.here > 0
    BY <1>5 DEF Replay, OnPage, v, u
  <2>4. Safe'
    BY <1>0, <2>2, <2>3, TutorialStart
  <2> QED
    BY <1>2, <1>5, <2>4 DEF Replay
<1>6. ASSUME NEW d \in Dialogs, ClickClose(d)
      PROVE  Kept
  <2>1. Less(page, page') /\ InBounds(page')
    BY <1>0, <1>6, DialogEffects, BoundedIsInBounds DEF ClickClose
  <2> QED
    BY <1>2, <1>6, <2>1, LessIsSafe DEF ClickClose
<1>7. ASSUME NEW d \in Dialogs, FadeEnds(d)
      PROVE  Kept
  <2>1. page.dialog[d].removals \in Nat
    BY <1>0 DEF Pages, Dialog
  <2>2. Less(page, page') /\ InBounds(page')
    BY <1>0, <1>7, <2>1, DialogEffects, BoundedIsInBounds DEF FadeEnds
  <2> QED
    BY <1>2, <1>7, <2>2, LessIsSafe DEF FadeEnds
<1>8. ASSUME Escape
      PROVE  Kept
  <2>1. Less(page, page') /\ InBounds(page')
    BY <1>0, <1>8, EscapeEffects, BoundedIsInBounds DEF Escape
  <2> QED
    BY <1>2, <1>8, <2>1, LessIsSafe DEF Escape
<1>9. ASSUME NEW s \in SUBSET Layers, NEW g \in SUBSET Panels,
             page' = [page EXCEPT !.shown = s] \/ page' = [page EXCEPT !.dragged = g]
                \/ page' = [page EXCEPT !.dragged = g, !.shown = s]
                \/ page' = page,
             UNCHANGED <<entries, finished>>
      PROVE  Safe'
  <2>1. \A v : (\/ v = [page EXCEPT !.shown = s] \/ v = [page EXCEPT !.dragged = g]
                \/ v = [page EXCEPT !.dragged = g, !.shown = s] \/ v = page)
               => Less(page, v) /\ v.dialog = page.dialog /\ (InBounds(page) => InBounds(v))
    BY <1>0, LayersMove
  <2>2. Less(page, page') /\ InBounds(page') /\ page'.dialog = page.dialog
    BY <1>0, <1>9, <2>1
  <2>3. NoteRun
    BY <1>9, <2>2, NoRunToNote
  <2> QED
    BY <1>9, <2>2, <2>3, LessIsSafe
<1>10. ASSUME NEW c \in Collections, ToggleCollection(c)
       PROVE  Kept
  <2>1. PICK s \in SUBSET Layers : page' = [page EXCEPT !.shown = s]
    <3>1. c \in Layers
      BY DEF Layers, Panels
    <3> QED
      BY <1>0, <1>10, <3>1 DEF ToggleCollection, toggleCollectionPanel
  <2> QED
    BY <1>0, <1>2, <1>9, <1>10, <2>1 DEF ToggleCollection
<1>11. ASSUME NEW hides, ShowPanel(hides)
       PROVE  Kept
  <2>1. (page.shown \ hides) \cup {"panel"} \in SUBSET Layers
    BY <1>0 DEF Layers, Panels
  <2> QED
    BY <1>0, <1>2, <1>9, <1>11, <2>1 DEF ShowPanel
<1>12. ASSUME NEW hides, Hide(hides)
       PROVE  Kept
  <2>1. page.shown \ hides \in SUBSET Layers
    BY <1>0
  <2> QED
    BY <1>0, <1>2, <1>9, <1>12, <2>1 DEF Hide
<1>13. ASSUME NEW q \in Queries, AskSuggestions(q)
       PROVE  Kept
  BY <1>0, <1>9, <1>13 DEF AskSuggestions
<1>14. ASSUME NEW q \in Queries, SuggestionsArrive(q) \/ NoSuggestions(q)
       PROVE  Kept
  <2>1. /\ page.shown \cup {"suggestions"} \in SUBSET Layers
        /\ page.shown \ {"suggestions"} \in SUBSET Layers
    BY <1>0 DEF Layers
  <2>2. Safe'
    BY <1>0, <1>9, <1>14, <2>1 DEF SuggestionsArrive, NoSuggestions
  <2> QED
    BY <1>0, <1>14, <2>2 DEF SuggestionsArrive, NoSuggestions
<1>15. ASSUME NEW p \in Panels, DragStarts(p)
       PROVE  Kept
  <2>1. page.dragged \cup {p} \in SUBSET Panels
    BY <1>0
  <2> QED
    BY <1>0, <1>2, <1>9, <1>15, <2>1 DEF DragStarts
<1>16. ASSUME NEW p \in Panels, NEW shut \in BOOLEAN, DragEnds(p, shut)
       PROVE  Kept
  <2>1. /\ page.dragged \ {p} \in SUBSET Panels
        /\ page.shown \ {p} \in SUBSET Layers /\ page.shown \cup {p} \in SUBSET Layers
    BY <1>0
  <2>2. page' = [page EXCEPT !.dragged = page.dragged \ {p},
                             !.shown = IF shut THEN page.shown \ {p} ELSE page.shown \cup {p}]
    BY <1>16 DEF DragEnds
  <2> QED
    BY <1>0, <1>2, <1>9, <1>16, <2>1, <2>2 DEF DragEnds
<1>17. ASSUME UpdateURL
      PROVE  Kept
  <2>1. entries' \in Seq({"plain", "tutorial"}) /\ Len(entries') = Len(entries)
    <3>1. entries' = [entries EXCEPT ![page.here] = "plain"]
      BY <1>17 DEF UpdateURL
    <3>2. page.here \in 1 .. Len(entries) /\ "plain" \in {"plain", "tutorial"}
      BY <1>0, <1>17 DEF UpdateURL, OnPage
    <3> QED
      BY <1>0, <3>1, <3>2, ExceptSeq
  <2>2. page' = page
    BY <1>17 DEF UpdateURL
  <2>3. Safe'
    BY <1>0, <1>17, <2>1, <2>2 DEF Safe, FinishedIsSeen, UpdateURL
  <2> QED
    BY <1>2, <1>17, <2>3 DEF UpdateURL
<1>18. ASSUME NEW u \in Pages, u.here = page.here, NEW entry \in Nat, entry <= Len(entries),
              u.dialog = page.dialog, u.seen = page.seen,
              page.here > 1 => entry \notin {0, page.here},
              page' = AtEntry(u, entry), Bounded, NoteRun, UNCHANGED entries
       PROVE  Safe'
  <2>1. /\ Open(u, "tutorial") => Open(page, "tutorial")
        /\ Settled(page) => Settled(u)
    BY <1>18 DEF Open, Settled, OnScreen
  <2>2. /\ page' \in Pages /\ page'.here = entry
        /\ Open(page', "tutorial") => Open(u, "tutorial") /\ entry \in {0, u.here}
        /\ Settled(u) => Settled(page')
    BY <1>18, GoToEffects
  <2>3. InBounds(page')
    BY <1>18, BoundedIsInBounds
  <2>4. finished' \in BOOLEAN /\ FinishedIsSeen'
    BY <1>18, <2>1, <2>2, RunIsRecorded
  <2> QED
    BY <1>0, <1>18, <2>1, <2>2, <2>3, <2>4 DEF Safe
<1>19. ASSUME UserGoesBack
      PROVE  Kept
  <2>1. /\ page.here - 1 \in Nat /\ page.here - 1 <= Len(entries)
        /\ page.here > 1 => page.here - 1 \notin {0, page.here}
    BY <1>0, <1>19 DEF UserGoesBack, OnPage
  <2>2. Safe'
    BY <1>0, <1>18, <1>19, <2>1 DEF UserGoesBack
  <2> QED
    BY <1>2, <1>19, <2>2 DEF UserGoesBack
<1>20. ASSUME UserGoesForward
      PROVE  Kept
  <2>1. /\ page.here + 1 \in Nat /\ page.here + 1 <= Len(entries)
        /\ page.here + 1 \notin {0, page.here}
    BY <1>0, <1>20 DEF UserGoesForward
  <2>2. Safe'
    BY <1>0, <1>18, <1>20, <2>1 DEF UserGoesForward
  <2> QED
    BY <1>2, <1>20, <2>2 DEF UserGoesForward
<1>21. ASSUME Traverse
      PROVE  Kept
  <2> DEFINE u == [page EXCEPT !.backs = @ - 1]
  <2>1. /\ u \in Pages /\ u.here = page.here /\ u.dialog = page.dialog /\ u.seen = page.seen
    <3>1. page.backs - 1 \in Nat
      BY <1>0, <1>21 DEF Traverse, Pages
    <3> QED
      BY <1>0, <3>1 DEF Pages
  <2>2. PICK entry \in {page.here - 1} \cup (IF page.here = 1 THEN {1} ELSE {}) :
           page' = AtEntry(u, entry)
    BY <1>21 DEF Traverse
  <2> HIDE DEF u
  <2>3. /\ entry \in Nat /\ entry <= Len(entries)
        /\ page.here > 1 => entry \notin {0, page.here}
    BY <1>0, <1>21, <2>2 DEF Traverse, OnPage
  <2>4. Safe'
    BY <1>0, <1>18, <1>21, <2>1, <2>2, <2>3 DEF Traverse
  <2> QED
    BY <1>2, <1>21, <2>4 DEF Traverse
<1>22. ASSUME MotionPreferenceChanges
      PROVE  Kept
  <2>1. page' = page /\ entries' = entries /\ finished' = finished
    BY <1>22 DEF MotionPreferenceChanges
  <2>2. Safe'
    BY <1>0, <2>1 DEF Safe, FinishedIsSeen
  <2> QED
    BY <1>0, <1>22, <2>2 DEF MotionPreferenceChanges
<1>23. ASSUME ReloadPage
      PROVE  Kept
  <2>1. PICK entry \in 1 .. Len(entries) : page' = Fresh(entry, page.seen)
    BY <1>23 DEF ReloadPage
  <2>2. Absent \in Dialog /\ Absent.removals = 0 /\ Absent.at = "absent"
    BY DEF Absent, Dialog
  <2> HIDE DEF Absent
  <2>3. /\ page' \in Pages /\ page'.here = entry /\ page'.backs = 0
        /\ page'.dialog = [d \in Dialogs |-> Absent]
    BY <1>0, <2>1, <2>2 DEF Fresh, Pages
  <2>4. InBounds(page') /\ ~Open(page', "tutorial") /\ ~OnScreen(page', "tutorial")
    BY <1>0, <2>2, <2>3, BoundsAssumption DEF InBounds, Open, OnScreen
  <2>5. entries' = entries /\ finished' = finished /\ page'.seen = page.seen
    BY <1>23, <2>1 DEF ReloadPage, Fresh
  <2>6. Safe'
    BY <1>0, <2>3, <2>4, <2>5 DEF Safe, FinishedIsSeen
  <2> QED
    BY <1>0, <1>23, <2>6 DEF ReloadPage
<1>24. ASSUME UNCHANGED overlayVars
      PROVE  Kept
  <2>1. page' = page /\ entries' = entries /\ finished' = finished /\ others
    BY <1>24 DEF overlayVars
  <2>2. Safe'
    BY <1>0, <2>1 DEF Safe, FinishedIsSeen
  <2> QED
    BY <1>2, <2>1, <2>2
<1> HIDE DEF Kept
<1> QED
  BY <1>1, <1>3, <1>4, <1>5, <1>6, <1>7, <1>8, <1>10, <1>11, <1>12, <1>13, <1>14, <1>15,
     <1>16, <1>17, <1>19, <1>20, <1>21, <1>22, <1>23, <1>24 DEF OverlaysNext, Kept
\* What is proved of the overlays holds of every behaviour of theirs.
THEOREM OverlaysInvariant == OverlaysSpec => []OverInv
<1>1. OverlaysInit => OverInv
  BY OverInit
<1>2. OverInv /\ [OverlaysNext]_overlayVars => OverInv'
  BY OverNext
<1> QED
  BY <1>1, <1>2, PTL DEF OverlaysSpec

\* The dialogs, the panels, the history and the suggestions keep their types.
THEOREM OverlaysTypeCorrect == OverlaysSpec => []OverlaysTypeOK
<1>1. OverInv => OverlaysTypeOK
  BY DEF OverInv
<1> QED
  BY <1>1, OverlaysInvariant, PTL

\* While the tutorial is open there is an entry of the page to go back to.
THEOREM BackIsOnThePage == OverlaysSpec => []BackDismisses
<1>1. OverInv => BackDismisses
  BY DEF OverInv
<1> QED
  BY <1>1, OverlaysInvariant, PTL

\* The tutorial comes up uncalled only for someone whose latest run of it has
\* not gone from the screen, in whatever visit that was.
THEOREM FinishedStaysAway == OverlaysSpec => FinishedIsNotShownAgain
<1>1. ASSUME OverInv, FirstSearch, OnScreen(page', "tutorial")
      PROVE  ~finished
  <2>1. FinishedIsSeen
    BY <1>1 DEF OverInv
  <2>2. ~page.seen \/ page' = page
    BY <1>1 DEF FirstSearch
  <2> QED
    BY <1>1, <2>1, <2>2 DEF FinishedIsSeen
<1>2. OverInv /\ [OverlaysNext]_overlayVars
         => [FirstSearch /\ OnScreen(page', "tutorial") => ~finished]_overlayVars
  BY <1>1
<1> QED
  BY <1>2, OverlaysInvariant, PTL DEF OverlaysSpec, FinishedIsNotShownAgain

\* An Escape that closes a dialog leaves the panels beneath it as they are.
THEOREM EscapeIsOneLayer == OverlaysSpec => EscapeTakesOneLayer
<1>1. ASSUME OverInv, Escape, ~reducedMotion, \E d \in Dialogs : Open(page, d)
      PROVE  page'.shown \cap Panels = page.shown \cap Panels
  <2>1. page \in Pages
    BY <1>1, OverTypeParts DEF OverInv
  <2>2. \E d \in Dialogs : OnScreen(Trapped(page), d)
    BY <1>1, <2>1, EscapeEffects
  <2>3. page' = closeTopmost(Trapped(page))
    BY <1>1 DEF Escape
  <2> QED
    BY <2>1, <2>2, <2>3, EscapeEffects
<1>2. OverInv /\ [OverlaysNext]_overlayVars
         => [Escape /\ ~reducedMotion /\ (\E d \in Dialogs : Open(page, d))
                => page'.shown \cap Panels = page.shown \cap Panels]_overlayVars
  BY <1>1
<1> QED
  BY <1>2, OverlaysInvariant, PTL DEF OverlaysSpec, EscapeTakesOneLayer

\* The suggestions that arrive are those for the latest text.
THEOREM LatestSuggestions == OverlaysSpec => SuggestionsOfLatest
<1>1. OverInv => \A q \in Queries : SuggestionsArrive(q) => q = suggest.latest
  BY DEF OverInv, SuggestionsArrive
<1>2. OverInv /\ [OverlaysNext]_overlayVars
         => [\A q \in Queries : SuggestionsArrive(q) => q = suggest.latest]_overlayVars
  BY <1>1
<1> QED
  BY <1>2, OverlaysInvariant, PTL DEF OverlaysSpec, SuggestionsOfLatest
=============================================================================
