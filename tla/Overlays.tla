------------------------------ MODULE Overlays ------------------------------
(***************************************************************************)
(* What lies over the map in the browser, and the keys that dismiss it:    *)
(* the dialogs of modal.js (the settings of settings.js, the tutorial of   *)
(* tutorial.js, which has an entry of its own in the session history), the *)
(* panels and suggestions that keyboard.js closes from the top down, the   *)
(* toggles of panels.js and the sheets that can be dragged (Sheet.js).     *)
(*                                                                         *)
(* A dialog fades out before it is removed.  Until then its buttons work,  *)
(* and each further close() registers one more removal for the end of the  *)
(* fade.  history.back() is a request: the browser goes back later.        *)
(* Suggestions come for the text that is in the address box when its timer *)
(* fires; a request for them is aborted by the next.                       *)
(***************************************************************************)
EXTENDS Naturals, Sequences

CONSTANTS
    MaxCloses,    \* bound: removals waiting for one fade
    MaxEntries,   \* bound: entries of the session history that are the page's
    MaxBacks,     \* bound: history.back() requests under way
    Queries,      \* texts long enough for the address box to suggest something
    NoText

ASSUME BoundsAssumption ==
    MaxCloses \in Nat \ {0} /\ MaxEntries \in Nat \ {0} /\ MaxBacks \in Nat \ {0}

VARIABLES
    page,          \* what is on the screen, and where in the session history
    entries,       \* the page's entries in the session history
    searched,      \* firstSearchDone
    suggest,       \* requests for suggestions in flight, and (history) the latest text asked for
    reducedMotion, \* the prefers-reduced-motion media query
    finished       \* history: the tutorial's latest run has gone from the screen

overlayVars == <<page, entries, searched, suggest, reducedMotion, finished>>

Dialogs == {"settings", "tutorial"}
Collections == {"history", "favorites"}
Panels == Collections \cup {"panel"}
Layers == Panels \cup {"suggestions"}
Absent == [at |-> "absent", removals |-> 0]

OnPage == page.here > 0
OnScreen(u, d) == u.dialog[d].at # "absent"
Open(u, d) == u.dialog[d].at = "open"

OverlaysTypeOK ==
    /\ page \in [dialog : [Dialogs -> [at : {"absent", "open", "closing"},
                                       removals : 0 .. MaxCloses]],
                 shown   : SUBSET Layers,
                 dragged : SUBSET Panels,  \* Sheet.isDragging
                 here    : 0 .. MaxEntries,  \* current entry; 0: the page is left
                 backs   : 0 .. MaxBacks,   \* history.back() requests under way
                 seen    : BOOLEAN]        \* localStorage: TUTORIAL_SEEN
    /\ \A d \in Dialogs : page.dialog[d].removals > 0 <=> page.dialog[d].at = "closing"
    /\ entries \in Seq({"plain", "tutorial"})
    /\ Len(entries) \in 1 .. MaxEntries
    /\ page.here <= Len(entries)
    /\ searched \in BOOLEAN
    /\ suggest \in [inflight : SUBSET Queries, latest : Queries \cup {NoText}]
    /\ reducedMotion \in BOOLEAN
    /\ finished \in BOOLEAN

Fresh(here, seen) ==
    [dialog |-> [d \in Dialogs |-> Absent], shown |-> {}, dragged |-> {},
     here |-> here, backs |-> 0, seen |-> seen]

OverlaysInit ==
    /\ page \in {Fresh(1, seen) : seen \in BOOLEAN}
    /\ entries = <<"plain">>
    /\ searched = FALSE
    /\ suggest = [inflight |-> {}, latest |-> NoText]
    /\ reducedMotion \in BOOLEAN
    /\ finished = page.seen

-----------------------------------------------------------------------------
\* Effects on the page, as functions of it.  Definitions named slip_ are
\* plausible mistakes in the definition that follows them; no action uses one.
\* Each breaks a property.

\* remove(), run n times in a row: the overlay goes, and onClose runs.  The
\* tutorial's looks at the current entry, which a request to go back has not
\* changed yet.
slip_SeenWithItsEntry(u, d, n) ==
    LET mine == d = "tutorial" /\ entries[u.here] = "tutorial"
    IN  [u EXCEPT !.dialog[d] = Absent,
                  !.seen  = @ \/ mine,
                  !.backs = IF mine THEN @ + n ELSE @]

remove(u, d, n) ==
    [u EXCEPT !.dialog[d] = Absent,
              !.seen  = @ \/ d = "tutorial",
              !.backs = IF d = "tutorial" /\ entries[u.here] = "tutorial"
                        THEN @ + n ELSE @]

slip_NeverRemoved(u, d) ==
    IF reducedMotion
    THEN remove(u, d, 1)
    ELSE [u EXCEPT !.dialog[d].at = "closing"]

close(u, d) ==
    IF reducedMotion
    THEN remove(u, d, 1)
    ELSE [u EXCEPT !.dialog[d] = [at |-> "closing", removals |-> @.removals + 1]]

createModal(u, d) == [u EXCEPT !.dialog[d] = [at |-> "open", removals |-> 0]]

\* The key traps of the open dialogs see Escape before keyboard.js does.
Trapped(u) ==
    LET one == IF Open(u, "settings") THEN close(u, "settings") ELSE u
    IN  IF Open(one, "tutorial") THEN close(one, "tutorial") ELSE one

\* The first of the panels on the screen, in the order in which Escape closes them.
TopPanel(u) ==
    LET open == SelectSeq(<<"panel", "history", "favorites">>,
                          LAMBDA p : p \in u.shown)
    IN  IF open = <<>> THEN {} ELSE {Head(open)}

slip_OpenDialogsOnly(u) ==
    IF Open(u, "settings") THEN close(u, "settings")
    ELSE IF "suggestions" \in u.shown
         THEN [u EXCEPT !.shown = @ \ {"suggestions"}]
    ELSE IF Open(u, "tutorial") THEN u
    ELSE [u EXCEPT !.shown = @ \ TopPanel(u)]

closeTopmost(u) ==
    IF OnScreen(u, "settings") THEN close(u, "settings")
    ELSE IF "suggestions" \in u.shown
         THEN [u EXCEPT !.shown = @ \ {"suggestions"}]
    ELSE IF OnScreen(u, "tutorial") THEN u
    ELSE [u EXCEPT !.shown = @ \ TopPanel(u)]

toggleCollectionPanel(u, c) ==
    IF c \in u.shown THEN [u EXCEPT !.shown = @ \ {c}]
    ELSE [u EXCEPT !.shown = (@ \ Panels) \cup {c}]

\* The tutorial's popstate listener is there as long as its overlay.
onPopState(u) == IF OnScreen(u, "tutorial") THEN close(u, "tutorial") ELSE u

-----------------------------------------------------------------------------
\* What an action may not outgrow: the bounds of the model.
Bounded ==
    /\ \A d \in Dialogs : page'.dialog[d].removals <= MaxCloses
    /\ page'.backs <= MaxBacks
    /\ Len(entries') <= MaxEntries

\* The history of the runs: one has finished once the tutorial, removed at the
\* end of its fade, is not on the screen any more.  A run that is on the screen
\* when the user leaves the page has not, even if it was fading already.
NoteRun ==
    finished' = IF OnScreen(page', "tutorial") THEN FALSE
                ELSE finished \/ (OnPage /\ OnScreen(page, "tutorial"))

slip_ReplacesEntry(u) ==
    IF OnScreen(u, "tutorial")
    THEN page' = u /\ UNCHANGED entries
    ELSE /\ page' = createModal(u, "tutorial")
         /\ entries' = [entries EXCEPT ![u.here] = "tutorial"]

\* pushState discards the entries ahead of the current one.
startTutorial(u) ==
    IF OnScreen(u, "tutorial")
    THEN page' = u /\ UNCHANGED entries
    ELSE /\ page' = createModal([u EXCEPT !.here = @ + 1], "tutorial")
         /\ entries' = Append(SubSeq(entries, 1, u.here), "tutorial")

\* performSearch succeeds for the first time.
FirstSearch ==
    /\ OnPage
    /\ ~searched
    /\ searched' = TRUE
    /\ IF page.seen THEN UNCHANGED <<page, entries>> ELSE startTutorial(page)
    /\ UNCHANGED <<suggest, reducedMotion>>
    /\ NoteRun
    /\ Bounded

\* The help button, or "?".  Shortcuts work under a dialog too.
OpenSettings ==
    /\ OnPage
    /\ \A d \in Dialogs : ~OnScreen(page, d)
    /\ page' = createModal(page, "settings")
    /\ UNCHANGED <<entries, searched, reducedMotion, suggest, finished>>

\* "Replay tutorial": a button of the settings.
Replay ==
    /\ OnPage
    /\ OnScreen(page, "settings")
    /\ startTutorial([close(page, "settings") EXCEPT !.seen = FALSE])
    /\ UNCHANGED <<searched, reducedMotion, suggest>>
    /\ NoteRun
    /\ Bounded

\* A dialog's close, skip or finish button, or a click beside it.
ClickClose(d) ==
    /\ OnPage
    /\ OnScreen(page, d)
    /\ page' = close(page, d)
    /\ UNCHANGED <<entries, searched, reducedMotion, suggest>>
    /\ NoteRun
    /\ Bounded

Escape ==
    /\ OnPage
    /\ page' = closeTopmost(Trapped(page))
    /\ UNCHANGED <<entries, searched, reducedMotion, suggest>>
    /\ NoteRun
    /\ Bounded

\* transitionend: every removal registered by now runs.
FadeEnds(d) ==
    /\ OnPage
    /\ page.dialog[d].at = "closing"
    /\ page' = remove(page, d, page.dialog[d].removals)
    /\ UNCHANGED <<entries, searched, reducedMotion, suggest>>
    /\ NoteRun
    /\ Bounded

ToggleCollection(c) ==
    /\ OnPage
    /\ page' = toggleCollectionPanel(page, c)
    /\ UNCHANGED <<entries, searched, reducedMotion, suggest, finished>>

\* openStationById shows the panel in place of the collections, and again when
\* the station is rendered, in place of nothing.
ShowPanel(hides) ==
    /\ OnPage
    /\ page' = [page EXCEPT !.shown = (@ \ hides) \cup {"panel"}]
    /\ UNCHANGED <<entries, searched, reducedMotion, suggest, finished>>

\* A close button, a click elsewhere, the start of a search, resetSearchUI.
Hide(hides) ==
    /\ OnPage
    /\ page' = [page EXCEPT !.shown = @ \ hides]
    /\ UNCHANGED <<entries, searched, reducedMotion, suggest, finished>>

slip_WithoutAbort(q) ==
    /\ OnPage
    /\ suggest' = [inflight |-> suggest.inflight \cup {q}, latest |-> q]
    /\ UNCHANGED <<page, entries, searched, reducedMotion, finished>>

\* showSuggestions, 400 ms after the last key.  A text that has become too
\* short hides the box, no more (Hide).
AskSuggestions(q) ==
    /\ OnPage
    /\ suggest' = [inflight |-> {q}, latest |-> q]
    /\ UNCHANGED <<page, entries, searched, reducedMotion, finished>>

SuggestionsArrive(q) ==
    /\ OnPage
    /\ q \in suggest.inflight
    /\ suggest' = [suggest EXCEPT !.inflight = @ \ {q}]
    /\ page' = [page EXCEPT !.shown = @ \cup {"suggestions"}]
    /\ UNCHANGED <<entries, searched, reducedMotion, finished>>

\* There are none, or the request fails.
NoSuggestions(q) ==
    /\ OnPage
    /\ q \in suggest.inflight
    /\ suggest' = [suggest EXCEPT !.inflight = @ \ {q}]
    /\ page' = [page EXCEPT !.shown = @ \ {"suggestions"}]
    /\ UNCHANGED <<entries, searched, reducedMotion, finished>>

DragStarts(p) ==
    /\ OnPage
    /\ p \in page.shown
    /\ page' = [page EXCEPT !.dragged = @ \cup {p}]
    /\ UNCHANGED <<entries, searched, reducedMotion, suggest, finished>>

\* The sheet snaps open, also if its panel was closed meanwhile, or shut.
DragEnds(p, shut) ==
    /\ OnPage
    /\ p \in page.dragged
    /\ page' = [page EXCEPT !.dragged = @ \ {p},
                            !.shown   = IF shut THEN @ \ {p} ELSE @ \cup {p}]
    /\ UNCHANGED <<entries, searched, reducedMotion, suggest, finished>>

\* updateURL: replaceState(null), 250 ms after the map has come to rest.
UpdateURL ==
    /\ OnPage
    /\ entries' = [entries EXCEPT ![page.here] = "plain"]
    /\ UNCHANGED <<page, searched, reducedMotion, suggest, finished>>

\* popstate is seen by the page once its state is that of the new entry.
AtEntry(u, entry) ==
    IF entry \in {0, u.here} THEN [u EXCEPT !.here = entry]
                             ELSE onPopState([u EXCEPT !.here = entry])

\* The browser's own buttons.
UserGoesBack ==
    /\ OnPage
    /\ page' = AtEntry(page, page.here - 1)
    /\ UNCHANGED <<entries, searched, reducedMotion, suggest>>
    /\ NoteRun
    /\ Bounded

UserGoesForward ==
    /\ OnPage
    /\ page.here < Len(entries)
    /\ page' = AtEntry(page, page.here + 1)
    /\ UNCHANGED <<entries, searched, reducedMotion, suggest>>
    /\ NoteRun
    /\ Bounded

\* A request to go back is carried out: from the first entry it leaves the
\* page, or does nothing if the tab has seen no other.
Traverse ==
    /\ OnPage
    /\ page.backs > 0
    /\ \E entry \in {page.here - 1} \cup (IF page.here = 1 THEN {1} ELSE {}) :
          page' = AtEntry([page EXCEPT !.backs = @ - 1], entry)
    /\ UNCHANGED <<entries, searched, reducedMotion, suggest>>
    /\ NoteRun
    /\ Bounded

MotionPreferenceChanges ==
    /\ OnPage
    /\ reducedMotion' = ~reducedMotion
    /\ UNCHANGED <<page, entries, searched, suggest, finished>>

\* The user comes back to the page, which loads anew.
ReloadPage ==
    /\ ~OnPage
    /\ \E entry \in 1 .. Len(entries) : page' = Fresh(entry, page.seen)
    /\ searched' = FALSE
    /\ suggest' = [inflight |-> {}, latest |-> NoText]
    /\ UNCHANGED <<entries, reducedMotion, finished>>

OverlaysNext ==
    \/ FirstSearch
    \/ OpenSettings
    \/ Replay
    \/ \E d \in Dialogs : ClickClose(d)
    \/ \E d \in Dialogs : FadeEnds(d)
    \/ Escape
    \/ \E c \in Collections : ToggleCollection(c)
    \/ \E hides \in {Collections, {}} : ShowPanel(hides)
    \/ \E hides \in {{l} : l \in Layers} \cup {Layers} : Hide(hides)
    \/ \E q \in Queries : AskSuggestions(q) \/ SuggestionsArrive(q) \/ NoSuggestions(q)
    \/ \E p \in Panels : DragStarts(p)
    \/ \E p \in Panels, shut \in BOOLEAN : DragEnds(p, shut)
    \/ UpdateURL
    \/ UserGoesBack
    \/ UserGoesForward
    \/ Traverse
    \/ MotionPreferenceChanges
    \/ ReloadPage

OverlaysSpec == OverlaysInit /\ [][OverlaysNext]_overlayVars

-----------------------------------------------------------------------------
\* "Push a history entry so the browser back button dismisses the tutorial"
\* (tutorial.js:118): while it is open there is an entry of the page to go back
\* to, whatever was pushed, replaced or popped before.
BackDismisses == Open(page, "tutorial") => page.here > 1

\* The tutorial comes up uncalled only for someone whose latest run of it has
\* not gone from the screen: once a run has, it counts as seen in every later
\* visit, however it was dismissed, replayed or overtaken by the back button.
\* It is not enough to dismiss it: TUTORIAL_SEEN is written at the end of the
\* fade (tutorial.js:108), and who leaves the page before, or leaves a replay
\* open, gets the tutorial again.
FinishedIsNotShownAgain ==
    [][FirstSearch /\ OnScreen(page', "tutorial") => ~finished]_overlayVars

\* "Push a history entry so the browser back button dismisses the tutorial"
\* (tutorial.js:118): one entry, which one dismissal takes back, once.
OneEntryTakenBack == [][page'.backs <= page.backs + 1]_overlayVars

\* "Handled by tutorial.js" (keyboard.js:33), and closeTopmost by its name: an
\* Escape that closes a dialog leaves the panels beneath it as they are, though
\* two listeners hear it and the dialog is already closing for the second.
\* Where motion is reduced it is gone by then, and this does not hold.
EscapeTakesOneLayer ==
    [][Escape /\ ~reducedMotion /\ (\E d \in Dialogs : Open(page, d))
           => page'.shown \cap Panels = page.shown \cap Panels]_overlayVars

\* The suggestions shown are those for the latest text: the answer to an earlier
\* one, however late, never takes their place (app.js:295-296).
SuggestionsOfLatest ==
    [][\A q \in Queries : SuggestionsArrive(q) => q = suggest.latest]_overlayVars
=============================================================================
