CONSTANTS
    MaxCloses = 2
    MaxEntries = 3
    MaxBacks = 2
    Queries = {q1, q2}
    NoText = NoText

SPECIFICATION OverlaysSpec
SYMMETRY Symmetry

INVARIANTS
    OverlaysTypeOK
    BackDismisses

PROPERTIES
    FinishedIsNotShownAgain
    EscapeTakesOneLayer
    SuggestionsOfLatest
