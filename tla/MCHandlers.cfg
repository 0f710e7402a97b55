CONSTANTS
    Requests = {r1, r2}
    Writers = {w1, w2}
    Types <- AllTypes
    Compressible <- TextTypes
    Searches <- Queries
    LatMin = 2
    LatMax = 3
    LngMin = 6
    LngMax = 7
    MaxRadius = 50
    Stations = 1
    Offers <- SomeOffers

SYMMETRY Symmetry
SPECIFICATION Spec

INVARIANTS
    TypeOK
    OnlyValidSearches
    AnswersOwnFuel
    WholeAndOwn
    HeaderFitsBody
