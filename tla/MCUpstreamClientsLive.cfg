CONSTANTS
    p1 = p1
    p2 = p2
    near = near
    Requests = {r1, r2}
    Points = {}
    Cells = {near}
    Quantize <- Rounding
    Radii = {}
    Ids = {}
    Texts = {"roma"}
    Languages = {"it-IT", "de"}
    FirstTwo <- Prefixes
    GeocodeBurst = 1
    MaxVersion = 0
SPECIFICATION FairSpec
INVARIANT
    AnswerMatchesRequest
PROPERTY
    EveryRequestEnds
