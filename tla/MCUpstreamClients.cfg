CONSTANTS
    p1 = p1
    p2 = p2
    near = near
    Requests = {r1, r2, r3}
    Points = {p1}
    Cells = {near}
    Quantize <- Rounding
    Radii = {"5"}
    Ids = {}
    Texts = {}
    Languages = {}
    FirstTwo <- Prefixes
    GeocodeBurst = 1
    MaxVersion = 1
SYMMETRY Symmetry
SPECIFICATION Spec
INVARIANTS
    TypeOK
    OneCallPerKey
    CancellationIsPrivate
    NoStepBack
