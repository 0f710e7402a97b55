CONSTANTS
    Stations = {s1, s2, s3}
    Tabs = {t1, t2}
    Facts = {f}
    NoStation = NoStation
    MAX_SIZE = 2
    MaxWrites = 5

SPECIFICATION Spec
SYMMETRY Symmetry

INVARIANTS
    TypeOK
    HeartTellsFavourite

PROPERTY NothingIsLost
