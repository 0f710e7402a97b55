CONSTANTS
    s1 = s1
    s2 = s2
    home1 = home1
    home2 = home2
    both = both
    Stations = {s1, s2}
    Zones = {home1, home2, both}
    InZone <- Returned
    Priced <- WithPrice
    Setting <- Fuels
    HomeZone <- Homes
    LocatedByServer = {s2}
    Listed <- Entries
    None = None
    MaxPending = 2
SPECIFICATION FairSpec
INVARIANTS
    TypeOK
    LatestSearchIsShown
    DimmedForSelection
PROPERTIES
    SupersededNeverInstalls
    SpinnerEnds
