CONSTANTS
    Centres = {home, away}
    Home = home
    MaxZoom = 1
    DEFAULT_ZOOM = 1
    Fuels = {f1, f2}
    FirstFuel = f1
    Radii = {r1, r2}
    DEFAULT_RADIUS = r1
    Brands = {1, 2}
    BUCKET = 3
    TOP_N = 1
    Zones <- ZonesDef
    None = None

SPECIFICATION Spec

INVARIANTS
    TypeOK
    ReloadRestores
    FilterFitsZone
