SPECIFICATION BoundedSpec
CONSTANTS
    Revisions = {"r1", "r2", "r3"}
    First = "r1"
    None = None
    MaxKills = 2
    MaxWrites = 2
    Commands = {c1, c2}
    Services = {"geo", "map"}
    Roles = {"api", "web", "etl"}
    Owner <- OwnerOf
    Images = {"old", "new"}
    MaxStarts = 2
    Locations = {"a", "b"}
    Pinned = {"b"}
    Lists <- ListsOf
CONSTRAINT Scope
SYMMETRY Twins
INVARIANTS
    ReleasesStand
    EnvSurvivesInstalls
    BackendIsOfApp
    AdoptedTogether
    OneScheduler
    OwnDaemonOwnInstance
PROPERTY RecreatesCurrent
