SPECIFICATION Spec
INVARIANTS
    RuntimeImagesAreKept
    CommittedIsAsPinned
    RerunFindsItsImages
    NothingPilesUp
CHECK_DEADLOCK FALSE
CONSTANTS
    None = None
    first = first
    second = second
    map1 = map1
    map2 = map2
    pinvi = pinvi
    api = api
    web = web
    Pinsets = {first, second}
    First = first
    Trees = {map1, map2, pinvi}
    Needs <- MCNeeds
    AppSlots = {api}
    ComposeSlots = {web}
    RoleOf <- MCRoleOf
    Digests = {digest}
    MaxRuns <- MCMaxRuns
    MaxEdits = 1
