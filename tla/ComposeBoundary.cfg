SPECIFICATION BoundarySpec
INVARIANTS
    SecretsStayPut
    ServersAreClosed
CHECK_DEADLOCK FALSE
CONSTANTS
    Absent = Absent
    pg = pg
    pg2 = pg2
    api = api
    boot = boot
    ui = ui
    worker = worker
    url = url
    next = next
    AdminPw = AdminPw
    Admin2Pw = Admin2Pw
    ApiKey = ApiKey
    UiKey = UiKey
    PubKey = PubKey
    Plain = Plain
    Root = Root
    UiRoot = UiRoot
    admin = admin
    admin2 = admin2
    apikey = apikey
    uikey = uikey
    maps = maps
    adminFile = adminFile
    admin2File = admin2File
    apiFile = apiFile
    uiEnv = uiEnv
    image = image
    tool = tool
    p1 = p1
    p2 = p2
    super = super
    mapUser = mapUser
    metaUser = metaUser
    Services <- MCServices
    Keys <- MCKeys
    Vars <- MCVars
    Secrets <- MCSecrets
    Mounts <- MCMounts
    FileNames <- MCFileNames
    Images <- MCImages
    Ports <- MCPorts
    Users <- MCUsers
    Reference <- MCReference
    Contexts <- MCContexts
    FileRoots <- MCFileRoots
    Top <- MCTop
    Sensitive = {AdminPw, Admin2Pw, ApiKey, UiKey}
    Public = {PubKey}
    Printed = {}
    Declared = {pg, pg2}
    Required = {pg, api}
    Runtime = {api}
    Bootstrap = boot
    Variants <- MCVariants
    Environments <- MCEnvironments
    Contents <- MCContents
    MaxChanges = 2
