SPECIFICATION Spec
CONSTANTS
    u1 = u1
    u2 = u2
    id1 = id1
    ta = ta
    tb = tb
    Urls = {u1, u2}
    Ids = {id1}
    Transports = {ta, tb}
    RetryMax = 2
    Requests = {}
    Dead = {}
    Volatile = {u2}
    Malformed <- BadLists
    MaxRev = 2
    Configs <- DiskConfigs
    Budget <- DiskBudget
    NoId = NoId
    NoFile = NoFile
    NoCatalog = NoCatalog
    NoJob = NoJob
    NoSettings = NoSettings
    NoTransport = NoTransport
    Broken = Broken
    Absent = Absent
    Garbled = Garbled
INVARIANTS
    ListsSurviveCrash
    NoForeignLists
    RestartFailsForAReason
PROPERTIES
    RefreshIsComplete
    ListsNeverGoBack
