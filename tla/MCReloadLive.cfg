SPECIFICATION FairSpec
CONSTANTS
    u1 = u1
    u2 = u2
    id1 = id1
    ta = ta
    tb = tb
    Urls = {u1, u2}
    Ids = {id1}
    Transports = {ta, tb}
    RetryMax = 1
    Requests = {}
    Dead = {u1}
    Volatile = {u2}
    Malformed = {}
    MaxRev = 2
    Configs <- LiveConfigs
    Budget <- LiveBudget
    NoId = NoId
    NoFile = NoFile
    NoCatalog = NoCatalog
    NoJob = NoJob
    NoSettings = NoSettings
    NoTransport = NoTransport
    Broken = Broken
    Absent = Absent
    Garbled = Garbled
PROPERTIES
    StopsWhenTold
    MissingListsArrive
    RefreshesCatchUp
CHECK_DEADLOCK FALSE
