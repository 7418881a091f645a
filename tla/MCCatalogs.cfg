SPECIFICATION FairSpec
CONSTANTS
    doh = doh
    mixed = mixed
    broken = broken
    Keys = {doh, mixed, broken}
    Hosts <- MCHosts
    Installs <- MCInstalls
    Configs <- MCConfigs
    Unreadable = Unreadable
    NoLeases = NoLeases
    LeaseFiles = {full, Unreadable}
    Handlers = {h1, h2, h3}
    Sources = {s1, s2}
    Requests = {r1}
    NoHandler = NoHandler
    NoSource = NoSource
    NoCatalog = NoCatalog
    Dead = Dead
INVARIANTS
    OneForwarderPerKey
    TasksRunWhileUsed
PROPERTIES
    ObsoleteTasksEnd
    LanTableCatchesUp
