SPECIFICATION FairSpec
CONSTANTS
    client = client
    other = other
    lan = lan
    vpn = vpn
    ask = ask
    bad = bad
    answer = answer
    stray = stray
    Sockets = {udp53}
    Tcp = tcp53
    Datagrams = {ask, bad, answer, stray}
    PeerOf <- MCPeerOf
    LocalOf <- MCLocalOf
    Kind <- MCKind
    Tasks = {t1, t2}
    MaxConnections = 1
    Configs <- MCConfigs
    NoDatagram = NoDatagram
    NoTask = NoTask
    NoReply = NoReply
INVARIANTS
    ListenersStopTogether
PROPERTIES
    RepliesMatchRequests
    ExitIsHonest
    ProcessEnds
CHECK_DEADLOCK FALSE
