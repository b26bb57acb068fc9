SPECIFICATION FairSpec
CONSTANTS
    c1 = c1 c2 = c2 u = u a = a r = r m = m e = e null = null nobody = nobody
    Clients <- TwoClients
    Unit <- u
    Reqs <- FaultReqs
    RawReqs <- OnlyRaw
    EmptyReqs <- OnlyEmpty
    MulticastReqs <- None
    NoReq <- null
    NoTask <- nobody
    TX_DESCS = 4
    INDEX_SPAN = 8
    RECLAIM_THRESHOLD = 3
    HwStart <- StartLate
    CopyMayFail = TRUE
    StartMayFail = TRUE
    AllowOffline = TRUE
    QuietRestart = FALSE
    LateAborts <- None
    MaxSessions = 1
PROPERTIES WritesComplete StopReturns
CHECK_DEADLOCK FALSE
