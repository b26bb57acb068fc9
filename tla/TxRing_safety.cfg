SPECIFICATION Spec
CONSTANTS
    c1 = c1 c2 = c2 u = u a = a r = r m = m e = e null = null nobody = nobody
    Clients <- TwoClients
    Unit <- u
    Reqs <- ThreeReqs
    RawReqs <- OnlyRaw
    EmptyReqs <- None
    MulticastReqs <- OnlyMulticast
    NoReq <- null
    NoTask <- nobody
    TX_DESCS = 4
    INDEX_SPAN = 8
    RECLAIM_THRESHOLD = 3
    HwStart <- StartLate
    CopyMayFail = FALSE
    StartMayFail = FALSE
    AllowOffline = TRUE
    QuietRestart = TRUE
    LateAborts <- TwoLate
    MaxSessions = 2
SYMMETRY ClientSymmetry
INVARIANTS TypeOK SemaphoreExclusion Accounting RingInStep FramesWhole BuffersLive OnePlace
PROPERTIES WaysToLose ImplementsTxQueue
