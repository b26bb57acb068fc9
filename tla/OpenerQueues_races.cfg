SPECIFICATION FairSpec
CONSTANTS
    c1 = c1 c2 = c2 u = u A = A B = B ip = ip len1 = len1 len2 = len2
    r1 = r1 r2 = r2 r3 = r3 r4 = r4 null = null nobody = nobody
    OpenerList <- TwoOpeners
    Unit <- u
    Readers <- Reader
    Writers <- Writer
    Request <- MixedRequests
    Types <- ThreeTypes
    FrameTypes <- TwoTypes
    FastTypes <- Fast
    LengthTypes <- Lengths
    NoReq <- null
    NoTask <- nobody
    FilterRejects = TRUE
    LateAborts <- First
INVARIANTS TypeOK OnePlace NoReaderPassedOver EventsReported LockDiscipline
PROPERTY TasksReturn
