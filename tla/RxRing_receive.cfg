SPECIFICATION RxFairSpec
CONSTANTS
    a = a b = b short = short none = none garbage = garbage
    Frames <- ThreeFrames
    ShortFrames <- OneShort
    NoFrame <- none
    RX_DESCS = 2
    INDEX_SPAN = 4
    RxStart <- Late
    Garbage <- garbage
    DefaultLadder <- Ladder
    DEFAULT_POLL_LADDER_MAX = 1
    DEFAULT_TX_RECLAIM_SOFT_US = 2000
    DEFAULT_RX_POLL_BURST = 2
    DEFAULT_RX_POLL_BURST_IDLE_BREAK = 1
    WORD_SPAN = 65536
    PrefsFiles <- Files
INVARIANTS RxTypeOK WindowHolds
PROPERTIES ImplementsRxQueue FramesDelivered
