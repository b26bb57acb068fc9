SPECIFICATION FairSpec
CONSTANTS
    garbage = garbage
    Garbage <- garbage
    DefaultLadder <- TwoSteps
    DEFAULT_POLL_LADDER_MAX = 3
    DEFAULT_TX_RECLAIM_SOFT_US = 1
    DEFAULT_RX_POLL_BURST = 2
    DEFAULT_RX_POLL_BURST_IDLE_BREAK = 2
    PrefsFiles <- Files
    TX_DESCS = 1
    WORD_SPAN = 3
    MaxCommands = 2
    MaxWrites = 1
INVARIANTS TypeOK TimersSound ReclaimedInTime
PROPERTIES CommandsServed PollsForever BackoffSettles
CHECK_DEADLOCK FALSE
