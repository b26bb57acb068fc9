SPECIFICATION FairSpec
CONSTANTS
    Abilities <- GigabitAndFast
    Peers <- SomePartners
    NULL = NULL
    AnegPolls = 2
    ResetPolls = 1
INVARIANTS TypeOK LinkAsNegotiated DeviceOwned
PROPERTY CommandReturns
