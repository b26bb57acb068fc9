SPECIFICATION Spec
CONSTANTS
    ip = ip diag = diag
    Stacks <- TwoStacks
    MaxAddr = 15
    FirstGroup = 4
    OwnMac = 1
    ZeroMac = 0
    Ranges <- SmallRanges
    MAX_MDF_FILTER = 5
    COUNT_SPAN = 32
    MaxUses = 2
INVARIANTS TypeOK ReceivedAsAsked MembershipExact
