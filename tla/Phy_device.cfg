SPECIFICATION Spec
CONSTANTS
    Abilities <- GigabitAndFast
    Peers <- SomePartners
    NULL = NULL
    AnegPolls = 2
    ResetPolls = 1
INVARIANT StartupHasDevice
