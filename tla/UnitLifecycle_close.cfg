SPECIFICATION FairSpec
CONSTANTS
    stack = stack tool = tool query = query
    Programs <- ThreePrograms
    Queries <- OneQuery
    Failures <- AllFailures
    Overlap = FALSE
INVARIANTS TypeOK NothingFreedInUse OpenersListed NothingLeft WildOnlyAfterFailure
PROPERTY CallsReturn
CHECK_DEADLOCK FALSE
