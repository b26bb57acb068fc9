SPECIFICATION Spec
CONSTANTS
    stack = stack tool = tool query = query
    Programs <- ThreePrograms
    Queries <- OneQuery
    Failures <- NoFailures
    Overlap = TRUE
INVARIANT LastUserDisappeared
CHECK_DEADLOCK FALSE
