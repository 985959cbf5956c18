SPECIFICATION Spec
CONSTANTS
    Requests <- ThreeRequests
    AutoComplete <- LastOne
INVARIANTS AlwaysFinished
CHECK_DEADLOCK FALSE
