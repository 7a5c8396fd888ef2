SPECIFICATION Spec
CONSTANTS
    a = a
    b = b
    c = c
    None = None
    Tasks <- MCTasks
    Priority <- MCPriority
    Length = 2
    Waits = {"none", "finite", "forever"}
    MaxItems = 3
SYMMETRY Equals
INVARIANT
    NoLostWakeUp
PROPERTY
    IsBoundedQueue
CHECK_DEADLOCK FALSE
