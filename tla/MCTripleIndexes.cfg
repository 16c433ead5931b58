\* Two threads, every operation.
CONSTANTS
    None = None
    Threads = {t1, t2}
    Calls <- MCCalls
    Unknown = 0
    MaxCalls = 4
SPECIFICATION Spec
INVARIANTS MapsMirror CountsMatchEdges SelectivityIsAFraction
CHECK_DEADLOCK FALSE
