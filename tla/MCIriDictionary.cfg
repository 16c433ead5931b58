\* Two threads, every operation, imports restoring exported lists.
CONSTANTS
    ia = ia
    ib = ib
    None = None
    Threads = {t1, t2}
    Iris = {ia, ib}
    Ops = {"get_or_insert", "get_id", "get_iri", "import", "clear"}
    short = short
    long = long
    Imports = {short, long}
    Entries <- ExportedLists
    RestoreOnly = TRUE
    MaxId = 6
    MaxCalls = 5
SPECIFICATION Spec
INVARIANTS EveryIriHasItsOwnId MapsAgreeWhenObserved NextIdIsFresh
PROPERTIES EveryCallReturns ImplementsAtomicMap
