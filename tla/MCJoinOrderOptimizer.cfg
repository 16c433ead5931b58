\* Two threads, every call; any ordering of what was built.
SPECIFICATION Spec
CONSTANTS
    knows = knows
    likes = likes
    typed = typed
    person = person
    t1 = t1
    t2 = t2
    None = None
    Threads = {t1, t2}
    Triples <- MCTriples
    TypeIds = {14}
    MaxCalls = 4
    Bgps <- MCBgps
    HashIri <- Id
    RdfType = typed
    Indexed <- MCIndexed
SYMMETRY MCSymmetry
INVARIANTS
    BuiltStatisticsFit
    PlansStartWithTheRarest
    PlansAvoidProducts
