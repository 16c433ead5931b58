\* All shapes of patterns over a graph that grows and prefixes that change.
CONSTANTS
    a = a
    u = u
    x = x
    Class = Class
    Lit = Lit
    text = text
    a1 = a1
    None = None
    Iris <- MCIris
    Blanks <- MCBlanks
    Literals = {text}
    Numeric = {}
    Dates = {}
    DateTyped = {}
    Predicates <- MCPredicates
    LocalName <- MCLocalName
    TypeLabel <- MCTypeLabel
    RdfType = "type"
    RdfFirst = "first"
    RdfRest = "rest"
    RdfNil = a
    Triples <- MCTriples
    Patterns <- MCPatterns
    PrefixNames = {"ex", "urn"}
    Uris = {"right", "wrong"}
    PrefixOf <- MCPrefixOf
    Concat <- MCConcat
    LiteralLabel = "Literal"
    ValueName = "value"
    MaxInserts = 3
    MaxBinds = 1
    MaxDeletes = 2
SPECIFICATION Spec
INVARIANTS EdgesAreTriples RetryCompletes OrphansAreCleanedUp
PROPERTIES OnlyMeantTriplesGo
CHECK_DEADLOCK FALSE
