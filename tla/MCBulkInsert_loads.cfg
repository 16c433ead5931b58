\* Every format, two commands in a row, with and without the options.
CONSTANTS
    ta1 = ta1
    ta2 = ta2
    tb = tb
    listHead = listHead
    listFirst = listFirst
    listEnd = listEnd
    listBack = listBack
    a = a
    b = b
    Nil = Nil
    x = x
    one = one
    Iris = {a, b, Nil}
    Blanks = {x}
    Literals = {one}
    Numeric = {one}
    Dates = {}
    DateTyped = {}
    Predicates <- MCPredicates
    LocalName <- MCLocalName
    TypeLabel <- MCTypeLabel
    RdfType = "type"
    RdfFirst = "first"
    RdfRest = "rest"
    RdfNil = Nil
    Triples <- MCTriples
    TripleOf <- MCTripleOf
    Files <- MCFiles
    BatchSizes = {0, 1, 2, 3}
    ErrorLimits = {0, 2, 99}
    Formats = {"line_based", "whole_file", "jsonld"}
    MaxCalls = 2
SPECIFICATION Spec
INVARIANTS NothingLostBetweenBatches NoErrorsMeansLoaded LastLineIsSent
    CountsAreHonest SyntaxErrorsSendNothing
PROPERTIES ImplementsBatchedLoad CommandReplies
