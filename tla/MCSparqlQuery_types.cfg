SPECIFICATION Spec
CONSTANTS
    a = a
    b = b
    bnode = bnode
    lit = lit
    p = p
    q = q
    typeof = typeof
    cellFirst = cellFirst
    cellRest = cellRest
    emptyList = emptyList
    class = class
    Nothing = Nothing
    Iris <- MCIris
    Blanks = {bnode}
    Literals = {lit}
    Numeric = {}
    Dates = {}
    DateTyped = {}
    Predicates <- MCPredicates
    LocalName <- MCLocalName
    TypeLabel <- MCTypeLabel
    RdfType = typeof
    RdfFirst = cellFirst
    RdfRest = cellRest
    RdfNil = emptyList
    Documents <- MCDocuments
    MaxInserts = 2
    Queries <- MCQueries
    Options <- MCOptions
    Formats <- MCFormats
    Numerals <- MCNumerals
INVARIANTS
    TypedSubjectsAreFound
