\* Lists that come back to one of their cells.
CONSTANTS
    a = a
    b = b
    Class = Class
    Nil = Nil
    x = x
    y = y
    one = one
    text = text
    day = day
    Raw = Raw
    Iris <- MCIris
    Blanks <- MCBlanks
    Labels <- MCLabels
    Literals <- MCLiterals
    Numeric = {one}
    Dates = {day}
    DateTyped = {day}
    Predicates <- MCPredicates
    LocalName <- MCLocalName
    TypeLabel <- MCTypeLabel
    RdfType = "type"
    RdfFirst = "first"
    RdfRest = "rest"
    RdfNil = Nil
    Documents <- MCEndless
    Followups = {}
    MaxScopes = 3
    MaxCalls = 2
    MaxRestarts = 1
SPECIFICATION Spec
PROPERTIES EveryCommandReplies
CHECK_DEADLOCK FALSE
