\* Every failure, names that cover one another, inserts into graphs nobody created.
CONSTANTS
    ga = ga
    gb = gb
    gc = gc
    Names <- MCNames
    ValidNames <- MCValid
    Covers <- MCCovers
    Triples = {"t1", "t2"}
    Prefixes = {"p1"}
    Uris = {"u1", "u2"}
SPECIFICATION Spec
PROPERTIES TrackedGraphsExist RefusalsKeepTheCatalogue ImplementsCatalog
