SPECIFICATION Spec
CONSTANTS
    Formats = {"turtle", "export", "grouped", "ntriples", "nquads", "export_ntriples",
               "export_nquads", "trait_nquads", "trig", "jsonld", "export_jsonld",
               "csv", "tsv", "json", "xml", "construct", "construct_pretty", "rdf_json",
               "hand", "json_hand"}
    Quads <- MCQuads
    Bindings <- MCBindings
    Nouns <- MCNouns
    Literals <- MCLiterals
    Verbs <- MCVerbs
    Namespaces <- MCNamespaces
    Contexts <- MCContexts
    MaxNestingDepth = 2
    MaxQuads = 3
    MaxSteps = 8
INVARIANTS
    WrittenIsReadBack
    DocumentsSayWhatTheyMean
    IteratorsDeliverAllThereIs
CHECK_DEADLOCK FALSE
