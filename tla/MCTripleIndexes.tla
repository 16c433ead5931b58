-------------------------- MODULE MCTripleIndexes ---------------------------
(* Small instances of TripleIndexes.                                       *)
EXTENDS TripleIndexes

(* 0 is UNKNOWN_IRI_ID; 1 is a subject, 2 and 3 are predicates, 4 and 5    *)
(* objects and types.                                                      *)
MCCalls == {
    [op |-> "index_triple", s |-> 1, p |-> 2, o |-> 4, namespace |-> "n", local |-> "l", is_type |-> FALSE],
    [op |-> "index_triple", s |-> 1, p |-> 2, o |-> 5, is_type |-> FALSE],
    [op |-> "add_namespace", s |-> 1, namespace |-> "m"],
    [op |-> "index_triple", s |-> 1, p |-> 3, o |-> 4, is_type |-> TRUE],
    [op |-> "index_triple", s |-> 1, p |-> 3, o |-> 0, is_type |-> TRUE],
    [op |-> "add_type", s |-> 1, type |-> 5],
    [op |-> "remove_namespace", s |-> 1],
    [op |-> "remove_type", s |-> 1, type |-> 4],
    [op |-> "remove_subject", s |-> 1],
    [op |-> "remove_edge", p |-> 2, s |-> 1, o |-> 4],
    [op |-> "remove_edge", p |-> 3, s |-> 1, o |-> 4],
    [op |-> "selectivity", p |-> 2],
    [op |-> "clear"]}
=============================================================================
