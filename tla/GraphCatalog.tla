---------------------------- MODULE GraphCatalog ----------------------------
(***************************************************************************)
(* What the graph commands promise their callers: a catalogue of named     *)
(* graphs.  A name is either absent or has contents; creating it starts    *)
(* empty, dropping it forgets its contents and its prefixes and touches no *)
(* other name.  There is no tracking set beside the store and no key       *)
(* pattern here: GraphRegistry is shown to implement this module under the *)
(* conditions its documentation takes for granted.                         *)
(***************************************************************************)
CONSTANTS Names, Triples, Prefixes, Uris

VARIABLES
    graphs,  \* the names that exist
    content, \* content[g]: the triples of graph g
    prefix   \* the prefix bindings, each <<graph, prefix, uri>>

vars == <<graphs, content, prefix>>

Init == /\ graphs = {}
        /\ content = [g \in Names |-> {}]
        /\ prefix = {}

Create(g) == /\ g \notin graphs
             /\ graphs' = graphs \cup {g}
             /\ content' = [content EXCEPT ![g] = {}]
             /\ UNCHANGED prefix

Drop(g) == /\ g \in graphs
           /\ graphs' = graphs \ {g}
           /\ content' = [content EXCEPT ![g] = {}]
           /\ prefix' = {b \in prefix : b[1] # g}

(* RDF.INSERT adds, RDF.DELETE and RDF.GRAPH CLEAR remove; a DROP that     *)
(* ends in an error may have emptied the graph.                            *)
Change(g) == /\ g \in graphs
             /\ \E ts \in SUBSET Triples :
                  content' = [content EXCEPT ![g] = ts]
             /\ UNCHANGED <<graphs, prefix>>

Bind(g) == /\ \E p \in Prefixes, u \in Uris :
                prefix' = {b \in prefix : <<b[1], b[2]>> # <<g, p>>}
                          \cup {<<g, p, u>>}
           /\ UNCHANGED <<graphs, content>>

Unbind(g) == /\ \E b \in prefix : b[1] = g /\ prefix' = prefix \ {b}
             /\ UNCHANGED <<graphs, content>>

Next == \E g \in Names :
           Create(g) \/ Drop(g) \/ Change(g) \/ Bind(g) \/ Unbind(g)

Spec == Init /\ [][Next]_vars
=============================================================================
