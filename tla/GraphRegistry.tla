--------------------------- MODULE GraphRegistry ----------------------------
(***************************************************************************)
(* RDF.GRAPH and RDF.NAMESPACES, with as much of RDF.INSERT and RDF.DELETE *)
(* as touches the same state.                                              *)
(*                                                                         *)
(* Two stores must agree: the Redis set rdf:graphs, which says which       *)
(* graphs there are, and FalkorDB, which holds them under the same names.  *)
(* Every command is a few calls, one after the other, with no transaction  *)
(* around them.  Redis runs a command to its end before the next one, so a *)
(* command is one step here; each of the calls inside it, to FalkorDB and  *)
(* to Redis alike, may fail.                                               *)
(***************************************************************************)
EXTENDS Integers, FiniteSets

CONSTANTS
    Names,         \* graph names
    ValidNames,    \* those validate_graph_name accepts
    Covers,        \* Covers[g]: the names h whose keys rdf:ns:h:p match the
                   \* glob rdf:ns:g:*
    Triples, Prefixes, Uris

ASSUME ConstantsAssumption ==
    /\ Names # {} /\ ValidNames \subseteq Names
    /\ Covers \in [Names -> SUBSET Names]

VARIABLES
    tracked,  \* the set rdf:graphs
    stored,   \* the names that hold a FalkorDB graph
    data,     \* data[g]: the triples of that graph
    bindings, \* the keys rdf:ns:g:p and their values, each <<g, p, uri>>
    reply,    \* the last command, its graph and what it returned
    careful   \* history: no call of a DROP that answered OK failed and its
              \* glob matched the keys of its graph exactly, and no INSERT
              \* went to an untracked graph

vars == <<tracked, stored, data, bindings, reply, careful>>
state == <<tracked, stored, data, bindings>>

Commands == {"none", "CREATE", "DROP", "CLEAR", "LIST", "INSERT", "DELETE",
             "ADD", "REMOVE", "NAMESPACES"}

(* The body of LIST is a set of <<graph, number of triples>>, -1 where the *)
(* count query failed; the body of a namespace listing is a set of the     *)
(* bindings it shows.  Other commands have no body here.                   *)
Reply(command, g, status, body) ==
    reply' = [command |-> command, graph |-> g, status |-> status, body |-> body]

(* Refused, or a call failed before any other changed something.           *)
Refuse(command, g) ==
    Reply(command, g, "error", {}) /\ UNCHANGED <<state, careful>>

Ok(command, g) == Reply(command, g, "ok", {})

Init == /\ tracked = {} /\ stored = {} /\ bindings = {}
        /\ data = [g \in Names |-> {}]
        /\ reply = [command |-> "none", graph |-> CHOOSE g \in Names : TRUE,
                    status |-> "ok", body |-> {}]
        /\ careful = TRUE
-----------------------------------------------------------------------------
(* RDF.GRAPH *)

(* GRAPH.QUERY makes a graph that is not there; when it fails it may or    *)
(* may not have done so.                                                   *)
QueryAnswered(g) == stored' = stored \cup {g}
QueryMayFail(g) == stored' \in {stored, stored \cup {g}}

(* Faulty: CREATE tracks the graph first.                                  *)
CreateTracksFirst(g) ==
    \/ Refuse("CREATE", g)
    \/ /\ g \in ValidNames \ tracked
       /\ tracked' = tracked \cup {g}
       /\ QueryMayFail(g)
       /\ Reply("CREATE", g, "error", {})
       /\ UNCHANGED <<data, bindings, careful>>
    \/ /\ g \in ValidNames \ tracked
       /\ tracked' = tracked \cup {g}
       /\ QueryAnswered(g)
       /\ Ok("CREATE", g)
       /\ UNCHANGED <<data, bindings, careful>>

(* When the initialisation query fails, or SADD after it, the answer is an *)
(* error although FalkorDB may hold the (empty) graph.                     *)
Create(g) ==
    \/ Refuse("CREATE", g)
    \/ /\ g \in ValidNames \ tracked
       /\ QueryMayFail(g)
       /\ Reply("CREATE", g, "error", {})
       /\ UNCHANGED <<tracked, data, bindings, careful>>
    \/ /\ g \in ValidNames \ tracked
       /\ QueryAnswered(g)
       /\ tracked' = tracked \cup {g}
       /\ Ok("CREATE", g)
       /\ UNCHANGED <<data, bindings, careful>>

(* The keys that match the graph's pattern.                                *)
Matching(g) == {b \in bindings : b[1] \in Covers[g]}

(* Faulty: the page that ends the scan (cursor 0) is not collected.        *)
ScanKeysLosesLastPage(g) ==
    LET found == Matching(g)
    IN IF found = {} THEN {} ELSE found \ {CHOOSE b \in found : TRUE}

(* scan_keys goes on until the cursor is 0 and returns every page.         *)
ScanKeys(g) == Matching(g)

(* GRAPH.DELETE's failure is logged and otherwise ignored; of a graph that *)
(* is not there it always fails.                                           *)
DeleteGraph(g) ==
    \/ /\ g \in stored
       /\ stored' = stored \ {g}
       /\ data' = [data EXCEPT ![g] = {}]
    \/ UNCHANGED <<stored, data>>

(* A call of SCAN that fails ends the scan with the keys found so far, and *)
(* a failing DEL is ignored: keys may be left over.                        *)
DeleteKeys(g) ==
    \/ /\ bindings' = bindings \ ScanKeys(g)
       /\ careful' = /\ careful /\ g \notin stored'
                     /\ Matching(g) = {b \in bindings : b[1] = g}
    \/ \E left \in SUBSET ScanKeys(g) \ {{}} :
          /\ bindings' = (bindings \ ScanKeys(g)) \cup left
          /\ careful' = FALSE

(* Faulty: the prefixes go before the name, and SREM can still fail.       *)
DropCleansUpFirst(g) ==
    \/ Refuse("DROP", g)
    \/ /\ g \in tracked
       /\ DeleteGraph(g)
       /\ DeleteKeys(g)
       /\ \/ Reply("DROP", g, "error", {}) /\ UNCHANGED tracked
          \/ Ok("DROP", g) /\ tracked' = tracked \ {g}

(* When SREM fails the answer is an error, after GRAPH.DELETE.             *)
Drop(g) ==
    \/ Refuse("DROP", g)
    \/ /\ g \in tracked
       /\ DeleteGraph(g)
       /\ Reply("DROP", g, "error", {})
       /\ UNCHANGED <<tracked, bindings, careful>>
    \/ /\ g \in tracked
       /\ DeleteGraph(g)
       /\ tracked' = tracked \ {g}
       /\ DeleteKeys(g)
       /\ Ok("DROP", g)

(* Refused when untracked, or when the deleting query fails.               *)
Clear(g) ==
    \/ Refuse("CLEAR", g)
    \/ /\ g \in tracked
       /\ QueryMayFail(g)
       /\ Reply("CLEAR", g, "error", {})
       /\ UNCHANGED <<tracked, data, bindings, careful>>
    \/ /\ g \in tracked
       /\ QueryAnswered(g)
       /\ data' = [data EXCEPT ![g] = {}]
       /\ Ok("CLEAR", g)
       /\ UNCHANGED <<tracked, bindings, careful>>

(* One count query per tracked graph; one that fails shows -1.             *)
List ==
    \/ Refuse("LIST", reply.graph)
    \/ /\ \E failed \in SUBSET tracked :
            /\ reply' = [command |-> "LIST", graph |-> reply.graph, status |-> "ok",
                         body |-> {<<g, IF g \in failed THEN -1
                                        ELSE Cardinality(data[g])>> : g \in tracked}]
            /\ \E made \in SUBSET failed :
                 stored' = stored \cup (tracked \ failed) \cup made
       /\ UNCHANGED <<tracked, data, bindings, careful>>
-----------------------------------------------------------------------------
(* The commands that change a graph's triples. *)

(* RDF.INSERT asks nothing of rdf:graphs: GRAPH.QUERY makes the graph that *)
(* is not there.  A query that fails is counted in the reply, which is not *)
(* an error.                                                               *)
Insert(g, t) ==
    /\ \/ /\ QueryAnswered(g)
          /\ data' = [data EXCEPT ![g] = @ \cup {t}]
       \/ QueryMayFail(g) /\ UNCHANGED data
    /\ careful' = (careful /\ g \in tracked)
    /\ Ok("INSERT", g)
    /\ UNCHANGED <<tracked, bindings>>

(* With ORPHANS a second query follows the one that deletes; when only the *)
(* second fails the answer is an error although the triple is gone.        *)
Delete(g, t) ==
    \/ Refuse("DELETE", g)
    \/ /\ g \in tracked
       /\ QueryMayFail(g)
       /\ data' \in {data, [data EXCEPT ![g] = @ \ {t}]}
       /\ Reply("DELETE", g, "error", {})
       /\ UNCHANGED <<tracked, bindings, careful>>
    \/ /\ g \in tracked
       /\ QueryAnswered(g)
       /\ data' = [data EXCEPT ![g] = @ \ {t}]
       /\ Ok("DELETE", g)
       /\ UNCHANGED <<tracked, bindings, careful>>
-----------------------------------------------------------------------------
(* RDF.NAMESPACES: no command asks whether the graph exists. *)

AddNamespace(g, p, u) ==
    \/ Refuse("ADD", g)
    \/ /\ bindings' = {b \in bindings : <<b[1], b[2]>> # <<g, p>>} \cup {<<g, p, u>>}
       /\ Ok("ADD", g)
       /\ UNCHANGED <<tracked, stored, data, careful>>

RemoveNamespace(g, p) ==
    LET found == {b \in bindings : b[1] = g /\ b[2] = p} IN
    \/ Refuse("REMOVE", g)
    \/ /\ found # {}
       /\ bindings' = bindings \ found
       /\ Ok("REMOVE", g)
       /\ UNCHANGED <<tracked, stored, data, careful>>

(* A failing GET is an error; a failing SCAN shows what was found so far.  *)
ListNamespaces(g) ==
    \/ Refuse("NAMESPACES", g)
    \/ /\ \E found \in SUBSET ScanKeys(g) : Reply("NAMESPACES", g, "ok", found)
       /\ UNCHANGED <<state, careful>>
-----------------------------------------------------------------------------
Next ==
    \/ List
    \/ \E g \in Names :
         \/ Create(g) \/ Drop(g) \/ Clear(g) \/ ListNamespaces(g)
         \/ \E t \in Triples : Insert(g, t) \/ Delete(g, t)
         \/ \E p \in Prefixes :
              RemoveNamespace(g, p) \/ \E u \in Uris : AddNamespace(g, p, u)

Spec == Init /\ [][Next]_vars
-----------------------------------------------------------------------------
TypeOK ==
    /\ tracked \subseteq ValidNames /\ stored \subseteq Names
    /\ data \in [Names -> SUBSET Triples]
    /\ bindings \subseteq Names \X Prefixes \X Uris
    /\ reply.command \in Commands /\ reply.graph \in Names
    /\ reply.status \in {"ok", "error"}
    /\ careful \in BOOLEAN

(* The last command was a DROP of g that an error ended.                   *)
RefusedDrop(g) ==
    reply.command = "DROP" /\ reply.graph = g /\ reply.status = "error"

GraphsLastAsTheirNames ==
    \A g \in tracked' \ stored' : g \in tracked \ stored \/ RefusedDrop(g)'

(* A name that rdf:graphs tracks has a graph behind it, whichever call of  *)
(* CREATE fails and in whatever order graphs are made, dropped and made    *)
(* again by other commands.  Only a DROP whose SREM fails can take the     *)
(* graph and leave the name, and it says so with an error.                 *)
TrackedGraphsExist == [][GraphsLastAsTheirNames]_vars

KeepsTheCatalogue ==
    /\ UNCHANGED <<tracked, bindings>>
    /\ \A g \in Names : data'[g] # data[g] => RefusedDrop(g)' /\ data'[g] = {}

(* A catalogue command that answers with an error can be sent again: it    *)
(* has changed neither which graphs are listed nor any prefix, although    *)
(* the call that failed may be the last of several, and no triples, but    *)
(* that a DROP may have emptied the very graph it was to remove.           *)
(* RDF.DELETE is not among them, see Delete.                               *)
RefusalsKeepTheCatalogue ==
    [][reply'.status = "error" /\ reply'.command # "DELETE" => KeepsTheCatalogue]_vars

(* The commands implement the catalogue of named graphs the documentation  *)
(* describes, failures included, for as long as no call fails in a DROP    *)
(* that answers OK all the same, the glob of a dropped graph matches its   *)
(* keys exactly and no INSERT goes to a graph nobody created.              *)
Catalog == INSTANCE GraphCatalog
             WITH graphs <- tracked, content <- data, prefix <- bindings
ImplementsCatalog ==
    Catalog!Init /\ [][careful' => Catalog!Next]_Catalog!vars
=============================================================================
