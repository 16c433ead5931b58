------------------------ MODULE GraphRegistryProofs -------------------------
(***************************************************************************)
(* Proofs about GraphRegistry, for any names, glob patterns and failures:  *)
(* only a DROP that says so leaves a tracked name without a graph, an      *)
(* error keeps the catalogue, and the commands implement the catalogue for *)
(* as long as no step the documentation leaves out has been taken.         *)
(***************************************************************************)
EXTENDS GraphRegistry, TLAPS

(* A key holds one value.                                                  *)
OneUri == \A b, c \in bindings : b[1] = c[1] /\ b[2] = c[2] => b = c

(* As long as every step has been careful an untracked graph holds         *)
(* nothing, so creating it starts empty; and triples are only in graphs    *)
(* that are there, so a graph that is not there was dropped with them.     *)
UntrackedIsEmpty == careful => \A g \in Names : g \notin tracked => data[g] = {}
TriplesAreStored == \A g \in Names : g \notin stored => data[g] = {}

IInv == TypeOK /\ OneUri /\ UntrackedIsEmpty /\ TriplesAreStored

LEMMA InitIInv == Init => IInv
<1> SUFFICES ASSUME Init PROVE IInv
  OBVIOUS
<1>1. (CHOOSE g \in Names : TRUE) \in Names
  BY ConstantsAssumption
<1>2. TypeOK
  BY <1>1, ConstantsAssumption DEF Init, TypeOK, Commands
<1>3. OneUri /\ UntrackedIsEmpty /\ TriplesAreStored
  BY DEF Init, OneUri, UntrackedIsEmpty, TriplesAreStored
<1> QED BY <1>2, <1>3 DEF IInv
-----------------------------------------------------------------------------
(* What each command does to each store, the reply aside.                  *)

Replies == /\ reply'.command \in Commands /\ reply'.graph \in Names
           /\ reply'.status \in {"ok", "error"}

LEMMA RefuseReplies ==
  ASSUME NEW g \in Names, NEW c \in Commands, Refuse(c, g)
  PROVE  Replies /\ UNCHANGED <<state, careful>>
BY DEF Refuse, Reply, Replies

LEMMA QuietKeepsIInv ==
  ASSUME IInv, UNCHANGED <<state, careful>>, Replies
  PROVE  IInv'
BY DEF IInv, TypeOK, OneUri, UntrackedIsEmpty, TriplesAreStored, state, Replies

(* A command that leaves tracking and prefixes alone, adds graphs to the   *)
(* store and takes triples away keeps the invariant.                       *)
LEMMA ShrinkingKeepsIInv ==
  ASSUME IInv, Replies, NEW g \in Names, NEW ts \in SUBSET data[g],
         \/ UNCHANGED data
         \/ data' = [data EXCEPT ![g] = ts],
         stored \subseteq stored', stored' \subseteq Names,
         UNCHANGED <<tracked, bindings, careful>>
  PROVE  IInv'
<1> USE DEF IInv
<1>1. data' \in [Names -> SUBSET Triples]
  BY DEF TypeOK
<1>2. \A h \in Names : data'[h] \subseteq data[h]
  BY DEF TypeOK
<1>3. TypeOK'
  BY <1>1 DEF TypeOK, Replies
<1>4. OneUri'
  BY DEF OneUri
<1>5. UntrackedIsEmpty' /\ TriplesAreStored'
  BY <1>2 DEF UntrackedIsEmpty, TriplesAreStored
<1> QED BY <1>3, <1>4, <1>5

LEMMA CreateKeepsIInv ==
  ASSUME IInv, NEW g \in Names, Create(g)
  PROVE  IInv'
<1> USE DEF IInv
<1>1. CASE Refuse("CREATE", g)
  BY <1>1, RefuseReplies, QuietKeepsIInv DEF Commands
<1>2. CASE /\ g \in ValidNames
           /\ stored' \in {stored, stored \cup {g}}
           /\ tracked' \in {tracked, tracked \cup {g}}
           /\ \E s \in {"ok", "error"} :
                reply' = [command |-> "CREATE", graph |-> g,
                          status |-> s, body |-> {}]
           /\ UNCHANGED <<data, bindings, careful>>
  <2>1. TypeOK'
    BY <1>2 DEF TypeOK, Commands
  <2>2. OneUri'
    BY <1>2 DEF OneUri
  <2>3. UntrackedIsEmpty' /\ TriplesAreStored'
    BY <1>2 DEF UntrackedIsEmpty, TriplesAreStored
  <2> QED BY <2>1, <2>2, <2>3
<1> QED BY <1>1, <1>2 DEF Create, Ok, Reply, QueryMayFail, QueryAnswered

(* GRAPH.DELETE takes a graph and its triples together.                    *)
LEMMA DeletedGraph ==
  ASSUME TypeOK, TriplesAreStored, NEW g \in Names, DeleteGraph(g)
  PROVE  /\ stored' \subseteq Names /\ data' \in [Names -> SUBSET Triples]
         /\ TriplesAreStored'
         /\ g \notin stored' => data' = [data EXCEPT ![g] = {}]
         /\ \A h \in Names : data'[h] = data[h] \/ (h = g /\ data'[h] = {})
         /\ stored' \subseteq stored /\ stored \ {g} \subseteq stored'
<1>0. data \in [Names -> SUBSET Triples] /\ stored \subseteq Names
  BY DEF TypeOK
<1>1. CASE stored' = stored \ {g} /\ data' = [data EXCEPT ![g] = {}]
  <2>1. data' \in [Names -> SUBSET Triples]
    BY <1>0, <1>1
  <2>2. data'[g] = {} /\ \A h \in Names : h # g => data'[h] = data[h]
    BY <1>0, <1>1
  <2>3. TriplesAreStored'
    BY <1>1, <2>2 DEF TriplesAreStored
  <2>4. \A h \in Names : data'[h] = data[h] \/ (h = g /\ data'[h] = {})
    BY <2>2
  <2>5. stored' \subseteq Names
    BY <1>0, <1>1
  <2> QED BY <1>1, <2>1, <2>3, <2>4, <2>5
<1>2. CASE UNCHANGED <<stored, data>>
  <2>1. g \notin stored => data = [data EXCEPT ![g] = {}]
    BY <1>0 DEF TriplesAreStored
  <2>2. TriplesAreStored'
    BY <1>2 DEF TriplesAreStored
  <2>3. g \notin stored' => data' = [data EXCEPT ![g] = {}]
    BY <1>2, <2>1
  <2>4. stored' \subseteq Names /\ data' \in [Names -> SUBSET Triples]
    BY <1>0, <1>2
  <2>5. \A h \in Names : data'[h] = data[h]
    BY <1>2
  <2>6. stored' \subseteq stored /\ stored \ {g} \subseteq stored'
    BY <1>2
  <2> QED BY <2>2, <2>3, <2>4, <2>5, <2>6
<1> QED BY <1>1, <1>2 DEF DeleteGraph

LEMMA DropKeepsIInv ==
  ASSUME IInv, NEW g \in Names, Drop(g)
  PROVE  IInv'
<1> USE DEF IInv
<1>1. CASE Refuse("DROP", g)
  BY <1>1, RefuseReplies, QuietKeepsIInv DEF Commands
<1>2. CASE /\ DeleteGraph(g)
           /\ reply' = [command |-> "DROP", graph |-> g,
                        status |-> "error", body |-> {}]
           /\ UNCHANGED <<tracked, bindings, careful>>
  <2>1. TypeOK'
    BY <1>2, DeletedGraph DEF TypeOK, Commands
  <2>2. OneUri'
    BY <1>2 DEF OneUri
  <2>3. UntrackedIsEmpty' /\ TriplesAreStored'
    BY <1>2, DeletedGraph DEF UntrackedIsEmpty
  <2> QED BY <2>1, <2>2, <2>3
<1>3. CASE /\ DeleteGraph(g)
           /\ tracked' = tracked \ {g}
           /\ DeleteKeys(g)
           /\ reply' = [command |-> "DROP", graph |-> g,
                        status |-> "ok", body |-> {}]
  <2>1. /\ bindings' \subseteq bindings /\ careful' \in BOOLEAN
        /\ careful' => careful /\ g \notin stored'
    BY <1>3 DEF DeleteKeys, ScanKeys, Matching, TypeOK
  <2>2. TypeOK'
    BY <1>3, <2>1, DeletedGraph DEF TypeOK, Commands
  <2>3. OneUri'
    BY <2>1 DEF OneUri
  <2>4. UntrackedIsEmpty'
    <3> SUFFICES ASSUME careful', NEW h \in Names, h \notin tracked'
                 PROVE  data'[h] = {}
      BY DEF UntrackedIsEmpty
    <3>1. careful /\ data' = [data EXCEPT ![g] = {}]
      BY <1>3, <2>1, DeletedGraph
    <3> QED BY <1>3, <3>1 DEF UntrackedIsEmpty, TypeOK
  <2>5. TriplesAreStored'
    BY <1>3, DeletedGraph
  <2> QED BY <2>2, <2>3, <2>4, <2>5
<1> QED BY <1>1, <1>2, <1>3 DEF Drop, Ok, Reply

LEMMA ClearKeepsIInv ==
  ASSUME IInv, NEW g \in Names, Clear(g)
  PROVE  IInv'
<1>1. CASE Refuse("CLEAR", g)
  BY <1>1, RefuseReplies, QuietKeepsIInv DEF Commands
<1>2. CASE /\ stored' \in {stored, stored \cup {g}}
           /\ data' \in {data, [data EXCEPT ![g] = {}]}
           /\ \E s \in {"ok", "error"} :
                reply' = [command |-> "CLEAR", graph |-> g,
                          status |-> s, body |-> {}]
           /\ UNCHANGED <<tracked, bindings, careful>>
  <2>1. Replies /\ stored' \subseteq Names
    BY <1>2 DEF Replies, Commands, IInv, TypeOK
  <2>2. {} \in SUBSET data[g]
    OBVIOUS
  <2> QED BY <1>2, <2>1, <2>2, ShrinkingKeepsIInv
<1> QED BY <1>1, <1>2 DEF Clear, Ok, Reply, QueryMayFail, QueryAnswered

LEMMA ListKeepsIInv ==
  ASSUME IInv, List
  PROVE  IInv'
<1>1. reply.graph \in Names
  BY DEF IInv, TypeOK
<1>2. CASE Refuse("LIST", reply.graph)
  BY <1>1, <1>2, RefuseReplies, QuietKeepsIInv DEF Commands
<1>3. CASE ~Refuse("LIST", reply.graph)
  <2>1. /\ Replies /\ UNCHANGED <<tracked, data, bindings, careful>>
        /\ stored \subseteq stored' /\ stored' \subseteq stored \cup tracked
    BY <1>1, <1>3 DEF List, Replies, Commands
  <2>2. stored' \subseteq Names
    BY <2>1, ConstantsAssumption DEF IInv, TypeOK
  <2>3. {} \in SUBSET data[reply.graph]
    OBVIOUS
  <2> QED BY <1>1, <2>1, <2>2, <2>3, ShrinkingKeepsIInv
<1> QED BY <1>2, <1>3

LEMMA InsertKeepsIInv ==
  ASSUME IInv, NEW g \in Names, NEW t \in Triples, Insert(g, t)
  PROVE  IInv'
<1> USE DEF IInv
<1>1. /\ reply' = [command |-> "INSERT", graph |-> g,
                   status |-> "ok", body |-> {}]
      /\ careful' = (careful /\ g \in tracked)
      /\ UNCHANGED <<tracked, bindings>>
      /\ \/ stored' = stored \cup {g} /\ data' = [data EXCEPT ![g] = @ \cup {t}]
         \/ stored' \in {stored, stored \cup {g}} /\ UNCHANGED data
  BY DEF Insert, Ok, Reply, QueryMayFail, QueryAnswered
<1>2. TypeOK'
  BY <1>1 DEF TypeOK, Commands
<1>3. OneUri'
  BY <1>1 DEF OneUri
<1>4. UntrackedIsEmpty' /\ TriplesAreStored'
  BY <1>1 DEF UntrackedIsEmpty, TriplesAreStored, TypeOK
<1> QED BY <1>2, <1>3, <1>4

LEMMA DeleteKeepsIInv ==
  ASSUME IInv, NEW g \in Names, NEW t \in Triples, Delete(g, t)
  PROVE  IInv'
<1>1. CASE Refuse("DELETE", g)
  BY <1>1, RefuseReplies, QuietKeepsIInv DEF Commands
<1>2. CASE /\ stored' \in {stored, stored \cup {g}}
           /\ data' \in {data, [data EXCEPT ![g] = @ \ {t}]}
           /\ \E s \in {"ok", "error"} :
                reply' = [command |-> "DELETE", graph |-> g,
                          status |-> s, body |-> {}]
           /\ UNCHANGED <<tracked, bindings, careful>>
  <2>1. Replies /\ stored' \subseteq Names
    BY <1>2 DEF Replies, Commands, IInv, TypeOK
  <2>2. data[g] \ {t} \in SUBSET data[g]
    OBVIOUS
  <2> QED BY <1>2, <2>1, <2>2, ShrinkingKeepsIInv
<1> QED BY <1>1, <1>2 DEF Delete, Ok, Reply, QueryMayFail, QueryAnswered

LEMMA AddNamespaceKeepsIInv ==
  ASSUME IInv, NEW g \in Names, NEW p \in Prefixes, NEW u \in Uris,
         AddNamespace(g, p, u)
  PROVE  IInv'
<1> USE DEF IInv
<1>1. CASE Refuse("ADD", g)
  BY <1>1, RefuseReplies, QuietKeepsIInv DEF Commands
<1>2. CASE /\ bindings' = {b \in bindings : <<b[1], b[2]>> # <<g, p>>}
                          \cup {<<g, p, u>>}
           /\ reply' = [command |-> "ADD", graph |-> g,
                        status |-> "ok", body |-> {}]
           /\ UNCHANGED <<tracked, stored, data, careful>>
  <2>1. TypeOK' /\ UntrackedIsEmpty' /\ TriplesAreStored'
    BY <1>2 DEF TypeOK, UntrackedIsEmpty, TriplesAreStored, Commands
  <2>2. OneUri'
    BY <1>2 DEF OneUri
  <2> QED BY <2>1, <2>2
<1> QED BY <1>1, <1>2 DEF AddNamespace, Ok, Reply

LEMMA RemoveNamespaceKeepsIInv ==
  ASSUME IInv, NEW g \in Names, NEW p \in Prefixes, RemoveNamespace(g, p)
  PROVE  IInv'
<1> USE DEF IInv
<1>1. CASE Refuse("REMOVE", g)
  BY <1>1, RefuseReplies, QuietKeepsIInv DEF Commands
<1>2. CASE /\ \E s \in SUBSET bindings : bindings' = bindings \ s
           /\ reply' = [command |-> "REMOVE", graph |-> g,
                        status |-> "ok", body |-> {}]
           /\ UNCHANGED <<tracked, stored, data, careful>>
  <2>1. TypeOK' /\ UntrackedIsEmpty' /\ TriplesAreStored'
    BY <1>2 DEF TypeOK, UntrackedIsEmpty, TriplesAreStored, Commands
  <2>2. OneUri'
    BY <1>2 DEF OneUri
  <2> QED BY <2>1, <2>2
<1>3. {b \in bindings : b[1] = g /\ b[2] = p} \in SUBSET bindings
  OBVIOUS
<1> QED BY <1>1, <1>2, <1>3 DEF RemoveNamespace, Ok, Reply

LEMMA ListNamespacesKeepsIInv ==
  ASSUME IInv, NEW g \in Names, ListNamespaces(g)
  PROVE  IInv'
<1>1. CASE Refuse("NAMESPACES", g)
  BY <1>1, RefuseReplies, QuietKeepsIInv DEF Commands
<1>2. CASE \E found : /\ reply' = [command |-> "NAMESPACES", graph |-> g,
                                   status |-> "ok", body |-> found]
                      /\ UNCHANGED <<state, careful>>
  <2>1. Replies
    BY <1>2 DEF Replies, Commands
  <2> QED BY <1>2, <2>1, QuietKeepsIInv
<1> QED BY <1>1, <1>2 DEF ListNamespaces, Reply

LEMMA NextKeepsIInv == IInv /\ [Next]_vars => IInv'
<1> SUFFICES ASSUME IInv, [Next]_vars PROVE IInv'
  OBVIOUS
<1>1. CASE UNCHANGED vars
  BY <1>1, QuietKeepsIInv DEF vars, state, IInv, TypeOK, Replies
<1>2. CASE List
  BY <1>2, ListKeepsIInv
<1>3. ASSUME NEW g \in Names,
             Create(g) \/ Drop(g) \/ Clear(g) \/ ListNamespaces(g)
      PROVE  IInv'
  BY <1>3, CreateKeepsIInv, DropKeepsIInv, ClearKeepsIInv, ListNamespacesKeepsIInv
<1>4. ASSUME NEW g \in Names, NEW t \in Triples, Insert(g, t) \/ Delete(g, t)
      PROVE  IInv'
  BY <1>4, InsertKeepsIInv, DeleteKeepsIInv
<1>5. ASSUME NEW g \in Names, NEW p \in Prefixes, RemoveNamespace(g, p)
      PROVE  IInv'
  BY <1>5, RemoveNamespaceKeepsIInv
<1>6. ASSUME NEW g \in Names, NEW p \in Prefixes, NEW u \in Uris,
             AddNamespace(g, p, u)
      PROVE  IInv'
  BY <1>6, AddNamespaceKeepsIInv
<1> QED BY <1>1, <1>2, <1>3, <1>4, <1>5, <1>6 DEF Next

LEMMA InvariantHolds == Spec => []IInv
BY InitIInv, NextKeepsIInv, PTL DEF Spec

(* The variables and the last reply always have their types.               *)
THEOREM TypeCorrect == Spec => []TypeOK
<1>1. IInv => TypeOK
  BY DEF IInv
<1> QED BY <1>1, InvariantHolds, PTL
-----------------------------------------------------------------------------
(* Whichever calls fail, and for any names, only a DROP that answers with  *)
(* an error, its SREM having failed, leaves a name that rdf:graphs tracks  *)
(* without a graph.                                                        *)
THEOREM TrackingNeverRunsAhead == Spec => TrackedGraphsExist
<1>1. ASSUME Next, NEW g \in tracked' \ stored'
      PROVE  g \in tracked \ stored \/ RefusedDrop(g)'
  <2>1. CASE List
    BY <1>1, <2>1 DEF List, Refuse, state
  <2>2. ASSUME NEW h \in Names, Create(h) \/ Clear(h) \/ ListNamespaces(h)
        PROVE  g \in tracked \ stored
    BY <1>1, <2>2 DEF Create, Clear, ListNamespaces, Refuse, state,
                      QueryAnswered, QueryMayFail
  <2>3. ASSUME NEW h \in Names, Drop(h)
        PROVE  g \in tracked \ stored \/ RefusedDrop(g)'
    <3>1. CASE Refuse("DROP", h)
      BY <1>1, <3>1 DEF Refuse, state
    <3>2. CASE DeleteGraph(h) /\ tracked' = tracked \ {h}
      BY <1>1, <3>2 DEF DeleteGraph
    <3>3. CASE DeleteGraph(h) /\ Reply("DROP", h, "error", {}) /\ tracked' = tracked
      BY <1>1, <3>3 DEF DeleteGraph, Reply, RefusedDrop
    <3> QED BY <2>3, <3>1, <3>2, <3>3 DEF Drop
  <2>4. ASSUME NEW h \in Names, NEW t \in Triples, Insert(h, t) \/ Delete(h, t)
        PROVE  g \in tracked \ stored
    BY <1>1, <2>4 DEF Insert, Delete, Refuse, state, QueryAnswered, QueryMayFail
  <2>5. ASSUME NEW h \in Names, NEW p \in Prefixes,
               RemoveNamespace(h, p) \/ \E u \in Uris : AddNamespace(h, p, u)
        PROVE  g \in tracked \ stored
    BY <1>1, <2>5 DEF RemoveNamespace, AddNamespace, Refuse, state
  <2> QED BY <1>1, <2>1, <2>2, <2>3, <2>4, <2>5 DEF Next
<1>2. [Next]_vars => [GraphsLastAsTheirNames]_vars
  BY <1>1 DEF GraphsLastAsTheirNames
<1> QED BY <1>2, PTL DEF Spec, TrackedGraphsExist

(* A catalogue command that is refused, or that fails half way, leaves     *)
(* tracking and prefixes as they were, and every triple but those of the   *)
(* graph that a DROP was to remove.                                        *)
THEOREM RefusalsAreAtomic == Spec => RefusalsKeepTheCatalogue
<1>1. ASSUME IInv, Next, reply'.status = "error", reply'.command # "DELETE"
      PROVE  KeepsTheCatalogue
  <2> USE DEF KeepsTheCatalogue
  <2>1. CASE List
    BY <1>1, <2>1 DEF List, Refuse, Reply, state
  <2>2. ASSUME NEW g \in Names, Create(g) \/ Clear(g) \/ ListNamespaces(g)
        PROVE  KeepsTheCatalogue
    BY <1>1, <2>2 DEF Create, Clear, ListNamespaces, Refuse, Ok, Reply, state
  <2>3. ASSUME NEW g \in Names, Drop(g)
        PROVE  KeepsTheCatalogue
    <3>1. CASE Refuse("DROP", g)
      BY <3>1 DEF Refuse, state
    <3>2. CASE /\ DeleteGraph(g) /\ Reply("DROP", g, "error", {})
               /\ UNCHANGED <<tracked, bindings>>
      BY <1>1, <3>2, DeletedGraph DEF Reply, IInv, RefusedDrop
    <3> QED BY <1>1, <2>3, <3>1, <3>2 DEF Drop, Ok, Reply
  <2>4. ASSUME NEW g \in Names, NEW t \in Triples, Insert(g, t) \/ Delete(g, t)
        PROVE  KeepsTheCatalogue
    BY <1>1, <2>4 DEF Insert, Delete, Refuse, Ok, Reply, state
  <2>5. ASSUME NEW g \in Names, NEW p \in Prefixes,
               RemoveNamespace(g, p) \/ \E u \in Uris : AddNamespace(g, p, u)
        PROVE  KeepsTheCatalogue
    BY <1>1, <2>5 DEF RemoveNamespace, AddNamespace, Refuse, Ok, Reply, state
  <2> QED BY <1>1, <2>1, <2>2, <2>3, <2>4, <2>5 DEF Next
<1>2. IInv /\ [Next]_vars =>
        [reply'.status = "error" /\ reply'.command # "DELETE" => KeepsTheCatalogue]_vars
  BY <1>1
<1> QED BY <1>2, InvariantHolds, PTL DEF Spec, RefusalsKeepTheCatalogue
-----------------------------------------------------------------------------
(* Care, once lost, is not regained.                                       *)
LEMMA CareIsLostForGood ==
  ASSUME Next, careful'
  PROVE  careful
<1>1. CASE List
  BY <1>1 DEF List, Refuse
<1>2. ASSUME NEW g \in Names, Create(g) \/ Clear(g) \/ ListNamespaces(g)
      PROVE  careful
  BY <1>2 DEF Create, Clear, ListNamespaces, Refuse
<1>3. ASSUME NEW g \in Names, Drop(g) PROVE careful
  BY <1>3 DEF Drop, DeleteKeys, Refuse
<1>4. ASSUME NEW g \in Names, NEW t \in Triples, Insert(g, t) \/ Delete(g, t)
      PROVE  careful
  BY <1>4 DEF Insert, Delete, Refuse
<1>5. ASSUME NEW g \in Names, NEW p \in Prefixes,
             RemoveNamespace(g, p) \/ \E u \in Uris : AddNamespace(g, p, u)
      PROVE  careful
  BY <1>5 DEF RemoveNamespace, AddNamespace, Refuse
<1> QED BY <1>1, <1>2, <1>3, <1>4, <1>5 DEF Next

(* A careful DROP that answers OK is the catalogue's; one that answers     *)
(* with an error has emptied the graph or done nothing.                    *)
LEMMA DropImplementsCatalog ==
  ASSUME IInv, NEW g \in Names, Drop(g), careful'
  PROVE  Catalog!Drop(g) \/ Catalog!Change(g) \/ UNCHANGED Catalog!vars
<1> USE DEF IInv
<1>1. CASE Refuse("DROP", g)
  BY <1>1 DEF Refuse, state, Catalog!vars
<1>2. CASE g \in tracked /\ DeleteGraph(g) /\ UNCHANGED <<tracked, bindings>>
  <2>1. CASE data' = [data EXCEPT ![g] = {}]
    <3>1. {} \in SUBSET Triples
      OBVIOUS
    <3> QED BY <1>2, <2>1, <3>1 DEF Catalog!Change
  <2>2. CASE UNCHANGED data
    BY <1>2, <2>2 DEF Catalog!vars
  <2> QED BY <1>2, <2>1, <2>2 DEF DeleteGraph
<1>3. CASE g \in tracked /\ DeleteGraph(g) /\ tracked' = tracked \ {g} /\ DeleteKeys(g)
  <2>1. /\ bindings' = bindings \ ScanKeys(g) /\ g \notin stored'
        /\ Matching(g) = {b \in bindings : b[1] = g}
    BY <1>3 DEF DeleteKeys
  <2>2. bindings' = {b \in bindings : b[1] # g}
    BY <2>1 DEF ScanKeys
  <2>3. data' = [data EXCEPT ![g] = {}]
    BY <1>3, <2>1, DeletedGraph
  <2> QED BY <1>3, <2>2, <2>3 DEF Catalog!Drop
<1> QED BY <1>1, <1>2, <1>3 DEF Drop

(* Every careful command is a step of the catalogue or changes nothing of  *)
(* it.                                                                     *)
LEMMA StepImplementsCatalog ==
  ASSUME IInv, Next, careful'
  PROVE  Catalog!Next \/ UNCHANGED Catalog!vars
<1> USE DEF Catalog!vars, IInv, TypeOK
<1>0. careful
  BY CareIsLostForGood
<1>1. CASE List
  BY <1>1 DEF List, Refuse, state
<1>2. ASSUME NEW g \in Names, Create(g)
      PROVE  Catalog!Create(g) \/ UNCHANGED Catalog!vars
  BY <1>0, <1>2 DEF Create, Refuse, state, Catalog!Create, UntrackedIsEmpty
<1>3. ASSUME NEW g \in Names, Drop(g)
      PROVE  Catalog!Drop(g) \/ Catalog!Change(g) \/ UNCHANGED Catalog!vars
  BY <1>3, DropImplementsCatalog
<1>4. ASSUME NEW g \in Names, Clear(g)
      PROVE  Catalog!Change(g) \/ UNCHANGED Catalog!vars
  BY <1>4 DEF Clear, Refuse, state, Catalog!Change
<1>5. ASSUME NEW g \in Names, NEW t \in Triples, Insert(g, t) \/ Delete(g, t)
      PROVE  Catalog!Change(g) \/ UNCHANGED Catalog!vars
  <2>1. data[g] \cup {t} \in SUBSET Triples /\ data[g] \ {t} \in SUBSET Triples
    OBVIOUS
  <2> QED BY <1>0, <1>5, <2>1 DEF Insert, Delete, Refuse, state, Catalog!Change
<1>6. ASSUME NEW g \in Names, NEW p \in Prefixes, RemoveNamespace(g, p)
      PROVE  Catalog!Unbind(g) \/ UNCHANGED Catalog!vars
  <2>1. CASE Refuse("REMOVE", g)
    BY <2>1 DEF Refuse, state
  <2>2. ASSUME NEW b \in bindings, b[1] = g, b[2] = p,
               bindings' = bindings \ {c \in bindings : c[1] = g /\ c[2] = p},
               UNCHANGED <<tracked, stored, data>>
        PROVE  Catalog!Unbind(g)
    <3>1. {c \in bindings : c[1] = g /\ c[2] = p} = {b}
      BY <2>2 DEF OneUri
    <3> QED BY <2>2, <3>1 DEF Catalog!Unbind
  <2> QED BY <1>6, <2>1, <2>2 DEF RemoveNamespace
<1>7. ASSUME NEW g \in Names, NEW p \in Prefixes, NEW u \in Uris,
             AddNamespace(g, p, u)
      PROVE  Catalog!Bind(g) \/ UNCHANGED Catalog!vars
  BY <1>7 DEF AddNamespace, Refuse, state, Catalog!Bind
<1>8. ASSUME NEW g \in Names, ListNamespaces(g)
      PROVE  UNCHANGED Catalog!vars
  BY <1>8 DEF ListNamespaces, Refuse, state
<1> QED BY <1>1, <1>2, <1>3, <1>4, <1>5, <1>6, <1>7, <1>8
        DEF Next, Catalog!Next

(* The commands implement the catalogue of named graphs for any number of  *)
(* graphs, prefixes and triples, whatever fails, until a DROP answers OK   *)
(* although a call failed, or its glob misses or hits a key too many, or   *)
(* an INSERT goes to an untracked graph.                                   *)
THEOREM CatalogImplemented == Spec => ImplementsCatalog
<1>1. Init => Catalog!Init
  BY DEF Init, Catalog!Init
<1>2. IInv /\ [Next]_vars => [careful' => Catalog!Next]_Catalog!vars
  <2>1. UNCHANGED vars => UNCHANGED Catalog!vars
    BY DEF vars, Catalog!vars
  <2> QED BY <2>1, StepImplementsCatalog
<1> QED BY <1>1, <1>2, InvariantHolds, PTL DEF Spec, ImplementsCatalog
=============================================================================
