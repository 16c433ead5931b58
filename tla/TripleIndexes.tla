--------------------------- MODULE TripleIndexes ----------------------------
(***************************************************************************)
(* The indexes over triples of src/storage/src/index.rs, behind one        *)
(* IndexManager that threads share.  Every map has an RwLock of its own,   *)
(* and every operation takes the locks it needs one after the other: it is *)
(* a sequence of sections, each atomic, and other threads get in between.  *)
(* No section waits while it holds a lock, but for one that reads.         *)
(*                                                                         *)
(* Maps from keys to sets are sets of pairs here: the code removes a key   *)
(* whose set has become empty.  Readers of one map take one lock and       *)
(* change nothing; only selectivity, which takes two, is modelled.         *)
(***************************************************************************)
EXTENDS Naturals, Sequences, SequencesExt, FiniteSets

CONSTANTS
    Threads,
    Calls,    \* the calls they make: records, see Sections
    None,     \* Option::None; no call
    Unknown,  \* UNKNOWN_IRI_ID
    MaxCalls  \* bound on the number of calls made

ASSUME ThreadsAssumption == IsFiniteSet(Threads)

(* Every call has the arguments of its operation.                          *)
ASSUME CallsAssumption ==
    None \notin Calls /\ \A c \in Calls : LET Has(fs) == fs \subseteq DOMAIN c IN
        \/ c.op = "index_triple" /\ Has({"s", "p", "o", "is_type"}) /\ c.is_type \in BOOLEAN
        \/ c.op = "add_namespace" /\ Has({"s", "namespace"}) /\ c.namespace # None
        \/ c.op \in {"add_type", "remove_type"} /\ Has({"s", "type"})
        \/ c.op \in {"remove_namespace", "remove_subject"} /\ Has({"s"})
        \/ c.op = "remove_edge" /\ Has({"s", "p", "o"})
        \/ c.op = "selectivity" /\ Has({"p"})
        \/ c.op = "clear"

VARIABLES
    index,    \* the maps, by name
    call,     \* per thread: the call it is in or made last
    todo,     \* per thread: the sections that are left of it
    found,    \* per thread: what an earlier section took out or read
    answer,   \* per thread: the last selectivity, a pair of count and total
    made,     \* calls made
    tangled,  \* history: keys of which an adding call overlapped a removing one
    repeated, \* history: predicates of which an edge was added a second time
    moved,    \* history: nodes that were added under a second namespace
    disturbed \* history: threads whose selectivity an adding call overlapped

history == <<tangled, repeated, moved, disturbed>>
vars == <<index, call, todo, found, answer, made, history>>

Empty == << >>

EmptyIndex == [ids_by_namespace |-> {}, namespace_of |-> Empty, ids_by_local |-> {},
               subjects_by_type |-> {}, types_by_subject |-> {},
               edges |-> {}, counts |-> Empty, total |-> 0]

Init ==
    /\ index = EmptyIndex
    /\ call = [t \in Threads |-> None]
    /\ todo = [t \in Threads |-> << >>]
    /\ found = [t \in Threads |-> None]
    /\ answer = [t \in Threads |-> None]
    /\ made = 0
    /\ tangled = {} /\ repeated = {} /\ moved = {} /\ disturbed = {}
-----------------------------------------------------------------------------
(* Calls *)

(* Field f of a call, None where the call has no such field.               *)
At(c, f) == IF f \in DOMAIN c THEN c[f] ELSE None

AddsType(c) == c.is_type /\ c.o # Unknown

(* The sections of a call, in their order.                                 *)
Sections(c) ==
    CASE c.op = "index_triple" ->
           (IF At(c, "namespace") = None THEN << >> ELSE <<"id of namespace", "namespace">>)
           \o (IF At(c, "local") = None THEN << >> ELSE <<"local">>)
           \o <<"edge", "count", "total">>
           \o (IF AddsType(c) THEN <<"subject of type", "type">> ELSE << >>)
      [] c.op = "add_namespace" -> <<"id of namespace", "namespace">>
      [] c.op = "add_type" -> <<"subject of type", "type">>
      [] c.op = "remove_namespace" -> <<"take namespace", "drop id">>
      [] c.op = "remove_type" -> <<"drop subject", "drop type">>
      [] c.op = "remove_subject" -> <<"take types", "drop subjects">>
      [] c.op = "remove_edge" -> <<"drop edge", "count down", "total down">>
      [] c.op = "selectivity" -> <<"read total", "read count">>
      [] c.op = "clear" ->
           <<"clear ids", "clear namespaces">> \o <<"clear locals">>
           \o <<"clear subjects", "clear types">>
           \o <<"clear edges", "clear counts", "clear total">>

(* What a call adds to or removes from: the types of a subject, the        *)
(* namespace of a node, the edges of a predicate.                          *)
Keys == {<<"types", c.s>> : c \in {d \in Calls : "s" \in DOMAIN d}}
        \cup {<<"namespace", c.s>> : c \in {d \in Calls : "s" \in DOMAIN d}}
        \cup {<<"edges", c.p>> : c \in {d \in Calls : "p" \in DOMAIN d}}

Adds(c) ==
    CASE c.op = "index_triple" ->
           {<<"edges", c.p>>}
           \cup {<<"types", s>> : s \in {x \in {c.s} : AddsType(c)}}
           \cup {<<"namespace", s>> : s \in {x \in {c.s} : At(c, "namespace") # None}}
      [] c.op = "add_namespace" -> {<<"namespace", c.s>>}
      [] c.op = "add_type" -> {<<"types", c.s>>}
      [] c.op = "clear" -> Keys
      [] OTHER -> {}

Removes(c) ==
    CASE c.op = "remove_namespace" -> {<<"namespace", c.s>>}
      [] c.op \in {"remove_type", "remove_subject"} -> {<<"types", c.s>>}
      [] c.op = "remove_edge" -> {<<"edges", c.p>>}
      [] c.op = "clear" -> Keys
      [] OTHER -> {}

Running(t) == todo[t] # << >>

Others(t) == {u \in Threads \ {t} : Running(u)}

Overlaps(t, c) ==
    UNION {(Adds(c) \cap Removes(call[u])) \cup (Removes(c) \cap Adds(call[u])) :
              u \in Others(t)}

Disturbs(t, c) ==
    {u \in Others(t) : call[u].op = "selectivity" /\ Adds(c) # {}}
    \cup {u \in {t} : c.op = "selectivity" /\ \E v \in Others(t) : Adds(call[v]) # {}}

Begin(t, c) ==
    /\ ~Running(t) /\ made < MaxCalls
    /\ made' = made + 1
    /\ call' = [call EXCEPT ![t] = c]
    /\ todo' = [todo EXCEPT ![t] = Sections(c)]
    /\ found' = [found EXCEPT ![t] = None]
    /\ answer' = [answer EXCEPT ![t] = None]
    /\ tangled' = tangled \cup Overlaps(t, c)
    /\ disturbed' = (disturbed \ {t}) \cup Disturbs(t, c)
    /\ UNCHANGED <<index, repeated, moved>>
-----------------------------------------------------------------------------
(* Sections *)

(* Thread t is at section name; the index becomes next.                    *)
Section(t, name, next) ==
    /\ Running(t) /\ Head(todo[t]) = name
    /\ index' = next
    /\ todo' = [todo EXCEPT ![t] = Tail(@)]
    /\ UNCHANGED <<call, made, tangled, disturbed>>

Quiet == UNCHANGED <<found, answer, repeated, moved>>

Put(f, k, v) == [x \in DOMAIN f \cup {k} |-> IF x = k THEN v ELSE f[x]]
Without(f, k) == [x \in DOMAIN f \ {k} |-> f[x]]
CountOf(p) == IF p \in DOMAIN index.counts THEN index.counts[p] ELSE 0

AddNamespace(t) ==
    LET c == call[t] IN
    \/ /\ Section(t, "id of namespace",
                  [index EXCEPT !.ids_by_namespace = @ \cup {<<c.namespace, c.s>>}])
       /\ moved' = IF \E x \in index.ids_by_namespace : x[1] # c.namespace /\ x[2] = c.s
                   THEN moved \cup {c.s} ELSE moved
       /\ UNCHANGED <<found, answer, repeated>>
    \/ /\ Section(t, "namespace", [index EXCEPT !.namespace_of = Put(@, c.s, c.namespace)])
       /\ Quiet

AddLocal(t) ==
    /\ Section(t, "local", [index EXCEPT !.ids_by_local = @ \cup {<<call[t].local, call[t].s>>}])
    /\ Quiet

AddEdge(t) ==
    LET c == call[t] IN
    \/ /\ Section(t, "edge", [index EXCEPT !.edges = @ \cup {<<c.p, c.s, c.o>>}])
       /\ repeated' = IF <<c.p, c.s, c.o>> \in index.edges
                      THEN repeated \cup {c.p} ELSE repeated
       /\ UNCHANGED <<found, answer, moved>>
    \/ Section(t, "count", [index EXCEPT !.counts = Put(@, c.p, CountOf(c.p) + 1)]) /\ Quiet
    \/ Section(t, "total", [index EXCEPT !.total = @ + 1]) /\ Quiet

AddType(t) ==
    LET c == call[t]
        type == IF c.op = "add_type" THEN c.type ELSE c.o
    IN
    \/ /\ Section(t, "subject of type",
                  [index EXCEPT !.subjects_by_type = @ \cup {<<type, c.s>>}])
       /\ Quiet
    \/ /\ Section(t, "type", [index EXCEPT !.types_by_subject = @ \cup {<<c.s, type>>}])
       /\ Quiet

RemoveNamespace(t) ==
    LET s == call[t].s IN
    \/ /\ Section(t, "take namespace", [index EXCEPT !.namespace_of = Without(@, s)])
       /\ found' = [found EXCEPT ![t] =
                       IF s \in DOMAIN index.namespace_of
                       THEN {index.namespace_of[s]} ELSE {}]
       /\ UNCHANGED <<answer, repeated, moved>>
    \/ /\ Section(t, "drop id",
                  [index EXCEPT !.ids_by_namespace = @ \ (found[t] \X {s})])
       /\ Quiet

RemoveType(t) ==
    LET c == call[t] IN
    \/ /\ Section(t, "drop subject",
                  [index EXCEPT !.subjects_by_type = @ \ {<<c.type, c.s>>}])
       /\ Quiet
    \/ /\ Section(t, "drop type",
                  [index EXCEPT !.types_by_subject = @ \ {<<c.s, c.type>>}])
       /\ Quiet

TypesFound(t) == {x[2] : x \in {y \in index.types_by_subject : y[1] = call[t].s}}

(* Only one of the types is followed to the subject.                       *)
RemoveSubjectOnce(t) ==
    LET s == call[t].s IN
    \/ /\ Section(t, "take types",
                  [index EXCEPT !.types_by_subject = {x \in @ : x[1] # s}])
       /\ found' = [found EXCEPT ![t] =
                       IF TypesFound(t) = {} THEN {} ELSE {CHOOSE x \in TypesFound(t) : TRUE}]
       /\ UNCHANGED <<answer, repeated, moved>>
    \/ /\ Section(t, "drop subjects",
                  [index EXCEPT !.subjects_by_type = @ \ (found[t] \X {s})])
       /\ Quiet

RemoveSubject(t) ==
    LET s == call[t].s IN
    \/ /\ Section(t, "take types",
                  [index EXCEPT !.types_by_subject = {x \in @ : x[1] # s}])
       /\ found' = [found EXCEPT ![t] = TypesFound(t)]
       /\ UNCHANGED <<answer, repeated, moved>>
    \/ /\ Section(t, "drop subjects",
                  [index EXCEPT !.subjects_by_type = @ \ (found[t] \X {s})])
       /\ Quiet

(* saturating_sub, and a count of 0 is removed.                            *)
CountedDown(counts, p) ==
    IF p \notin DOMAIN counts THEN counts
    ELSE IF counts[p] <= 1 THEN Without(counts, p) ELSE Put(counts, p, counts[p] - 1)

TotalDown(t) ==
    Section(t, "total down", [index EXCEPT !.total = IF @ = 0 THEN 0 ELSE @ - 1]) /\ Quiet

CountDown(t) ==
    /\ Section(t, "count down", [index EXCEPT !.counts = CountedDown(@, call[t].p)])
    /\ Quiet

DropEdge(t) ==
    LET c == call[t] IN
    /\ Running(t) /\ Head(todo[t]) = "drop edge"
    /\ index' = [index EXCEPT !.edges = @ \ {<<c.p, c.s, c.o>>}]
    /\ UNCHANGED <<call, made, tangled, disturbed>> /\ Quiet

RemoveEdgeUnchecked(t) ==
    \/ /\ DropEdge(t) /\ todo' = [todo EXCEPT ![t] = Tail(@)]
    \/ CountDown(t) \/ TotalDown(t)

(* An edge that is not there ends the call.                                *)
RemoveEdge(t) ==
    LET c == call[t] IN
    \/ /\ DropEdge(t)
       /\ todo' = [todo EXCEPT ![t] = IF <<c.p, c.s, c.o>> \in index.edges
                                      THEN Tail(@) ELSE << >>]
    \/ CountDown(t) \/ TotalDown(t)

SelectivityCountFirst(t) ==
    \/ /\ Section(t, "read total", index)
       /\ found' = [found EXCEPT ![t] = CountOf(call[t].p)]
       /\ UNCHANGED <<answer, repeated, moved>>
    \/ /\ Section(t, "read count", index)
       /\ answer' = [answer EXCEPT ![t] =
                        IF index.total = 0 THEN <<1, 1>> ELSE <<found[t], index.total>>]
       /\ UNCHANGED <<found, repeated, moved>>

(* A total of 0 is answered with 1.0.                                      *)
Selectivity(t) ==
    \/ /\ Running(t) /\ Head(todo[t]) = "read total"
       /\ found' = [found EXCEPT ![t] = index.total]
       /\ IF index.total = 0
          THEN /\ todo' = [todo EXCEPT ![t] = << >>]
               /\ answer' = [answer EXCEPT ![t] = <<1, 1>>]
          ELSE todo' = [todo EXCEPT ![t] = Tail(@)] /\ UNCHANGED answer
       /\ UNCHANGED <<index, call, made, history>>
    \/ /\ Section(t, "read count", index)
       /\ answer' = [answer EXCEPT ![t] = <<CountOf(call[t].p), found[t]>>]
       /\ UNCHANGED <<found, repeated, moved>>

ClearEdges(t) ==
    \/ Section(t, "clear edges", [index EXCEPT !.edges = {}]) /\ Quiet
    \/ Section(t, "clear counts", [index EXCEPT !.counts = Empty]) /\ Quiet
    \/ Section(t, "clear total", [index EXCEPT !.total = 0]) /\ Quiet

ClearNodes(t) ==
    \/ Section(t, "clear ids", [index EXCEPT !.ids_by_namespace = {}]) /\ Quiet
    \/ Section(t, "clear namespaces", [index EXCEPT !.namespace_of = Empty]) /\ Quiet
    \/ Section(t, "clear locals", [index EXCEPT !.ids_by_local = {}]) /\ Quiet
    \/ Section(t, "clear subjects", [index EXCEPT !.subjects_by_type = {}]) /\ Quiet
    \/ Section(t, "clear types", [index EXCEPT !.types_by_subject = {}]) /\ Quiet

Step(t) ==
    \/ AddNamespace(t) \/ AddLocal(t) \/ AddEdge(t) \/ AddType(t)
    \/ RemoveNamespace(t) \/ RemoveType(t) \/ RemoveSubject(t) \/ RemoveEdge(t)
    \/ Selectivity(t) \/ ClearNodes(t) \/ ClearEdges(t)

Next == \E t \in Threads : Step(t) \/ \E c \in Calls : Begin(t, c)

Spec == Init /\ [][Next]_vars
-----------------------------------------------------------------------------
(* Properties *)

Pairs(x, y) == \A e \in x : <<e[2], e[1]>> \in y

TypeOK ==
    /\ \A n \in DOMAIN index.namespace_of : <<"namespace", n>> \in Keys
    /\ \A p \in DOMAIN index.counts : index.counts[p] \in Nat \ {0}
    /\ index.total \in Nat
    /\ \A t \in Threads : call[t] \in Calls \cup {None} /\ (Running(t) => call[t] # None)
    /\ tangled \subseteq Keys

Touched(k) == \E t \in Threads : Running(t) /\ k \in Adds(call[t]) \cup Removes(call[t])
Removed(k) == \E t \in Threads : Running(t) /\ k \in Removes(call[t])

(* The two maps of the type index say the same of a subject that no call   *)
(* is working on; and while it only gets types, every type that is found   *)
(* for it leads back to it.                                                *)
TypesMirror ==
    \A k \in Keys \ tangled : k[1] = "types" =>
        LET types == {e \in index.types_by_subject : e[1] = k[2]}
            subjects == {e \in index.subjects_by_type : e[2] = k[2]}
        IN /\ ~Removed(k) => Pairs(types, index.subjects_by_type)
           /\ ~Touched(k) => Pairs(subjects, index.types_by_subject)

(* The two maps of the namespace index say the same of a node that no call *)
(* is working on and that never had two namespaces.                        *)
NamespacesMirror ==
    \A k \in Keys \ tangled : k[1] = "namespace" /\ k[2] \notin moved /\ ~Touched(k) =>
        {e[1] : e \in {x \in index.ids_by_namespace : x[2] = k[2]}}
        = {index.namespace_of[n] : n \in {k[2]} \cap DOMAIN index.namespace_of}

(* As long as no call adds to what another one removes from, the maps of  *)
(* the type index mirror each other and so do those of the namespace index.*)
MapsMirror == TypesMirror /\ NamespacesMirror

EdgesOf(p) == {e \in index.edges : e[1] = p}
PredicateKeys == {k \in Keys : k[1] = "edges"}

(* The count of a predicate that no call is working on is at least the     *)
(* number of its edges, and exactly that if no edge was added twice.       *)
CountsCount ==
    \A k \in PredicateKeys \ tangled : ~Touched(k) =>
        /\ CountOf(k[2]) >= Cardinality(EdgesOf(k[2]))
        /\ k[2] \notin repeated => CountOf(k[2]) = Cardinality(EdgesOf(k[2]))

(* The total is the sum of the counts when no edge is being added or       *)
(* removed.                                                                *)
TotalIsTheSum ==
    PredicateKeys \cap tangled = {} /\ (\A k \in PredicateKeys : ~Touched(k))
    => index.total = FoldFunction(+, 0, index.counts)

(* The predicate index keeps three structures in step: the edges, a count  *)
(* per predicate and a total.                                              *)
CountsMatchEdges == CountsCount /\ TotalIsTheSum

(* "selectivity estimate for a predicate (0.0 to 1.0)": the count that was *)
(* read second is within the total that was read first, if no call added   *)
(* edges meanwhile; edges may go meanwhile.                                *)
SelectivityIsAFraction ==
    \A t \in Threads :
        answer[t] # None /\ t \notin disturbed /\ PredicateKeys \cap tangled = {}
        => answer[t][1] <= answer[t][2]
=============================================================================
