----------------------------- MODULE RdfInsert ------------------------------
(***************************************************************************)
(* RDF.INSERT: a document is parsed, mapped to one Cypher statement per    *)
(* subject, and the statements go to FalkorDB one call after another, or,  *)
(* with ATOMIC, joined to one.                                             *)
(*                                                                         *)
(* The steps of a command are separate because a call may fail after       *)
(* others have changed the graph, and the order of the statements is that  *)
(* of a HashMap.  Commands themselves do not interleave.  A client that    *)
(* sees errors may send its document again.  Restart is a restart of       *)
(* Redis: the graph is kept, the process-wide counter behind the names of  *)
(* blank nodes is not.                                                     *)
(***************************************************************************)
EXTENDS GraphMapping

CONSTANTS
    Labels,      \* blank node labels as they are written in documents
    Raw,         \* the scope of labels that are taken as they are written
    Documents,   \* [scoped, triples]: what clients send, Turtle if scoped
    Followups,   \* bound: what is sent after another document
    MaxScopes,   \* bound: documents parsed between restarts
    MaxCalls, MaxRestarts  \* bounds

Scopes == {Raw} \cup 0 .. MaxScopes - 1

ASSUME BoundsAssumption == MaxScopes \in Nat
ASSUME DocumentsAssumption ==
    /\ Raw \notin Nat \cup Documents /\ Scopes \X Labels \subseteq Blanks
    /\ Labels \cap Blanks = {} /\ Followups \subseteq Documents
    /\ \A d \in Documents :
         /\ d.scoped \in BOOLEAN
         /\ d.triples \in Seq([s : Iris \cup Labels, p : Predicates,
                              o : Iris \cup Labels \cup Literals])

VARIABLES
    graph,
    counter,   \* GLOBAL_COUNTER
    phase,     \* of the command: idle, mapping, executing
    sent,      \* its document
    data,      \* the triples parsed from it
    atomic,
    walk,      \* the list cell at which the search for collections is
    plan,      \* the statements still to execute, by subject
    executed, errors,
    reply,     \* the answer to the last command
    origin,    \* history: the graph before the first try of sent
    seen,      \* history: blank nodes of documents since the last restart
    calls, restarts

vars == <<graph, counter, phase, sent, data, atomic, walk, plan,
          executed, errors, reply, origin, seen, calls, restarts>>
history == <<calls, restarts>>

None == Raw  \* no document, no cell

Answer(status, n, done, failed) ==
    reply' = [status |-> status, parsed |-> n, executed |-> done, errors |-> failed]

(* The Turtle parser puts labels into a scope of their own; the readers of *)
(* N-Triples and TriG have no prefix configured.                           *)
Node(d, scope, t) ==
    IF t \in Labels THEN <<IF d.scoped THEN scope ELSE Raw, t>> ELSE t

Parsed(d, scope) ==
    [k \in DOMAIN d.triples |-> [s |-> Node(d, scope, d.triples[k].s),
                                p |-> d.triples[k].p,
                                o |-> Node(d, scope, d.triples[k].o)]]

BlanksOf(triples) ==
    {b \in Blanks : \E k \in DOMAIN triples : b \in {triples[k].s, triples[k].o}}

Init ==
    /\ graph = EmptyGraph /\ origin = EmptyGraph
    /\ counter = 0 /\ seen = {}
    /\ phase = "idle" /\ sent = None /\ data = << >> /\ atomic = FALSE
    /\ walk = None /\ plan = Empty
    /\ executed = 0 /\ errors = 0
    /\ reply = [status |-> "none", parsed |-> 0, executed |-> 0, errors |-> 0]
    /\ calls = 0 /\ restarts = 0
-----------------------------------------------------------------------------
NoScopeTaken(d) == counter' = counter

(* A parser takes a scope when it is made, whatever becomes of the text.   *)
TakeScope(d) == counter' = counter + (IF d.scoped THEN 1 ELSE 0)


Begin(d) ==
    /\ phase = "idle"
    /\ calls = 0 \/ d = sent \/ d \in Followups
    /\ calls < MaxCalls /\ calls' = calls + 1 /\ counter < MaxScopes
    /\ TakeScope(d)

Reject(d) ==
    /\ Begin(d)
    /\ Answer("parse error", 0, 0, 0)
    /\ UNCHANGED <<graph, phase, sent, data, atomic, walk, plan,
                   executed, errors, origin, seen, restarts>>

Call(d, a) ==
    /\ Begin(d)
    /\ sent' = d /\ atomic' = a
    /\ data' = Parsed(d, counter)
    /\ seen' = seen \cup BlanksOf(data')
    /\ origin' = IF d = sent THEN origin ELSE graph
    /\ executed' = 0 /\ errors' = 0
    /\ \/ /\ data' = << >>
          /\ Answer("ok", 0, 0, 0)
          /\ UNCHANGED phase
       \/ /\ data' # << >>
          /\ phase' = "mapping"
          /\ UNCHANGED reply
    /\ UNCHANGED <<graph, walk, plan, restarts>>

Map ==
    /\ phase = "mapping" /\ WalksEnd(data)
    /\ plan' \in Batches(data)
    /\ phase' = "executing"
    /\ UNCHANGED <<graph, counter, sent, data, atomic, walk, executed, errors,
                   reply, origin, seen, history>>

(* The loop that follows a list without an end.                            *)
Walk ==
    /\ phase = "mapping" /\ ~WalksEnd(data)
    /\ IF walk = None
       THEN \E b \in DOMAIN Heads(data) \cap DOMAIN LastObjects(data, RdfFirst) :
              ~WalkStops(data, b) /\ walk' = b
       ELSE walk' = LastObjects(data, RdfRest)[walk]
    /\ UNCHANGED <<graph, counter, phase, sent, data, atomic, plan,
                   executed, errors, reply, origin, seen, history>>
-----------------------------------------------------------------------------
(* execute_cypher *)

InCall == UNCHANGED <<counter, phase, sent, data, atomic, walk, reply,
                      origin, seen, history>>

(* ON CREATE SET: what is there is left alone.                             *)
ApplyOnCreate(g, h) == Union(h, g)

(* MERGE finds or makes; SET replaces the properties it names.             *)
Apply(g, h) == Union(g, h)

(* One query with all the statements; each sets properties of its own      *)
(* subject only.                                                           *)
ApplyAll(g, statements) ==
    LET subjects == DOMAIN statements
        keys == UNION {DOMAIN statements[s].props : s \in subjects}
    IN [nodes  |-> g.nodes \cup UNION {statements[s].nodes : s \in subjects},
        labels |-> g.labels \cup UNION {statements[s].labels : s \in subjects},
        edges  |-> g.edges \cup UNION {statements[s].edges : s \in subjects},
        props  |-> [k \in DOMAIN g.props \cup keys |->
                      IF k \in keys THEN statements[k[1]].props[k] ELSE g.props[k]]]

Execute(s) ==
    /\ phase = "executing" /\ ~atomic /\ s \in DOMAIN plan
    /\ graph' = Apply(graph, plan[s])
    /\ executed' = executed + 1
    /\ plan' = Restrict(plan, DOMAIN plan \ {s})
    /\ InCall /\ UNCHANGED errors

FailStops(s) ==
    /\ phase = "executing" /\ ~atomic /\ s \in DOMAIN plan
    /\ plan' = Empty
    /\ InCall /\ UNCHANGED <<graph, executed, errors>>

(* Without ATOMIC an error is counted and the next statement is tried.     *)
Fail(s) ==
    /\ phase = "executing" /\ ~atomic /\ s \in DOMAIN plan
    /\ errors' = errors + 1
    /\ plan' = Restrict(plan, DOMAIN plan \ {s})
    /\ InCall /\ UNCHANGED <<graph, executed>>

ExecuteAll ==
    /\ phase = "executing" /\ atomic /\ plan # Empty
    /\ graph' = ApplyAll(graph, plan)
    /\ executed' = Cardinality(DOMAIN plan)
    /\ plan' = Empty
    /\ InCall /\ UNCHANGED errors

FailAll ==
    /\ phase = "executing" /\ atomic /\ plan # Empty
    /\ errors' = 1
    /\ plan' = Empty
    /\ InCall /\ UNCHANGED <<graph, executed>>

FinishIfClean ==
    /\ phase = "executing" /\ plan = Empty /\ errors = 0
    /\ phase' = "idle"
    /\ Answer("ok", Len(data), executed, errors)
    /\ UNCHANGED <<graph, counter, sent, data, atomic, walk, plan,
                   executed, errors, origin, seen, history>>

Finish ==
    /\ phase = "executing" /\ plan = Empty
    /\ phase' = "idle"
    /\ Answer("ok", Len(data), executed, errors)
    /\ UNCHANGED <<graph, counter, sent, data, atomic, walk, plan,
                   executed, errors, origin, seen, history>>

Restart ==
    /\ phase = "idle" /\ restarts < MaxRestarts
    /\ restarts' = restarts + 1
    /\ counter' = 0 /\ seen' = {}
    /\ UNCHANGED <<graph, phase, sent, data, atomic, walk, plan,
                   executed, errors, reply, origin, calls>>

Command == \/ Map \/ Walk \/ ExecuteAll \/ FailAll \/ Finish
           \/ \E s \in Terms : Execute(s) \/ Fail(s)

Next == \/ \E d \in Documents : Reject(d) \/ \E a \in BOOLEAN : Call(d, a)
        \/ Command \/ Restart

(* A command runs on the server's one thread until it has answered.        *)
Fairness == WF_vars(Command)

Spec == Init /\ [][Next]_vars /\ Fairness
-----------------------------------------------------------------------------
(* Properties *)

(* Nodes are terms and never literals; counts stay in bounds.              *)
TypeOK ==
    /\ graph.nodes \subseteq Terms /\ origin.nodes \subseteq Terms
    /\ counter \in 0 .. MaxScopes
    /\ phase \in {"idle", "mapping", "executing"}
    /\ sent \in Documents \cup {None}
    /\ atomic \in BOOLEAN
    /\ walk \in Blanks \cup {None}
    /\ DOMAIN plan \subseteq Terms
    /\ executed \in Nat /\ errors \in Nat
    /\ seen \subseteq Blanks

Closed(g) == /\ \A l \in g.labels : l[1] \in g.nodes
             /\ \A e \in g.edges : e[1] \in g.nodes /\ e[3] \in g.nodes
             /\ \A k \in DOMAIN g.props : k[1] \in g.nodes

(* Whatever part of a document was executed, every edge ends at nodes that *)
(* exist, and labels and properties belong to nodes.                       *)
GraphIsClosed == Closed(graph)

Succeeded ==
    phase = "idle" /\ data # << >> /\ reply.status = "ok" /\ errors = 0

(* A command that reports no error has lost no triple of a document that   *)
(* has only well-formed lists and IRI types and no second value for a      *)
(* name: each can be read back from the graph, elements of lists from an   *)
(* array, literals from a property, whatever failed and whatever was       *)
(* stored before.                                                          *)
EveryTripleIsKept ==
    Succeeded /\ WellMapped(data)
    => \A k \in DOMAIN data : Kept(graph, data, data[k])

(* "RDF allows multiple values for the same predicate. These become        *)
(* arrays": no value is lost where a name has several.  The code keeps the *)
(* last one only.                                                          *)
MultipleValuesAreKept ==
    Succeeded /\ WellFormed(data)
    => \A k \in DOMAIN data : Kept(graph, data, data[k])

ScopedBlanks == {b \in BlanksOf(data) : b[1] # Raw}

(* Sending a document again after errors, until none is reported, gives    *)
(* the graph that one undisturbed insert would have given: the statements  *)
(* may be executed twice, in any order.  Not so where blank nodes have     *)
(* document scope, for every try makes new ones.                           *)
RetryCompletes ==
    Succeeded /\ ScopedBlanks = {}
    => \E batch \in Batches(data) : graph = ApplyAll(origin, batch)

(* Where no triple belongs to a list and types are IRIs, grouping the      *)
(* triples by subject gives what mapping them one by one gives.            *)
BatchAgreesWithTriples ==
    /\ Succeeded /\ ScopedBlanks = {}
    /\ \A k \in DOMAIN data : /\ data[k].p \notin {RdfFirst, RdfRest}
                              /\ data[k].p = RdfType => data[k].o \in Iris
    => graph = TripleByTriple(origin, data)

(* Every statement is accounted for in the answer: without ATOMIC as       *)
(* executed or as an error, with ATOMIC all as executed or one error.      *)
RepliesAddUp ==
    phase = "idle" /\ data # << >> /\ reply.status = "ok"
    => LET n == Cardinality(Subjects(data)) IN
       IF reply.errors = 0 THEN reply.executed = n
       ELSE IF atomic THEN reply.executed = 0 /\ reply.errors = 1
       ELSE reply.executed + reply.errors = n

(* As long as the server runs, blank nodes of a Turtle document are not    *)
(* those of any document before it, rejected ones and retries included.    *)
ScopesAreNotReused ==
    [][phase = "idle" /\ phase' = "mapping" /\ sent'.scoped
       => BlanksOf(data') \cap seen = {}]_vars

(* A command whose lists all end is answered.                              *)
CommandReplies == phase # "idle" /\ WalksEnd(data) ~> phase = "idle"

(* "Returns: Array with [triples_parsed, statements_executed, errors]":    *)
(* every command is answered.                                              *)
EveryCommandReplies == phase # "idle" ~> phase = "idle"
=============================================================================
