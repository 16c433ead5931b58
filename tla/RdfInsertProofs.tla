-------------------------- MODULE RdfInsertProofs ---------------------------
(***************************************************************************)
(* Proofs about RdfInsert, for every set of documents, every number of     *)
(* calls and restarts and whichever statements fail.                       *)
(***************************************************************************)
EXTENDS RdfInsert, TLAPS, FiniteSetTheorems, WellFoundedInduction

(* Adding a statement's graph keeps all that was there. *)
LEMMA ApplyAdds ==
  ASSUME NEW g, NEW h, NEW r, r = Apply(g, h)
  PROVE  /\ r.nodes = g.nodes \cup h.nodes
         /\ r.labels = g.labels \cup h.labels
         /\ r.edges = g.edges \cup h.edges
         /\ DOMAIN r.props = DOMAIN g.props \cup DOMAIN h.props
BY DEF Apply, Union, Override

LEMMA ApplyAllAdds ==
  ASSUME NEW g, NEW p, NEW r, r = ApplyAll(g, p)
  PROVE  /\ r.nodes = g.nodes \cup UNION {p[s].nodes : s \in DOMAIN p}
         /\ r.labels = g.labels \cup UNION {p[s].labels : s \in DOMAIN p}
         /\ r.edges = g.edges \cup UNION {p[s].edges : s \in DOMAIN p}
         /\ DOMAIN r.props = DOMAIN g.props
                             \cup UNION {DOMAIN p[s].props : s \in DOMAIN p}
BY DEF ApplyAll

(* What the steps other than Execute and ExecuteAll leave alone. *)
LEMMA GraphChanges ==
  ASSUME Next
  PROVE  \/ graph' = graph
         \/ \E s \in DOMAIN plan : graph' = Apply(graph, plan[s])
         \/ graph' = ApplyAll(graph, plan)
<1>1. CASE \E d \in Documents : Reject(d) \/ \E a \in BOOLEAN : Call(d, a)
  BY <1>1 DEF Reject, Call
<1>2. CASE Map \/ Walk \/ ExecuteAll \/ FailAll \/ Finish \/ Restart
  BY <1>2 DEF Map, Walk, ExecuteAll, FailAll, Finish, Restart
<1>3. CASE \E s \in Terms : Execute(s) \/ Fail(s)
  BY <1>3 DEF Execute, Fail
<1> QED BY <1>1, <1>2, <1>3 DEF Next, Command

-----------------------------------------------------------------------------
(* The graph is closed because every statement of the plan is, by itself;  *)
(* so it does not matter which of them are executed.                       *)
PlanIsClosed ==
    \A s \in DOMAIN plan : /\ Closed(plan[s])
                           /\ \A k \in DOMAIN plan[s].props : k[1] = s

LEMMA SubjectGraphIsClosed ==
  ASSUME NEW d, NEW s, NEW arrays
  PROVE  /\ Closed(SubjectGraph(d, s, arrays))
         /\ \A k \in DOMAIN SubjectGraph(d, s, arrays).props : k[1] = s
<1> DEFINE G == SubjectGraph(d, s, arrays)
           own == {d[k] : k \in {j \in Remaining(d) : d[j].s = s}}
<1>1. /\ G.nodes = {s} \cup {t.o : t \in {u \in own : IsEdge(u)}}
      /\ G.labels = {<<s, TypeLabel[t.o]>> : t \in {u \in own : IsLabel(u)}}
      /\ G.edges = {<<s, t.p, t.o>> : t \in {u \in own : IsEdge(u)}}
      /\ G.props = SubjectProps(d, s, arrays)
  BY DEF SubjectGraph
<1>2. \A k \in DOMAIN SubjectProps(d, s, arrays) : k[1] = s
  BY DEF SubjectProps, Override
<1>3. \A l \in G.labels : l[1] = s
  BY <1>1
<1>4. \A e \in G.edges : e[1] = s /\ e[3] \in G.nodes
  BY <1>1
<1> QED BY <1>1, <1>2, <1>3, <1>4 DEF Closed

LEMMA PlanStaysClosed ==
  ASSUME PlanIsClosed, [Next]_vars
  PROVE  PlanIsClosed'
<1>1. CASE UNCHANGED plan
  BY <1>1 DEF PlanIsClosed
<1>2. CASE plan' = Empty
  BY <1>2 DEF PlanIsClosed, Empty
<1>3. ASSUME NEW s, plan' = Restrict(plan, DOMAIN plan \ {s})
      PROVE  PlanIsClosed'
  BY <1>3 DEF PlanIsClosed, Restrict
<1>4. CASE Map
  <2>1. PICK arrays \in ArrayChoices(data) :
          plan' = [s \in Subjects(data) |-> SubjectGraph(data, s, arrays)]
    BY <1>4 DEF Map, Batches
  <2> QED BY <2>1, SubjectGraphIsClosed DEF PlanIsClosed
<1>5. CASE Next
  <2>1. CASE \E d \in Documents : Reject(d) \/ \E a \in BOOLEAN : Call(d, a)
    BY <2>1, <1>1 DEF Reject, Call
  <2>2. CASE Walk \/ ExecuteAll \/ FailAll \/ Finish \/ Restart
    BY <2>2, <1>1, <1>2 DEF Walk, ExecuteAll, FailAll, Finish, Restart
  <2>3. CASE \E s \in Terms : Execute(s) \/ Fail(s)
    BY <2>3, <1>3 DEF Execute, Fail
  <2> QED BY <1>5, <1>4, <2>1, <2>2, <2>3 DEF Next, Command
<1> QED BY <1>1, <1>5 DEF vars

(* After any sequence of inserts, failures in the middle of a document     *)
(* included, every edge ends at nodes that exist.                          *)
THEOREM NoDanglingEdges == Spec => []GraphIsClosed
<1> DEFINE IInv == GraphIsClosed /\ PlanIsClosed
<1>1. Init => IInv
  BY DEF Init, GraphIsClosed, PlanIsClosed, Closed, EmptyGraph, Empty
<1>2. ASSUME IInv, Next PROVE GraphIsClosed'
  <2>1. CASE graph' = graph
    BY <1>2, <2>1 DEF GraphIsClosed, Closed
  <2>2. ASSUME NEW s \in DOMAIN plan, graph' = Apply(graph, plan[s])
        PROVE  GraphIsClosed'
    BY <1>2, <2>2, ApplyAdds DEF GraphIsClosed, PlanIsClosed, Closed
  <2>3. CASE graph' = ApplyAll(graph, plan)
    BY <1>2, <2>3, ApplyAllAdds DEF GraphIsClosed, PlanIsClosed, Closed
  <2> QED BY <1>2, <2>1, <2>2, <2>3, GraphChanges
<1>3. IInv /\ UNCHANGED vars => GraphIsClosed'
  BY DEF vars, GraphIsClosed, Closed
<1>4. IInv /\ [Next]_vars => IInv'
  BY <1>2, <1>3, PlanStaysClosed
<1> QED BY <1>1, <1>4, PTL DEF Spec
-----------------------------------------------------------------------------
(* Blank nodes seen since the last restart have scopes below the counter,  *)
(* which is the scope of the next document.                                *)
SeenInv ==
    /\ counter \in Nat
    /\ \A b \in seen : b[1] = Raw \/ (b[1] \in Nat /\ b[1] < counter)

(* The blank nodes of a parsed document are labels in its scope.           *)
LEMMA ParsedBlanks ==
  ASSUME NEW d \in Documents, NEW n, NEW b \in BlanksOf(Parsed(d, n))
  PROVE  b[1] = IF d.scoped THEN n ELSE Raw
<1>1. PICK k \in DOMAIN d.triples :
        b \in {Node(d, n, d.triples[k].s), Node(d, n, d.triples[k].o)}
  BY DEF BlanksOf, Parsed
<1>2. /\ d.triples[k].s \in Iris \cup Labels
      /\ d.triples[k].o \in Iris \cup Labels \cup Literals
  <2> DEFINE Triple == [s : Iris \cup Labels, p : Predicates,
                        o : Iris \cup Labels \cup Literals]
  <2>1. d.triples \in Seq(Triple)
    BY DocumentsAssumption
  <2>2. d.triples[k] \in Triple
    <3> HIDE DEF Triple
    <3> QED BY <2>1
  <2> QED BY <2>2
<1>3. PICK t \in Iris \cup Labels \cup Literals : b = Node(d, n, t)
  BY <1>1, <1>2
<1>4. b \in Blanks
  BY DEF BlanksOf
<1>5. t \in Labels
  BY <1>3, <1>4, VocabularyAssumption DEF Terms, Node
<1> QED BY <1>3, <1>5 DEF Node

LEMMA CallTakesFreshScope ==
  ASSUME SeenInv, NEW d \in Documents, NEW a, Call(d, a)
  PROVE  /\ SeenInv'
         /\ d.scoped => BlanksOf(data') \cap seen = {}
<1>1. /\ data' = Parsed(d, counter)
      /\ seen' = seen \cup BlanksOf(data')
      /\ counter' = counter + (IF d.scoped THEN 1 ELSE 0)
  BY DEF Call, Begin, TakeScope
<1>2. d.scoped \in BOOLEAN /\ counter \in Nat
  BY DocumentsAssumption DEF SeenInv
<1>3. \A b \in BlanksOf(data') : b[1] = IF d.scoped THEN counter ELSE Raw
  BY <1>1, ParsedBlanks
<1>4. SeenInv'
  <2>1. CASE d.scoped
    BY <2>1, <1>1, <1>2, <1>3 DEF SeenInv
  <2>2. CASE ~d.scoped
    BY <2>2, <1>1, <1>2, <1>3 DEF SeenInv
  <2> QED BY <2>1, <2>2
<1>5. ASSUME d.scoped, NEW b \in BlanksOf(data') \cap seen PROVE FALSE
  <2>1. b[1] = counter
    BY <1>3, <1>5
  <2> QED BY <1>2, <1>5, <2>1, DocumentsAssumption DEF SeenInv
<1> QED BY <1>4, <1>5

LEMMA SeenStays ==
  ASSUME SeenInv, [Next]_vars
  PROVE  SeenInv'
<1>1. CASE UNCHANGED <<counter, seen>>
  BY <1>1 DEF SeenInv
<1>2. ASSUME NEW d \in Documents, Reject(d) PROVE SeenInv'
  <2>1. d.scoped \in BOOLEAN /\ seen' = seen
        /\ counter' = counter + (IF d.scoped THEN 1 ELSE 0)
    BY <1>2, DocumentsAssumption DEF Reject, Begin, TakeScope
  <2>2. CASE d.scoped
    BY <2>1, <2>2 DEF SeenInv
  <2>3. CASE ~d.scoped
    BY <2>1, <2>3 DEF SeenInv
  <2> QED BY <2>2, <2>3
<1>3. CASE Restart
  BY <1>3 DEF Restart, SeenInv
<1>4. CASE Command
  BY <1>1, <1>4 DEF Command, Map, Walk, Execute, Fail, ExecuteAll, FailAll,
                    Finish, InCall
<1> QED BY <1>1, <1>2, <1>3, <1>4, CallTakesFreshScope DEF Next, vars

(* Between two restarts no Turtle document gets a blank node that a        *)
(* document before it had.                                                 *)
THEOREM ScopesNeverMeet == Spec => ScopesAreNotReused
<1> DEFINE Fresh == phase = "idle" /\ phase' = "mapping" /\ sent'.scoped
                    => BlanksOf(data') \cap seen = {}
<1>1. Init => SeenInv
  BY DEF Init, SeenInv
<1>2. SeenInv /\ [Next]_vars => SeenInv'
  BY SeenStays
<1>3. ASSUME SeenInv, Next PROVE Fresh
  <2>1. ASSUME NEW d \in Documents, NEW a \in BOOLEAN, Call(d, a) PROVE Fresh
    <3>1. sent' = d
      BY <2>1 DEF Call
    <3> QED BY <1>3, <2>1, <3>1, CallTakesFreshScope
  <2>2. ASSUME NEW d \in Documents, Reject(d) PROVE Fresh
    BY <2>2 DEF Reject
  <2>3. CASE Command \/ Restart
    BY <2>3 DEF Command, Map, Walk, Execute, Fail, ExecuteAll, FailAll,
                Finish, InCall, Restart
  <2> QED BY <1>3, <2>1, <2>2, <2>3 DEF Next
<1>4. SeenInv /\ [Next]_vars => [Fresh]_vars
  BY <1>3
<1> QED BY <1>1, <1>2, <1>4, PTL DEF Spec, ScopesAreNotReused
-----------------------------------------------------------------------------
(* Counting statements needs a finite plan, and the data is finite because *)
(* documents are. *)
LEMMA ImageIsFinite ==
  ASSUME NEW f, NEW S, IsFiniteSet(S)
  PROVE  IsFiniteSet({f[x] : x \in S})
<1> DEFINE T == {f[x] : x \in S}
           g == [x \in S |-> f[x]]
<1>1. g \in Surjection(S, T)
  BY DEF Surjection
<1> QED BY <1>1, FS_Surjection DEF ExistsSurjection

LEMMA SubjectsAreFinite ==
  ASSUME NEW d, IsFiniteSet(DOMAIN d)
  PROVE  IsFiniteSet(Subjects(d))
<1> DEFINE subject == [k \in DOMAIN d |-> d[k].s]
           object == [k \in DOMAIN d |-> d[k].o]
           owner == [b \in Lists(d) |-> Heads(d)[b].s]
           objects == {object[k] : k \in DOMAIN d}
<1>1. Remaining(d) \subseteq DOMAIN d
  BY DEF Remaining
<1>2. Lists(d) \subseteq objects
  BY DEF Lists, Heads
<1>3. Subjects(d) = {subject[k] : k \in Remaining(d)}
                    \cup {owner[b] : b \in Lists(d)}
  BY <1>1 DEF Subjects, SubjectsOfTriples
<1> HIDE DEF subject, object, owner
<1>4. IsFiniteSet(Remaining(d))
  BY <1>1, FS_Subset
<1>5. IsFiniteSet(objects)
  BY ImageIsFinite
<1>6. IsFiniteSet(Lists(d))
  <2> HIDE DEF objects
  <2> QED BY <1>2, <1>5, FS_Subset
<1>7. IsFiniteSet({subject[k] : k \in Remaining(d)})
  BY <1>4, ImageIsFinite
<1>8. IsFiniteSet({owner[b] : b \in Lists(d)})
  BY <1>6, ImageIsFinite
<1> QED BY <1>3, <1>7, <1>8, FS_Union

(* Where the command is, and what that says of its counts. *)
CountInv ==
    /\ IsFiniteSet(Subjects(data))
    /\ executed \in Nat /\ errors \in Nat
    /\ phase = "mapping" => executed = 0 /\ errors = 0
    /\ phase = "executing" /\ ~atomic
         => /\ IsFiniteSet(DOMAIN plan)
            /\ executed + errors + Cardinality(DOMAIN plan)
                 = Cardinality(Subjects(data))
    /\ phase = "executing" /\ atomic
         => \/ DOMAIN plan = Subjects(data) /\ executed = 0 /\ errors = 0
            \/ /\ plan = Empty
               /\ \/ executed = Cardinality(Subjects(data)) /\ errors = 0
                  \/ executed = 0 /\ errors = 1

IInv == CountInv /\ RepliesAddUp

LEMMA CallCounts ==
  ASSUME IInv, NEW d \in Documents, NEW a \in BOOLEAN, Call(d, a)
  PROVE  IInv'
<1>1. /\ data' = Parsed(d, counter) /\ executed' = 0 /\ errors' = 0
      /\ phase = "idle"
      /\ \/ data' = << >> /\ phase' = phase
         \/ phase' = "mapping"
  BY DEF Call, Begin
<1>2. DOMAIN data' = 1 .. Len(d.triples) /\ Len(d.triples) \in Nat
  BY <1>1, DocumentsAssumption DEF Parsed
<1>3. IsFiniteSet(DOMAIN data')
  BY <1>2, FS_Interval
<1>4. IsFiniteSet(Subjects(data'))
  BY <1>3, SubjectsAreFinite
<1>5. IsFiniteSet(Subjects(data)')
  BY <1>4
<1> QED BY <1>1, <1>5 DEF IInv, CountInv, RepliesAddUp

LEMMA MapCounts ==
  ASSUME IInv, Map
  PROVE  IInv'
<1>1. /\ phase = "mapping" /\ phase' = "executing"
      /\ UNCHANGED <<data, atomic, executed, errors, reply>>
  BY DEF Map
<1>2. DOMAIN plan' = Subjects(data)
  BY DEF Map, Batches
<1>3. Cardinality(Subjects(data)) \in Nat
  BY FS_CardinalityType DEF IInv, CountInv
<1>4. /\ IsFiniteSet(DOMAIN plan')
      /\ executed' + errors' + Cardinality(DOMAIN plan')
           = Cardinality(Subjects(data'))
      /\ executed' = 0 /\ errors' = 0 /\ DOMAIN plan' = Subjects(data')
      /\ IsFiniteSet(Subjects(data'))
  BY <1>1, <1>2, <1>3 DEF IInv, CountInv
<1> QED BY <1>1, <1>4 DEF IInv, CountInv, RepliesAddUp

LEMMA StatementCounts ==
  ASSUME IInv, NEW s, Execute(s) \/ Fail(s)
  PROVE  IInv'
<1>1. /\ phase = "executing" /\ ~atomic /\ s \in DOMAIN plan
      /\ UNCHANGED <<data, phase, atomic, reply>>
  BY DEF Execute, Fail, InCall
<1>2. DOMAIN plan' = DOMAIN plan \ {s}
  BY DEF Execute, Fail, Restrict
<1>3. \/ executed' = executed + 1 /\ errors' = errors
      \/ executed' = executed /\ errors' = errors + 1
  BY DEF Execute, Fail
<1>4. /\ IsFiniteSet(DOMAIN plan)
      /\ executed + errors + Cardinality(DOMAIN plan)
           = Cardinality(Subjects(data))
      /\ executed \in Nat /\ errors \in Nat
  BY <1>1 DEF IInv, CountInv
<1>5. /\ IsFiniteSet(DOMAIN plan')
      /\ Cardinality(DOMAIN plan') = Cardinality(DOMAIN plan) - 1
      /\ Cardinality(DOMAIN plan) \in Nat
  BY <1>1, <1>2, <1>4, FS_RemoveElement, FS_CardinalityType
<1>6. /\ executed' + errors' + Cardinality(DOMAIN plan')
           = Cardinality(Subjects(data))
      /\ executed' \in Nat /\ errors' \in Nat
  BY <1>3, <1>4, <1>5
<1> QED BY <1>1, <1>5, <1>6 DEF IInv, CountInv, RepliesAddUp

LEMMA FinishCounts ==
  ASSUME IInv, Finish
  PROVE  IInv'
<1>1. /\ phase = "executing" /\ phase' = "idle"
      /\ plan = Empty /\ DOMAIN plan = {}
      /\ UNCHANGED <<data, atomic, executed, errors>>
      /\ reply'.executed = executed /\ reply'.errors = errors
  BY DEF Finish, Answer, Empty
<1>2. Cardinality({}) = 0
  BY FS_EmptySet
<1>3. CASE atomic
  <2>1. \/ executed = Cardinality(Subjects(data)) /\ errors = 0
        \/ executed = 0 /\ errors = 1
    BY <1>1, <1>2, <1>3 DEF IInv, CountInv
  <2> QED BY <1>1, <1>3, <2>1 DEF IInv, CountInv, RepliesAddUp
<1>4. CASE ~atomic
  <2>1. executed + errors + 0 = Cardinality(Subjects(data))
    BY <1>1, <1>2, <1>4 DEF IInv, CountInv
  <2>2. executed \in Nat /\ errors \in Nat
    BY DEF IInv, CountInv
  <2> QED BY <1>1, <1>4, <2>1, <2>2 DEF IInv, CountInv, RepliesAddUp
<1> QED BY <1>3, <1>4

LEMMA OthersCount ==
  ASSUME IInv, \/ \E d \in Documents : Reject(d)
               \/ Walk \/ ExecuteAll \/ FailAll \/ Restart
  PROVE  IInv'
<1>1. CASE \E d \in Documents : Reject(d)
  <2>1. PICK d \in Documents : Reject(d)
    BY <1>1
  <2>2. reply'.status = "parse error"
    BY <2>1 DEF Reject, Answer
  <2>3. phase = "idle" /\ UNCHANGED <<data, phase, atomic, plan, executed, errors>>
    BY <2>1 DEF Reject, Begin
  <2> QED BY <2>2, <2>3 DEF IInv, CountInv, RepliesAddUp
<1>2. CASE Walk \/ Restart
  BY <1>2 DEF Walk, Restart, IInv, CountInv, RepliesAddUp
<1>3. CASE ExecuteAll
  <2>1. /\ phase = "executing" /\ atomic /\ plan # Empty /\ plan' = Empty
        /\ executed' = Cardinality(DOMAIN plan)
        /\ UNCHANGED <<data, phase, atomic, reply, errors>>
    BY <1>3 DEF ExecuteAll, InCall
  <2>2. DOMAIN plan = Subjects(data) /\ errors = 0
    BY <2>1 DEF IInv, CountInv
  <2>3. Cardinality(Subjects(data)) \in Nat
    BY FS_CardinalityType DEF IInv, CountInv
  <2> QED BY <2>1, <2>2, <2>3 DEF IInv, CountInv, RepliesAddUp
<1>4. CASE FailAll
  BY <1>4 DEF FailAll, InCall, Empty, IInv, CountInv, RepliesAddUp
<1> QED BY <1>1, <1>2, <1>3, <1>4

(* Every statement of an answered insert is accounted for.                 *)
THEOREM CountsAreExact == Spec => []RepliesAddUp
<1>1. Init => IInv
  <2> SUFFICES ASSUME Init PROVE IInv
    OBVIOUS
  <2>1. IsFiniteSet(DOMAIN data)
    BY FS_EmptySet DEF Init
  <2>2. IsFiniteSet(Subjects(data))
    BY <2>1, SubjectsAreFinite
  <2>3. data = << >> /\ phase = "idle" /\ executed = 0 /\ errors = 0
    BY DEF Init
  <2> QED BY <2>2, <2>3 DEF IInv, CountInv, RepliesAddUp
<1>2. IInv /\ [Next]_vars => IInv'
  <2>1. ASSUME IInv, Next PROVE IInv'
    BY <2>1, CallCounts, MapCounts, StatementCounts, FinishCounts, OthersCount
       DEF Next, Command
  <2>2. IInv /\ UNCHANGED vars => IInv'
    BY DEF vars, IInv, CountInv, RepliesAddUp
  <2> QED BY <2>1, <2>2
<1>3. IInv => RepliesAddUp
  BY DEF IInv
<1> QED BY <1>1, <1>2, <1>3, PTL DEF Spec
-----------------------------------------------------------------------------
(* What statements leave in the graph *)

(* All that statement h makes is in graph g.                               *)
Holds(g, h) ==
    /\ h.nodes \subseteq g.nodes /\ h.labels \subseteq g.labels /\ h.edges \subseteq g.edges
    /\ \A k \in DOMAIN h.props : k \in DOMAIN g.props /\ g.props[k] = h.props[k]

HoldsAll(g, batch) == \A s \in DOMAIN batch : Holds(g, batch[s])

IsGraph(g) ==
    /\ g = [nodes |-> g.nodes, labels |-> g.labels, edges |-> g.edges, props |-> g.props]
    /\ g.props = [k \in DOMAIN g.props |-> g.props[k]]

(* A statement sets properties of its own subject only.                    *)
OwnProps(p) == \A s \in DOMAIN p : \A k \in DOMAIN p[s].props : k[1] = s

LEMMA BatchParts ==
  ASSUME NEW d, NEW batch \in Batches(d)
  PROVE  /\ DOMAIN batch = Subjects(d)
         /\ OwnProps(batch)
         /\ \E arrays \in ArrayChoices(d) :
              batch = [s \in Subjects(d) |-> SubjectGraph(d, s, arrays)]
<1>1. PICK arrays \in ArrayChoices(d) :
        batch = [s \in Subjects(d) |-> SubjectGraph(d, s, arrays)]
  BY DEF Batches
<1>2. \A s \in Subjects(d) : \A k \in DOMAIN SubjectGraph(d, s, arrays).props : k[1] = s
  BY SubjectGraphIsClosed
<1> QED BY <1>1, <1>2 DEF OwnProps

(* Which of two lists of one name is written last changes only what is     *)
(* written, not where.                                                     *)
LEMMA BatchesWriteTheSame ==
  ASSUME NEW d, NEW b1 \in Batches(d), NEW b2 \in Batches(d), NEW s \in Subjects(d)
  PROVE  /\ b1[s].nodes = b2[s].nodes /\ b1[s].labels = b2[s].labels
         /\ b1[s].edges = b2[s].edges /\ DOMAIN b1[s].props = DOMAIN b2[s].props
<1>1. PICK f1 \in ArrayChoices(d) : b1 = [x \in Subjects(d) |-> SubjectGraph(d, x, f1)]
  BY BatchParts
<1>2. PICK f2 \in ArrayChoices(d) : b2 = [x \in Subjects(d) |-> SubjectGraph(d, x, f2)]
  BY BatchParts
<1>3. DOMAIN f1 = DOMAIN f2
  BY DEF ArrayChoices
<1>4. DOMAIN SubjectProps(d, s, f1) = DOMAIN SubjectProps(d, s, f2)
  BY <1>3 DEF SubjectProps, Override
<1>5. b1[s] = SubjectGraph(d, s, f1) /\ b2[s] = SubjectGraph(d, s, f2)
  BY <1>1, <1>2
<1> QED BY <1>4, <1>5 DEF SubjectGraph

LEMMA ApplyParts ==
  ASSUME NEW g, NEW h, NEW r, r = Apply(g, h)
  PROVE  /\ r.nodes = g.nodes \cup h.nodes /\ r.labels = g.labels \cup h.labels
         /\ r.edges = g.edges \cup h.edges
         /\ r.props = [k \in DOMAIN g.props \cup DOMAIN h.props |->
                         IF k \in DOMAIN h.props THEN h.props[k] ELSE g.props[k]]
         /\ IsGraph(r)
<1>1. /\ r.nodes = g.nodes \cup h.nodes /\ r.labels = g.labels \cup h.labels
      /\ r.edges = g.edges \cup h.edges
      /\ r.props = [k \in DOMAIN g.props \cup DOMAIN h.props |->
                      IF k \in DOMAIN h.props THEN h.props[k] ELSE g.props[k]]
      /\ r = [nodes |-> r.nodes, labels |-> r.labels, edges |-> r.edges, props |-> r.props]
  BY DEF Apply, Union, Override
<1>2. r.props = [k \in DOMAIN r.props |-> r.props[k]]
  BY <1>1
<1> QED BY <1>1, <1>2 DEF IsGraph

LEMMA ApplyHolds ==
  ASSUME NEW g, NEW h, NEW i,
         i = h \/ (Holds(g, i) /\ \A k \in DOMAIN i.props : k \notin DOMAIN h.props)
  PROVE  Holds(Apply(g, h), i)
<1> DEFINE r == Apply(g, h)
<1>1. /\ r.nodes = g.nodes \cup h.nodes /\ r.labels = g.labels \cup h.labels
      /\ r.edges = g.edges \cup h.edges
      /\ r.props = [k \in DOMAIN g.props \cup DOMAIN h.props |->
                      IF k \in DOMAIN h.props THEN h.props[k] ELSE g.props[k]]
  BY ApplyParts
<1> HIDE DEF r
<1>2. CASE i = h
  BY <1>1, <1>2 DEF Holds, r
<1>3. CASE Holds(g, i) /\ \A k \in DOMAIN i.props : k \notin DOMAIN h.props
  BY <1>1, <1>3 DEF Holds, r
<1> QED BY <1>2, <1>3

LEMMA ApplyAllParts ==
  ASSUME NEW g, NEW p, NEW r, r = ApplyAll(g, p)
  PROVE  /\ r.nodes = g.nodes \cup UNION {p[s].nodes : s \in DOMAIN p}
         /\ r.labels = g.labels \cup UNION {p[s].labels : s \in DOMAIN p}
         /\ r.edges = g.edges \cup UNION {p[s].edges : s \in DOMAIN p}
         /\ r.props = [k \in DOMAIN g.props \cup UNION {DOMAIN p[s].props : s \in DOMAIN p} |->
                        IF k \in UNION {DOMAIN p[s].props : s \in DOMAIN p}
                        THEN p[k[1]].props[k] ELSE g.props[k]]
         /\ IsGraph(r)
<1>1. /\ r.nodes = g.nodes \cup UNION {p[s].nodes : s \in DOMAIN p}
      /\ r.labels = g.labels \cup UNION {p[s].labels : s \in DOMAIN p}
      /\ r.edges = g.edges \cup UNION {p[s].edges : s \in DOMAIN p}
      /\ r.props = [k \in DOMAIN g.props \cup UNION {DOMAIN p[s].props : s \in DOMAIN p} |->
                      IF k \in UNION {DOMAIN p[s].props : s \in DOMAIN p}
                      THEN p[k[1]].props[k] ELSE g.props[k]]
      /\ r = [nodes |-> r.nodes, labels |-> r.labels, edges |-> r.edges, props |-> r.props]
  BY DEF ApplyAll
<1>2. r.props = [k \in DOMAIN r.props |-> r.props[k]]
  BY <1>1
<1> QED BY <1>1, <1>2 DEF IsGraph

LEMMA ApplyAllHolds ==
  ASSUME NEW g, NEW p, OwnProps(p), NEW i,
         Holds(g, i) \/ (\E s \in DOMAIN p : i = p[s]),
         \A s \in DOMAIN p : i = p[s] \/ \A k \in DOMAIN i.props : k \notin DOMAIN p[s].props
  PROVE  Holds(ApplyAll(g, p), i)
<1> DEFINE r == ApplyAll(g, p)
           keys == UNION {DOMAIN p[s].props : s \in DOMAIN p}
<1>1. /\ r.nodes = g.nodes \cup UNION {p[s].nodes : s \in DOMAIN p}
      /\ r.labels = g.labels \cup UNION {p[s].labels : s \in DOMAIN p}
      /\ r.edges = g.edges \cup UNION {p[s].edges : s \in DOMAIN p}
      /\ r.props = [k \in DOMAIN g.props \cup keys |->
                      IF k \in keys THEN p[k[1]].props[k] ELSE g.props[k]]
  BY ApplyAllParts
<1> HIDE DEF r
<1>2. CASE \E s \in DOMAIN p : i = p[s]
  <2>1. PICK s \in DOMAIN p : i = p[s]
    BY <1>2
  <2>2. \A k \in DOMAIN i.props : k \in keys /\ k[1] = s
    BY <2>1 DEF OwnProps
  <2> HIDE DEF keys
  <2>3. \A k \in DOMAIN i.props : k \in DOMAIN r.props /\ r.props[k] = i.props[k]
    BY <2>1, <2>2, <1>1
  <2>4. i.nodes \subseteq r.nodes /\ i.labels \subseteq r.labels /\ i.edges \subseteq r.edges
    BY <2>1, <1>1
  <2> QED BY <2>3, <2>4 DEF Holds, r
<1>3. CASE ~ \E s \in DOMAIN p : i = p[s]
  <2>1. \A k \in DOMAIN i.props : k \notin keys
    BY <1>3
  <2> HIDE DEF keys
  <2>2. Holds(g, i)
    BY <1>3
  <2>3. \A k \in DOMAIN i.props : k \in DOMAIN r.props /\ r.props[k] = i.props[k]
    BY <2>1, <2>2, <1>1 DEF Holds
  <2>4. i.nodes \subseteq r.nodes /\ i.labels \subseteq r.labels /\ i.edges \subseteq r.edges
    BY <2>2, <1>1 DEF Holds
  <2> QED BY <2>3, <2>4 DEF Holds, r
<1> QED BY <1>2, <1>3

(* g is g0 with some of what the statements for d make, and nothing else.  *)
NodesOf(p) == UNION {p[s].nodes : s \in DOMAIN p}
LabelsOf(p) == UNION {p[s].labels : s \in DOMAIN p}
EdgesOf(p) == UNION {p[s].edges : s \in DOMAIN p}
KeysOf(p) == UNION {DOMAIN p[s].props : s \in DOMAIN p}

Grown(g0, g, d) ==
    \A batch \in Batches(d) :
        /\ g0.nodes \subseteq g.nodes /\ g.nodes \subseteq g0.nodes \cup NodesOf(batch)
        /\ g0.labels \subseteq g.labels /\ g.labels \subseteq g0.labels \cup LabelsOf(batch)
        /\ g0.edges \subseteq g.edges /\ g.edges \subseteq g0.edges \cup EdgesOf(batch)
        /\ DOMAIN g0.props \subseteq DOMAIN g.props
        /\ DOMAIN g.props \subseteq DOMAIN g0.props \cup KeysOf(batch)
        /\ \A k \in DOMAIN g0.props : k \notin KeysOf(batch) => g.props[k] = g0.props[k]

LEMMA NothingGrown == ASSUME NEW g, NEW d PROVE Grown(g, g, d)
BY DEF Grown

(* One statement of one batch is within every batch.                       *)
LEMMA StatementWithin ==
  ASSUME NEW d, NEW b1 \in Batches(d), NEW b2 \in Batches(d), NEW s \in Subjects(d)
  PROVE  /\ b1[s].nodes \subseteq NodesOf(b2) /\ b1[s].labels \subseteq LabelsOf(b2)
         /\ b1[s].edges \subseteq EdgesOf(b2) /\ DOMAIN b1[s].props \subseteq KeysOf(b2)
<1>1. /\ b1[s].nodes = b2[s].nodes /\ b1[s].labels = b2[s].labels
      /\ b1[s].edges = b2[s].edges /\ DOMAIN b1[s].props = DOMAIN b2[s].props
  BY BatchesWriteTheSame
<1>2. s \in DOMAIN b2
  BY BatchParts
<1> QED BY <1>1, <1>2 DEF NodesOf, LabelsOf, EdgesOf, KeysOf

LEMMA GrownByOne ==
  ASSUME NEW g0, NEW g, NEW d, Grown(g0, g, d), NEW b \in Batches(d), NEW s \in Subjects(d)
  PROVE  Grown(g0, Apply(g, b[s]), d)
<1> DEFINE r == Apply(g, b[s])
<1>1. /\ r.nodes = g.nodes \cup b[s].nodes /\ r.labels = g.labels \cup b[s].labels
      /\ r.edges = g.edges \cup b[s].edges
      /\ r.props = [k \in DOMAIN g.props \cup DOMAIN b[s].props |->
                      IF k \in DOMAIN b[s].props THEN b[s].props[k] ELSE g.props[k]]
  <2>1. PICK h : h = b[s]
    OBVIOUS
  <2>2. PICK q : q = Apply(g, h)
    OBVIOUS
  <2>3. /\ q.nodes = g.nodes \cup h.nodes /\ q.labels = g.labels \cup h.labels
        /\ q.edges = g.edges \cup h.edges
        /\ q.props = [k \in DOMAIN g.props \cup DOMAIN h.props |->
                        IF k \in DOMAIN h.props THEN h.props[k] ELSE g.props[k]]
    BY <2>2, ApplyParts
  <2>4. q = r
    BY <2>1, <2>2
  <2> HIDE DEF r
  <2> QED BY <2>1, <2>3, <2>4
<1> HIDE DEF r
<1>2. SUFFICES ASSUME NEW batch \in Batches(d)
      PROVE  /\ g0.nodes \subseteq r.nodes /\ r.nodes \subseteq g0.nodes \cup NodesOf(batch)
             /\ g0.labels \subseteq r.labels
             /\ r.labels \subseteq g0.labels \cup LabelsOf(batch)
             /\ g0.edges \subseteq r.edges /\ r.edges \subseteq g0.edges \cup EdgesOf(batch)
             /\ DOMAIN g0.props \subseteq DOMAIN r.props
             /\ DOMAIN r.props \subseteq DOMAIN g0.props \cup KeysOf(batch)
             /\ \A k \in DOMAIN g0.props : k \notin KeysOf(batch) => r.props[k] = g0.props[k]
  BY DEF Grown, r
<1>3. /\ b[s].nodes \subseteq NodesOf(batch) /\ b[s].labels \subseteq LabelsOf(batch)
      /\ b[s].edges \subseteq EdgesOf(batch) /\ DOMAIN b[s].props \subseteq KeysOf(batch)
  BY StatementWithin
<1>4. /\ g0.nodes \subseteq g.nodes /\ g.nodes \subseteq g0.nodes \cup NodesOf(batch)
      /\ g0.labels \subseteq g.labels /\ g.labels \subseteq g0.labels \cup LabelsOf(batch)
      /\ g0.edges \subseteq g.edges /\ g.edges \subseteq g0.edges \cup EdgesOf(batch)
      /\ DOMAIN g0.props \subseteq DOMAIN g.props
      /\ DOMAIN g.props \subseteq DOMAIN g0.props \cup KeysOf(batch)
      /\ \A k \in DOMAIN g0.props : k \notin KeysOf(batch) => g.props[k] = g0.props[k]
  BY DEF Grown
<1>5. DOMAIN r.props = DOMAIN g.props \cup DOMAIN b[s].props
  BY <1>1
<1>6. \A k \in DOMAIN g0.props : k \notin KeysOf(batch) => r.props[k] = g0.props[k]
  BY <1>1, <1>3, <1>4
<1> QED BY <1>1, <1>3, <1>4, <1>5, <1>6

LEMMA GrownByAll ==
  ASSUME NEW g0, NEW g, NEW d, Grown(g0, g, d), NEW b \in Batches(d), NEW p,
         DOMAIN p \subseteq Subjects(d), \A s \in DOMAIN p : p[s] = b[s]
  PROVE  Grown(g0, ApplyAll(g, p), d)
<1> DEFINE r == ApplyAll(g, p)
<1>1. /\ r.nodes = g.nodes \cup NodesOf(p) /\ r.labels = g.labels \cup LabelsOf(p)
      /\ r.edges = g.edges \cup EdgesOf(p)
      /\ r.props = [k \in DOMAIN g.props \cup KeysOf(p) |->
                      IF k \in KeysOf(p) THEN p[k[1]].props[k] ELSE g.props[k]]
  BY ApplyAllParts DEF NodesOf, LabelsOf, EdgesOf, KeysOf
<1> HIDE DEF r
<1>2. SUFFICES ASSUME NEW batch \in Batches(d)
      PROVE  /\ g0.nodes \subseteq r.nodes /\ r.nodes \subseteq g0.nodes \cup NodesOf(batch)
             /\ g0.labels \subseteq r.labels
             /\ r.labels \subseteq g0.labels \cup LabelsOf(batch)
             /\ g0.edges \subseteq r.edges /\ r.edges \subseteq g0.edges \cup EdgesOf(batch)
             /\ DOMAIN g0.props \subseteq DOMAIN r.props
             /\ DOMAIN r.props \subseteq DOMAIN g0.props \cup KeysOf(batch)
             /\ \A k \in DOMAIN g0.props : k \notin KeysOf(batch) => r.props[k] = g0.props[k]
  BY DEF Grown, r
<1>3. /\ NodesOf(p) \subseteq NodesOf(batch) /\ LabelsOf(p) \subseteq LabelsOf(batch)
      /\ EdgesOf(p) \subseteq EdgesOf(batch) /\ KeysOf(p) \subseteq KeysOf(batch)
  <2>1. \A s \in DOMAIN p :
          /\ p[s].nodes \subseteq NodesOf(batch) /\ p[s].labels \subseteq LabelsOf(batch)
          /\ p[s].edges \subseteq EdgesOf(batch) /\ DOMAIN p[s].props \subseteq KeysOf(batch)
    BY StatementWithin
  <2>2. NodesOf(p) \subseteq NodesOf(batch)
    <3> DEFINE of == NodesOf(batch)
    <3>1. \A s \in DOMAIN p : p[s].nodes \subseteq of
      BY <2>1
    <3> HIDE DEF of
    <3>2. NodesOf(p) \subseteq of
      BY <3>1 DEF NodesOf
    <3> QED BY <3>2 DEF of
  <2>3. LabelsOf(p) \subseteq LabelsOf(batch)
    <3> DEFINE of == LabelsOf(batch)
    <3>1. \A s \in DOMAIN p : p[s].labels \subseteq of
      BY <2>1
    <3> HIDE DEF of
    <3>2. LabelsOf(p) \subseteq of
      BY <3>1 DEF LabelsOf
    <3> QED BY <3>2 DEF of
  <2>4. EdgesOf(p) \subseteq EdgesOf(batch)
    <3> DEFINE of == EdgesOf(batch)
    <3>1. \A s \in DOMAIN p : p[s].edges \subseteq of
      BY <2>1
    <3> HIDE DEF of
    <3>2. EdgesOf(p) \subseteq of
      BY <3>1 DEF EdgesOf
    <3> QED BY <3>2 DEF of
  <2>5. KeysOf(p) \subseteq KeysOf(batch)
    <3> DEFINE of == KeysOf(batch)
    <3>1. \A s \in DOMAIN p : DOMAIN p[s].props \subseteq of
      BY <2>1
    <3> HIDE DEF of
    <3>2. KeysOf(p) \subseteq of
      BY <3>1 DEF KeysOf
    <3> QED BY <3>2 DEF of
  <2> QED BY <2>2, <2>3, <2>4, <2>5
<1>4. /\ g0.nodes \subseteq g.nodes /\ g.nodes \subseteq g0.nodes \cup NodesOf(batch)
      /\ g0.labels \subseteq g.labels /\ g.labels \subseteq g0.labels \cup LabelsOf(batch)
      /\ g0.edges \subseteq g.edges /\ g.edges \subseteq g0.edges \cup EdgesOf(batch)
      /\ DOMAIN g0.props \subseteq DOMAIN g.props
      /\ DOMAIN g.props \subseteq DOMAIN g0.props \cup KeysOf(batch)
      /\ \A k \in DOMAIN g0.props : k \notin KeysOf(batch) => g.props[k] = g0.props[k]
  BY DEF Grown
<1>5. DOMAIN r.props = DOMAIN g.props \cup KeysOf(p)
  BY <1>1
<1>6. \A k \in DOMAIN g0.props : k \notin KeysOf(batch) => r.props[k] = g0.props[k]
  BY <1>1, <1>3, <1>4
<1> QED BY <1>1, <1>3, <1>4, <1>5, <1>6

LEMMA GrownToTheEnd ==
  ASSUME NEW g0, NEW g, NEW d, IsGraph(g), Grown(g0, g, d),
         NEW b \in Batches(d), HoldsAll(g, b)
  PROVE  g = ApplyAll(g0, b)
<1> DEFINE r == ApplyAll(g0, b)
<1>1. /\ r.nodes = g0.nodes \cup NodesOf(b) /\ r.labels = g0.labels \cup LabelsOf(b)
      /\ r.edges = g0.edges \cup EdgesOf(b)
      /\ r.props = [k \in DOMAIN g0.props \cup KeysOf(b) |->
                      IF k \in KeysOf(b) THEN b[k[1]].props[k] ELSE g0.props[k]]
      /\ IsGraph(r)
  BY ApplyAllParts DEF NodesOf, LabelsOf, EdgesOf, KeysOf
<1> HIDE DEF r
<1>2. /\ g0.nodes \subseteq g.nodes /\ g.nodes \subseteq g0.nodes \cup NodesOf(b)
      /\ g0.labels \subseteq g.labels /\ g.labels \subseteq g0.labels \cup LabelsOf(b)
      /\ g0.edges \subseteq g.edges /\ g.edges \subseteq g0.edges \cup EdgesOf(b)
      /\ DOMAIN g0.props \subseteq DOMAIN g.props
      /\ DOMAIN g.props \subseteq DOMAIN g0.props \cup KeysOf(b)
      /\ \A k \in DOMAIN g0.props : k \notin KeysOf(b) => g.props[k] = g0.props[k]
  BY DEF Grown
<1>3. NodesOf(b) \subseteq g.nodes /\ LabelsOf(b) \subseteq g.labels /\ EdgesOf(b) \subseteq g.edges
  BY DEF HoldsAll, Holds, NodesOf, LabelsOf, EdgesOf
<1>4. \A k \in KeysOf(b) : k \in DOMAIN g.props /\ g.props[k] = b[k[1]].props[k]
  <2>1. SUFFICES ASSUME NEW s \in DOMAIN b, NEW k \in DOMAIN b[s].props
                 PROVE  k \in DOMAIN g.props /\ g.props[k] = b[k[1]].props[k]
    BY DEF KeysOf
  <2>2. k[1] = s
    BY BatchParts DEF OwnProps
  <2>3. Holds(g, b[s])
    BY DEF HoldsAll
  <2> QED BY <2>2, <2>3 DEF Holds
<1>5. g.nodes = r.nodes /\ g.labels = r.labels /\ g.edges = r.edges
  BY <1>1, <1>2, <1>3
<1>6. g.props = r.props
  <2>1. DOMAIN g.props = DOMAIN r.props
    BY <1>1, <1>2, <1>4
  <2>2. \A k \in DOMAIN r.props : r.props[k] = g.props[k]
    BY <1>1, <1>2, <1>4
  <2>3. /\ g.props = [k \in DOMAIN g.props |-> g.props[k]]
        /\ r.props = [k \in DOMAIN r.props |-> r.props[k]]
    BY <1>1 DEF IsGraph
  <2> DEFINE f == g.props
             h == r.props
  <2>4. DOMAIN f = DOMAIN h /\ \A k \in DOMAIN h : h[k] = f[k]
    BY <2>1, <2>2
  <2>5. f = [k \in DOMAIN f |-> f[k]] /\ h = [k \in DOMAIN h |-> h[k]]
    BY <2>3
  <2> HIDE DEF f, h
  <2>6. f = h
    BY <2>4, <2>5
  <2> QED BY <2>6 DEF f, h
<1> QED BY <1>1, <1>5, <1>6 DEF IsGraph, r
-----------------------------------------------------------------------------
(* A document that was answered without an error is in the graph, and what *)
(* a retry finds there is from itself.                                     *)

RunInv ==
    /\ phase \in {"idle", "mapping", "executing"}
    /\ errors \in Nat /\ counter \in Nat
    /\ phase = "mapping" => errors = 0
    /\ IsGraph(graph) /\ IsGraph(origin)
    /\ sent = None => origin = graph /\ phase = "idle"
    /\ sent # None \/ data # << >> =>
         /\ sent \in Documents
         /\ \E n \in 0 .. MaxScopes - 1 : data = Parsed(sent, n)

(* What is left of the plan is of one batch, and without errors the rest   *)
(* of that batch is in the graph.                                          *)
PlanInv ==
    phase = "executing" =>
        \E batch \in Batches(data) :
            /\ DOMAIN plan \subseteq DOMAIN batch
            /\ \A s \in DOMAIN plan : plan[s] = batch[s]
            /\ errors = 0 => \A s \in DOMAIN batch \ DOMAIN plan : Holds(graph, batch[s])

AnswerInv ==
    phase = "idle" /\ data # << >> /\ errors = 0 =>
        \E batch \in Batches(data) : HoldsAll(graph, batch)

GrownInv == ScopedBlanks = {} => Grown(origin, graph, data)

KeptInv == RunInv /\ PlanInv /\ AnswerInv /\ GrownInv

(* A document without scoped blank nodes is parsed to the same triples     *)
(* whatever the scope.                                                     *)
LEMMA ParsedAnew ==
  ASSUME NEW d \in Documents, NEW m \in 0 .. MaxScopes - 1, NEW n \in 0 .. MaxScopes - 1,
         \A b \in BlanksOf(Parsed(d, m)) : b[1] = Raw
  PROVE  Parsed(d, n) = Parsed(d, m)
<1>1. CASE ~d.scoped
  BY <1>1 DEF Parsed, Node
<1>2. CASE d.scoped
  <2>1. ASSUME NEW k \in DOMAIN d.triples, NEW t \in {d.triples[k].s, d.triples[k].o}
        PROVE  t \notin Labels
    <3>1. SUFFICES ASSUME t \in Labels PROVE FALSE
      OBVIOUS
    <3>2. Node(d, m, t) = <<m, t>>
      BY <1>2, <3>1 DEF Node
    <3>3. <<m, t>> \in Blanks
      BY <3>1, DocumentsAssumption DEF Scopes
    <3>4. k \in DOMAIN Parsed(d, m) /\ <<m, t>> \in {Parsed(d, m)[k].s, Parsed(d, m)[k].o}
      BY <3>2 DEF Parsed
    <3>5. <<m, t>> \in BlanksOf(Parsed(d, m))
      BY <3>3, <3>4 DEF BlanksOf
    <3>6. m = Raw
      BY <3>5
    <3>7. m \in Nat
      OBVIOUS
    <3> QED BY <3>6, <3>7, DocumentsAssumption
  <2>2. \A k \in DOMAIN d.triples :
          /\ Node(d, n, d.triples[k].s) = Node(d, m, d.triples[k].s)
          /\ Node(d, n, d.triples[k].o) = Node(d, m, d.triples[k].o)
    BY <2>1 DEF Node
  <2> QED BY <2>2 DEF Parsed
<1> QED BY <1>1, <1>2

LEMMA CallKeeps ==
  ASSUME KeptInv, NEW d \in Documents, NEW a \in BOOLEAN, Call(d, a)
  PROVE  KeptInv'
<1>1. /\ phase = "idle" /\ sent' = d /\ data' = Parsed(d, counter) /\ errors' = 0
      /\ counter < MaxScopes /\ graph' = graph
      /\ origin' = IF d = sent THEN origin ELSE graph
      /\ (data' = << >> /\ phase' = "idle") \/ phase' = "mapping"
  BY DEF Call, Begin
<1>2. counter' \in Nat
  BY DocumentsAssumption DEF Call, Begin, TakeScope, KeptInv, RunInv
<1>3. counter \in 0 .. MaxScopes - 1
  BY <1>1, BoundsAssumption DEF KeptInv, RunInv
<1>4. PlanInv' /\ AnswerInv'
  BY <1>1 DEF PlanInv, AnswerInv
<1>5. RunInv'
  <2>1. IsGraph(graph)' /\ IsGraph(origin)'
    BY <1>1 DEF KeptInv, RunInv, IsGraph
  <2>2. (sent = None => origin = graph /\ phase = "idle")'
    BY <1>1, DocumentsAssumption DEF None
  <2>3. (\E n \in 0 .. MaxScopes - 1 : data = Parsed(sent, n))'
    BY <1>1, <1>3
  <2> QED BY <1>1, <1>2, <2>1, <2>2, <2>3 DEF RunInv
<1>6. GrownInv'
  <2>1. SUFFICES ASSUME ScopedBlanks' = {} PROVE Grown(origin', graph', data')
    BY DEF GrownInv
  <2>2. CASE d # sent \/ sent = None
    <3>1. origin' = graph'
      BY <1>1, <2>2 DEF KeptInv, RunInv
    <3> QED BY <3>1, NothingGrown
  <2>3. CASE d = sent /\ sent # None
    <3>1. PICK n \in 0 .. MaxScopes - 1 : data = Parsed(d, n)
      BY <2>3 DEF KeptInv, RunInv
    <3>2. \A b \in BlanksOf(Parsed(d, counter)) : b[1] = Raw
      BY <1>1, <2>1 DEF ScopedBlanks
    <3>3. data' = data
      BY <1>1, <1>3, <3>1, <3>2, ParsedAnew
    <3>4. ScopedBlanks = {}
      BY <2>1, <3>3 DEF ScopedBlanks
    <3>5. Grown(origin, graph, data)
      BY <3>4 DEF KeptInv, GrownInv
    <3> QED BY <1>1, <2>3, <3>3, <3>5
  <2> QED BY <2>2, <2>3
<1> QED BY <1>4, <1>5, <1>6 DEF KeptInv

(* Another statement is about another subject.                             *)
LEMMA OthersHold ==
  ASSUME NEW d, NEW batch \in Batches(d), NEW s \in DOMAIN batch, NEW u \in DOMAIN batch,
         s # u
  PROVE  \A k \in DOMAIN batch[s].props : k \notin DOMAIN batch[u].props
BY BatchParts DEF OwnProps

LEMMA ExecuteKeeps ==
  ASSUME KeptInv, NEW s, Execute(s)
  PROVE  KeptInv'
<1>1. /\ phase = "executing" /\ s \in DOMAIN plan /\ graph' = Apply(graph, plan[s])
      /\ plan' = Restrict(plan, DOMAIN plan \ {s})
      /\ UNCHANGED <<errors, counter, phase, sent, data, origin>>
  BY DEF Execute, InCall
<1>2. PICK batch \in Batches(data) :
        /\ DOMAIN plan \subseteq DOMAIN batch
        /\ \A x \in DOMAIN plan : plan[x] = batch[x]
        /\ errors = 0 => \A x \in DOMAIN batch \ DOMAIN plan : Holds(graph, batch[x])
  BY <1>1 DEF KeptInv, PlanInv
<1>3. /\ DOMAIN plan' = DOMAIN plan \ {s}
      /\ \A x \in DOMAIN plan' : plan'[x] = plan[x]
  BY <1>1 DEF Restrict
<1>4. graph' = Apply(graph, batch[s]) /\ s \in DOMAIN batch /\ DOMAIN batch = Subjects(data)
  BY <1>1, <1>2, BatchParts
<1>5. PlanInv'
  <2>1. ASSUME errors = 0, NEW x \in DOMAIN batch \ DOMAIN plan'
        PROVE  Holds(graph', batch[x])
    <3>1. CASE x = s
      BY <3>1, <1>4, ApplyHolds
    <3>2. CASE x # s
      <4>1. Holds(graph, batch[x])
        BY <1>2, <1>3, <2>1, <3>2
      <4>2. \A k \in DOMAIN batch[x].props : k \notin DOMAIN batch[s].props
        BY <1>4, <2>1, <3>2, OthersHold
      <4> QED BY <1>4, <4>1, <4>2, ApplyHolds
    <3> QED BY <3>1, <3>2
  <2>2. /\ DOMAIN plan' \subseteq DOMAIN batch
        /\ \A x \in DOMAIN plan' : plan'[x] = batch[x]
    BY <1>2, <1>3
  <2> QED BY <1>1, <2>1, <2>2 DEF PlanInv
<1>6. GrownInv'
  <2>1. SUFFICES ASSUME ScopedBlanks' = {} PROVE Grown(origin', graph', data')
    BY DEF GrownInv
  <2>2. ScopedBlanks = {}
    BY <1>1, <2>1 DEF ScopedBlanks
  <2>3. Grown(origin, graph, data)
    BY <2>2 DEF KeptInv, GrownInv
  <2>4. Grown(origin, Apply(graph, batch[s]), data)
    BY <1>4, <2>3, GrownByOne
  <2> QED BY <1>1, <1>4, <2>4
<1>7. RunInv'
  <2>1. IsGraph(graph')
    <3>1. PICK h : h = plan[s]
      OBVIOUS
    <3> QED BY <1>1, <3>1, ApplyParts
  <2> QED BY <1>1, <2>1 DEF KeptInv, RunInv
<1> QED BY <1>1, <1>5, <1>6, <1>7 DEF KeptInv, AnswerInv

LEMMA ExecuteAllKeeps ==
  ASSUME KeptInv, ExecuteAll
  PROVE  KeptInv'
<1>1. /\ phase = "executing" /\ graph' = ApplyAll(graph, plan) /\ plan' = Empty
      /\ UNCHANGED <<errors, counter, phase, sent, data, origin>>
  BY DEF ExecuteAll, InCall
<1>2. PICK batch \in Batches(data) :
        /\ DOMAIN plan \subseteq DOMAIN batch
        /\ \A x \in DOMAIN plan : plan[x] = batch[x]
        /\ errors = 0 => \A x \in DOMAIN batch \ DOMAIN plan : Holds(graph, batch[x])
  BY <1>1 DEF KeptInv, PlanInv
<1>3. DOMAIN plan' = {} /\ DOMAIN batch = Subjects(data)
  BY <1>1, BatchParts DEF Empty
<1>4. OwnProps(plan)
  BY <1>2, BatchParts DEF OwnProps
<1>5. PlanInv'
  <2>1. ASSUME errors = 0, NEW x \in DOMAIN batch
        PROVE  Holds(graph', batch[x])
    <3>1. Holds(graph, batch[x]) \/ \E u \in DOMAIN plan : batch[x] = plan[u]
      BY <1>2, <2>1
    <3>2. \A u \in DOMAIN plan :
             batch[x] = plan[u] \/ \A k \in DOMAIN batch[x].props : k \notin DOMAIN plan[u].props
      BY <1>2, <2>1, OthersHold
    <3> QED BY <1>1, <1>4, <3>1, <3>2, ApplyAllHolds
  <2> QED BY <1>1, <1>3, <2>1 DEF PlanInv
<1>6. GrownInv'
  <2>1. SUFFICES ASSUME ScopedBlanks' = {} PROVE Grown(origin', graph', data')
    BY DEF GrownInv
  <2>2. ScopedBlanks = {}
    BY <1>1, <2>1 DEF ScopedBlanks
  <2>3. Grown(origin, graph, data)
    BY <2>2 DEF KeptInv, GrownInv
  <2>4. Grown(origin, ApplyAll(graph, plan), data)
    BY <1>2, <1>3, <2>3, GrownByAll
  <2> QED BY <1>1, <2>4
<1>7. RunInv'
  <2>1. IsGraph(graph')
    BY <1>1, ApplyAllParts
  <2> QED BY <1>1, <2>1 DEF KeptInv, RunInv
<1> QED BY <1>1, <1>5, <1>6, <1>7 DEF KeptInv, AnswerInv

LEMMA GraphStaysKeeps ==
  ASSUME KeptInv, UNCHANGED <<graph, sent, data, origin>>,
         counter' \in Nat, errors' \in Nat, phase' \in {"idle", "mapping", "executing"},
         phase' = "mapping" => errors' = 0, sent = None => phase' = "idle"
  PROVE  RunInv' /\ GrownInv'
<1>1. RunInv'
  BY DEF KeptInv, RunInv
<1>2. GrownInv'
  BY DEF KeptInv, GrownInv, ScopedBlanks
<1> QED BY <1>1, <1>2

LEMMA OthersKeep ==
  ASSUME KeptInv, \/ \E d \in Documents : Reject(d)
                  \/ Map \/ Walk \/ FailAll \/ Finish \/ Restart
                  \/ \E s \in Terms : Fail(s)
  PROVE  KeptInv'
<1> USE DEF KeptInv, RunInv
<1>1. ASSUME NEW d \in Documents, Reject(d) PROVE KeptInv'
  <2>1. /\ UNCHANGED <<graph, sent, data, origin, phase, errors, plan>> /\ counter' \in Nat
    <3>1. UNCHANGED <<graph, sent, data, origin, phase, errors, plan>>
      BY <1>1 DEF Reject
    <3>2. counter' = counter + (IF d.scoped THEN 1 ELSE 0)
      BY <1>1 DEF Reject, Begin, TakeScope
    <3>3. counter' \in Nat
      BY <3>2
    <3> QED BY <3>1, <3>3
  <2>2. RunInv' /\ GrownInv'
    BY <2>1, GraphStaysKeeps
  <2>3. PlanInv' /\ AnswerInv'
    BY <2>1 DEF PlanInv, AnswerInv
  <2> QED BY <2>2, <2>3 DEF KeptInv
<1>2. CASE Map
  <2>1. /\ UNCHANGED <<graph, sent, data, origin, counter, errors>>
        /\ phase = "mapping" /\ phase' = "executing" /\ plan' \in Batches(data)
    BY <1>2 DEF Map
  <2>2. RunInv' /\ GrownInv'
    BY <2>1, GraphStaysKeeps
  <2>3. PlanInv' /\ AnswerInv'
    BY <2>1 DEF PlanInv, AnswerInv
  <2> QED BY <2>2, <2>3 DEF KeptInv
<1>3. CASE Walk \/ Restart
  <2>1. /\ UNCHANGED <<graph, sent, data, origin, phase, errors, plan>> /\ counter' \in Nat
    BY <1>3 DEF Walk, Restart
  <2>2. RunInv' /\ GrownInv'
    BY <2>1, GraphStaysKeeps
  <2>3. PlanInv' /\ AnswerInv'
    BY <2>1 DEF PlanInv, AnswerInv
  <2> QED BY <2>2, <2>3 DEF KeptInv
<1>4. CASE FailAll \/ \E s \in Terms : Fail(s)
  <2>1. /\ UNCHANGED <<graph, sent, data, origin, phase, counter>>
        /\ phase = "executing" /\ errors' \in Nat \ {0}
        /\ DOMAIN plan' \subseteq DOMAIN plan /\ \A x \in DOMAIN plan' : plan'[x] = plan[x]
    <3>1. CASE FailAll
      BY <3>1 DEF FailAll, InCall, Empty
    <3>2. ASSUME NEW s \in Terms, Fail(s)
          PROVE  /\ UNCHANGED <<graph, sent, data, origin, phase, counter>>
                 /\ phase = "executing" /\ errors' = errors + 1
                 /\ DOMAIN plan' \subseteq DOMAIN plan
                 /\ \A x \in DOMAIN plan' : plan'[x] = plan[x]
      BY <3>2 DEF Fail, InCall, Restrict
    <3> QED BY <1>4, <3>1, <3>2
  <2>2. RunInv' /\ GrownInv'
    BY <2>1, GraphStaysKeeps
  <2>3. PlanInv' /\ AnswerInv'
    BY <2>1 DEF PlanInv, AnswerInv
  <2> QED BY <2>2, <2>3 DEF KeptInv
<1>5. CASE Finish
  <2>1. /\ UNCHANGED <<graph, sent, data, origin, counter, errors, plan>>
        /\ phase = "executing" /\ phase' = "idle" /\ DOMAIN plan = {}
    BY <1>5 DEF Finish, Empty
  <2>2. RunInv' /\ GrownInv'
    BY <2>1, GraphStaysKeeps
  <2>3. PlanInv' /\ AnswerInv'
    BY <2>1 DEF PlanInv, AnswerInv, HoldsAll
  <2> QED BY <2>2, <2>3 DEF KeptInv
<1> QED BY <1>1, <1>2, <1>3, <1>4, <1>5

LEMMA KeptStarts == Init => KeptInv
<1> SUFFICES ASSUME Init PROVE KeptInv
  OBVIOUS
<1>1. IsGraph(EmptyGraph)
  BY DEF IsGraph, EmptyGraph, Empty
<1>2. /\ graph = EmptyGraph /\ origin = EmptyGraph /\ phase = "idle" /\ errors = 0 /\ counter = 0
      /\ sent = None /\ data = << >>
  BY DEF Init
<1>3. GrownInv
  BY <1>2, NothingGrown DEF GrownInv
<1> QED BY <1>1, <1>2, <1>3 DEF KeptInv, RunInv, PlanInv, AnswerInv

LEMMA KeptStep == KeptInv /\ [Next]_vars => KeptInv'
<1>1. ASSUME KeptInv, Next PROVE KeptInv'
  BY <1>1, CallKeeps, ExecuteKeeps, ExecuteAllKeeps, OthersKeep DEF Next, Command
<1>2. ASSUME KeptInv, UNCHANGED vars PROVE KeptInv'
  <2>1. UNCHANGED <<graph, sent, data, origin, phase, counter, errors, plan>>
    BY <1>2 DEF vars
  <2>2. RunInv' /\ GrownInv'
    BY <1>2, <2>1 DEF KeptInv, RunInv, GrownInv, ScopedBlanks
  <2>3. PlanInv' /\ AnswerInv'
    BY <1>2, <2>1 DEF KeptInv, PlanInv, AnswerInv
  <2> QED BY <2>2, <2>3 DEF KeptInv
<1> QED BY <1>1, <1>2

LEMMA KeptAlways == Spec => []KeptInv
BY KeptStarts, KeptStep, PTL DEF Spec

(* Whatever was lost in earlier tries, a document without blank nodes of   *)
(* its own that was at last answered without an error has made of the      *)
(* graph what one undisturbed insert would have.                           *)
THEOREM RetriesComplete == Spec => []RetryCompletes
<1>1. ASSUME KeptInv PROVE RetryCompletes
  <2>1. SUFFICES ASSUME Succeeded, ScopedBlanks = {}
                 PROVE  \E batch \in Batches(data) : graph = ApplyAll(origin, batch)
    BY DEF RetryCompletes
  <2>2. PICK batch \in Batches(data) : HoldsAll(graph, batch)
    BY <1>1, <2>1 DEF KeptInv, AnswerInv, Succeeded
  <2>3. graph = ApplyAll(origin, batch)
    BY <1>1, <2>1, <2>2, GrownToTheEnd DEF KeptInv, RunInv, GrownInv
  <2> QED BY <2>3
<1>2. KeptInv => RetryCompletes
  BY <1>1
<1> QED BY <1>2, KeptAlways, PTL
-----------------------------------------------------------------------------
(* Lists *)

(* A number with all smaller ones in it is in it: so are all.              *)
LEMMA SetInduction ==
  ASSUME NEW good, 0 \in good, \A n \in Nat : n \in good => n + 1 \in good
  PROVE  \A n \in Nat : n \in good
<1> DEFINE bad == {n \in Nat : n \notin good}
<1>1. SUFFICES ASSUME bad # {} PROVE FALSE
  OBVIOUS
<1>2. PICK n \in bad : \A i \in bad : ~(<<i, n>> \in OpToRel(<, Nat))
  <2>1. bad \subseteq Nat
    OBVIOUS
  <2> HIDE DEF bad
  <2> QED BY <1>1, <2>1, NatLessThanWellFounded, WFMin
<1>3. \A i \in bad : ~(i < n)
  BY <1>2 DEF OpToRel
<1>4. n \in Nat /\ n # 0 /\ n - 1 \in Nat /\ n - 1 < n /\ (n - 1) + 1 = n
  <2>1. n \in Nat /\ n # 0
    BY <1>2
  <2> HIDE DEF bad
  <2> QED BY <2>1
<1>5. n - 1 \notin good
  BY <1>2, <1>4
<1> QED BY <1>3, <1>4, <1>5

(* Positions of a document have a last one.                                *)
LEMMA LastPosition ==
  ASSUME NEW n \in Nat, NEW ks \in SUBSET (1 .. n), ks # {}
  PROVE  \E k \in ks : \A j \in ks : j <= k
<1> DEFINE good == {m \in Nat : (\E j \in ks : n - j <= m) =>
                                  \E k \in ks : \A j \in ks : j <= k}
<1>1. 0 \in good
  <2>1. ASSUME NEW j \in ks, n - j <= 0 PROVE \A i \in ks : i <= j
    BY <2>1
  <2> QED BY <2>1
<1>2. ASSUME NEW m \in Nat, m \in good PROVE m + 1 \in good
  <2>1. ASSUME NEW j \in ks, n - j <= m + 1 PROVE \E k \in ks : \A i \in ks : i <= k
    <3>1. CASE \E i \in ks : n - i <= m
      BY <1>2, <3>1
    <3>2. CASE ~ \E i \in ks : n - i <= m
      <4>1. \A i \in ks : i <= j
        <5>1. SUFFICES ASSUME NEW i \in ks PROVE i <= j
          OBVIOUS
        <5>2. i \in Nat /\ j \in Nat /\ ~(n - i <= m)
          BY <3>2
        <5> QED BY <2>1, <5>2
      <4> QED BY <4>1
    <3> QED BY <3>1, <3>2
  <2> QED BY <2>1
<1>3. \A m \in Nat : m \in good
  <2> HIDE DEF good
  <2> QED BY <1>1, <1>2, SetInduction
<1>4. n \in good
  BY <1>3
<1>5. \E j \in ks : n - j <= n
  <2>1. PICK j \in ks : TRUE
    OBVIOUS
  <2>2. j \in 1 .. n
    BY <2>1
  <2>3. n - j <= n
    BY <2>2
  <2> QED BY <2>1, <2>3
<1> QED BY <1>4, <1>5

(* Triples as they come out of a parser.                                   *)
IsData(d) ==
    /\ \E n \in Nat : DOMAIN d = 1 .. n
    /\ \A k \in DOMAIN d : /\ d[k].s \in Terms /\ d[k].p \in Predicates
                           /\ d[k].o \in Terms \cup Literals

LEMMA LastIn ==
  ASSUME NEW d, IsData(d), NEW ks \in SUBSET DOMAIN d, ks # {}
  PROVE  \E k \in ks : LastOf(d, ks) = d[k]
<1>1. \E k \in ks : \A j \in ks : j <= k
  BY LastPosition DEF IsData
<1> QED BY <1>1 DEF LastOf

(* The maps of the first pass hold what triples say.                       *)
LEMMA ObjectsSaid ==
  ASSUME NEW d, IsData(d), NEW p, NEW b
  PROVE  /\ b \in DOMAIN LastObjects(d, p) <=>
              b \in Blanks /\ \E k \in DOMAIN d : d[k].s = b /\ d[k].p = p
         /\ b \in DOMAIN LastObjects(d, p) =>
              \E k \in DOMAIN d : /\ d[k].s = b /\ d[k].p = p
                                  /\ d[k].o = LastObjects(d, p)[b]
<1> DEFINE at == {k \in DOMAIN d : d[k].s = b /\ d[k].p = p}
<1>1. b \in DOMAIN LastObjects(d, p) <=> b \in Blanks /\ at # {}
  BY DEF LastObjects
<1>2. b \in DOMAIN LastObjects(d, p) => LastObjects(d, p)[b] = LastOf(d, at).o
  BY DEF LastObjects
<1>3. at # {} => \E k \in at : LastOf(d, at) = d[k]
  <2>1. at \in SUBSET DOMAIN d
    OBVIOUS
  <2> HIDE DEF at
  <2> QED BY <2>1, LastIn
<1> QED BY <1>1, <1>2, <1>3

LEMMA HeadsSaid ==
  ASSUME NEW d, IsData(d), NEW b \in DOMAIN Heads(d)
  PROVE  /\ b \in Blanks
         /\ \E k \in DOMAIN d : /\ d[k].o = b /\ d[k].p \notin {RdfFirst, RdfRest}
                                /\ Heads(d)[b].s = d[k].s
                                /\ Heads(d)[b].name = LocalName[d[k].p]
<1> DEFINE at == {k \in DOMAIN d : d[k].o = b /\ d[k].p \notin {RdfFirst, RdfRest}}
           last == LastOf(d, at)
<1>1. b \in Blanks /\ at # {}
  BY DEF Heads
<1>2. Heads(d)[b] = [s |-> last.s, name |-> LocalName[last.p]]
  BY DEF Heads
<1>3. \E k \in at : last = d[k]
  <2>1. at \in SUBSET DOMAIN d
    OBVIOUS
  <2> HIDE DEF at
  <2> QED BY <1>1, <2>1, LastIn
<1> HIDE DEF last
<1> QED BY <1>1, <1>2, <1>3

(* The recursion of Cell has a solution.                                   *)
After(rest, c) == IF c \in DOMAIN rest THEN rest[c] ELSE c

CellsFrom(b, rest, f) ==
    f = [n \in Nat |-> IF n = 0 THEN b
                       ELSE LET c == f[n - 1] IN IF c \in DOMAIN rest THEN rest[c] ELSE c]

CellsUpTo(b, rest, m, f) ==
    f = [n \in 0 .. m |-> IF n = 0 THEN b ELSE After(rest, f[n - 1])]

LEMMA CellIsChosen ==
  ASSUME NEW d, NEW b
  PROVE  Cell(d, b) = CHOOSE f : CellsFrom(b, LastObjects(d, RdfRest), f)
BY DEF Cell, CellsFrom

OneWalk(b, rest, m) ==
    /\ \E f : CellsUpTo(b, rest, m, f)
    /\ \A f, g : CellsUpTo(b, rest, m, f) /\ CellsUpTo(b, rest, m, g) => f[m] = g[m]

LEMMA WalkPart ==
  ASSUME NEW b, NEW rest, NEW m \in Nat, NEW f, CellsUpTo(b, rest, m + 1, f)
  PROVE  /\ CellsUpTo(b, rest, m, [n \in 0 .. m |-> f[n]])
         /\ f[m + 1] = After(rest, f[m])
<1>1. /\ DOMAIN f = 0 .. m + 1
      /\ \A n \in 0 .. m + 1 : f[n] = IF n = 0 THEN b ELSE After(rest, f[n - 1])
  BY DEF CellsUpTo
<1>2. \A n \in 0 .. m : n \in 0 .. m + 1 /\ (n # 0 => n - 1 \in 0 .. m)
  OBVIOUS
<1> DEFINE g == [n \in 0 .. m |-> f[n]]
<1>3. \A n \in 0 .. m : g[n] = IF n = 0 THEN b ELSE After(rest, g[n - 1])
  BY <1>1, <1>2
<1>4. g = [n \in 0 .. m |-> IF n = 0 THEN b ELSE After(rest, g[n - 1])]
  <2>1. g = [n \in 0 .. m |-> g[n]]
    OBVIOUS
  <2> HIDE DEF g
  <2> QED BY <1>3, <2>1
<1>5. m + 1 \in 0 .. m + 1 /\ m + 1 # 0 /\ (m + 1) - 1 = m
  OBVIOUS
<1>6. f[m + 1] = After(rest, f[m])
  BY <1>1, <1>5
<1> QED BY <1>4, <1>6 DEF CellsUpTo

LEMMA WalksAreOne ==
  ASSUME NEW b, NEW rest
  PROVE  \A m \in Nat : OneWalk(b, rest, m)
<1> DEFINE good == {m \in Nat : OneWalk(b, rest, m)}
<1>1. 0 \in good
  <2>1. CellsUpTo(b, rest, 0, [n \in 0 .. 0 |-> b])
    BY DEF CellsUpTo
  <2>2. \A f : CellsUpTo(b, rest, 0, f) => f[0] = b
    BY DEF CellsUpTo
  <2> QED BY <2>1, <2>2 DEF OneWalk
<1>2. ASSUME NEW m \in Nat, m \in good PROVE m + 1 \in good
  <2>1. PICK f : CellsUpTo(b, rest, m, f)
    BY <1>2 DEF OneWalk
  <2> DEFINE g == [n \in 0 .. m + 1 |-> IF n = m + 1 THEN After(rest, f[m]) ELSE f[n]]
  <2>2. CellsUpTo(b, rest, m + 1, g)
    <3>1. \A n \in 0 .. m : f[n] = IF n = 0 THEN b ELSE After(rest, f[n - 1])
      BY <2>1 DEF CellsUpTo
    <3>2. \A n \in 0 .. m + 1 : /\ n # m + 1 => n \in 0 .. m
                                /\ n # 0 => /\ n - 1 \in 0 .. m /\ n - 1 # m + 1
                                             /\ n - 1 \in 0 .. m + 1
                                /\ n = m + 1 => n # 0 /\ n - 1 = m
      OBVIOUS
    <3>3. \A n \in 0 .. m + 1 : g[n] = IF n = 0 THEN b ELSE After(rest, g[n - 1])
      <4>1. SUFFICES ASSUME NEW n \in 0 .. m + 1
                     PROVE  g[n] = IF n = 0 THEN b ELSE After(rest, g[n - 1])
        OBVIOUS
      <4>2. CASE n = m + 1
        BY <3>2, <4>2
      <4>3. CASE n # m + 1
        BY <3>1, <3>2, <4>3
      <4> QED BY <4>2, <4>3
    <3>4. g = [n \in 0 .. m + 1 |-> g[n]]
      OBVIOUS
    <3> HIDE DEF g
    <3>5. g = [n \in 0 .. m + 1 |-> IF n = 0 THEN b ELSE After(rest, g[n - 1])]
      BY <3>3, <3>4
    <3> QED BY <3>5 DEF CellsUpTo
  <2>3. ASSUME NEW h, NEW i, CellsUpTo(b, rest, m + 1, h), CellsUpTo(b, rest, m + 1, i)
        PROVE  h[m + 1] = i[m + 1]
    <3>1. /\ CellsUpTo(b, rest, m, [n \in 0 .. m |-> h[n]])
          /\ h[m + 1] = After(rest, h[m])
      BY <2>3, WalkPart
    <3>2. /\ CellsUpTo(b, rest, m, [n \in 0 .. m |-> i[n]])
          /\ i[m + 1] = After(rest, i[m])
      BY <2>3, WalkPart
    <3>3. \A q, r : CellsUpTo(b, rest, m, q) /\ CellsUpTo(b, rest, m, r) => q[m] = r[m]
      BY <1>2 DEF OneWalk
    <3>4. [n \in 0 .. m |-> h[n]][m] = [n \in 0 .. m |-> i[n]][m]
      BY <3>1, <3>2, <3>3
    <3>5. h[m] = i[m]
      BY <3>4
    <3> QED BY <3>1, <3>2, <3>5
  <2> HIDE DEF g
  <2> QED BY <2>2, <2>3 DEF OneWalk
<1>3. \A m \in Nat : m \in good
  <2> HIDE DEF good
  <2> QED BY <1>1, <1>2, SetInduction
<1> QED BY <1>3

LEMMA WalkExists ==
  ASSUME NEW b, NEW rest
  PROVE  \E f : CellsFrom(b, rest, f)
<1> DEFINE upTo(m) == CHOOSE f : CellsUpTo(b, rest, m, f)
           cell == [n \in Nat |-> upTo(n)[n]]
<1>1. \A m \in Nat : CellsUpTo(b, rest, m, upTo(m))
  BY WalksAreOne DEF OneWalk
<1>2. cell[0] = b
  <2>1. PICK f : f = upTo(0)
    OBVIOUS
  <2>2. CellsUpTo(b, rest, 0, f)
    BY <1>1, <2>1
  <2>3. f[0] = b
    BY <2>2 DEF CellsUpTo
  <2> QED BY <2>1, <2>3
<1>3. ASSUME NEW n \in Nat PROVE cell[n + 1] = After(rest, cell[n])
  <2>1. PICK f : f = upTo(n + 1)
    OBVIOUS
  <2>2. PICK g : g = upTo(n)
    OBVIOUS
  <2>3. CellsUpTo(b, rest, n + 1, f) /\ CellsUpTo(b, rest, n, g)
    BY <1>1, <2>1, <2>2
  <2>4. cell[n + 1] = f[n + 1] /\ cell[n] = g[n]
    BY <2>1, <2>2
  <2>5. f[n + 1] = After(rest, f[n]) /\ CellsUpTo(b, rest, n, [i \in 0 .. n |-> f[i]])
    BY <2>3, WalkPart
  <2>6. [i \in 0 .. n |-> f[i]][n] = g[n]
    BY <2>3, <2>5, WalksAreOne DEF OneWalk
  <2>7. f[n] = g[n]
    BY <2>6
  <2> HIDE DEF cell
  <2> QED BY <2>4, <2>5, <2>7
<1>4. cell = [n \in Nat |-> cell[n]]
  OBVIOUS
<1> HIDE DEF cell
<1>5. \A n \in Nat : cell[n] = IF n = 0 THEN b ELSE After(rest, cell[n - 1])
  <2>1. SUFFICES ASSUME NEW n \in Nat, n # 0 PROVE cell[n] = After(rest, cell[n - 1])
    BY <1>2
  <2>2. n - 1 \in Nat /\ (n - 1) + 1 = n
    BY <2>1
  <2> QED BY <1>3, <2>2
<1>6. CellsFrom(b, rest, cell)
  BY <1>4, <1>5 DEF CellsFrom, After
<1> QED BY <1>6

LEMMA CellSteps ==
  ASSUME NEW d, NEW b
  PROVE  /\ Cell(d, b)[0] = b
         /\ \A n \in Nat :
              Cell(d, b)[n + 1] = After(LastObjects(d, RdfRest), Cell(d, b)[n])
<1> DEFINE rest == LastObjects(d, RdfRest)
<1>1. PICK f : f = Cell(d, b)
  OBVIOUS
<1>2. CellsFrom(b, rest, f)
  <2> HIDE DEF rest
  <2>1. f = CHOOSE g : CellsFrom(b, rest, g)
    BY <1>1, CellIsChosen DEF rest
  <2>2. \E g : CellsFrom(b, rest, g)
    BY WalkExists
  <2> QED BY <2>1, <2>2
<1> HIDE DEF rest
<1>3. f[0] = b
  BY <1>2 DEF CellsFrom
<1>4. ASSUME NEW n \in Nat PROVE f[n + 1] = After(rest, f[n])
  <2>1. n + 1 \in Nat /\ n + 1 # 0 /\ (n + 1) - 1 = n
    OBVIOUS
  <2> QED BY <1>2, <2>1 DEF CellsFrom, After
<1> QED BY <1>1, <1>3, <1>4 DEF rest
-----------------------------------------------------------------------------
(* What becomes of each triple of a well-mapped document *)

About(d, b) == {k \in DOMAIN d : d[k].s = b}
To(d, b) == {k \in DOMAIN d : d[k].o = b}

(* The cells of lists, simple or not.                                      *)
Linked(d) == {b \in Blanks : \E k \in About(d, b) : d[k].p \in {RdfFirst, RdfRest}}

LEMMA AtMostOne ==
  ASSUME NEW S, IsFiniteSet(S), Cardinality(S) <= 1, NEW x \in S, NEW y \in S
  PROVE  x = y
<1>1. PICK n : n = Cardinality(S)
  OBVIOUS
<1>2. n \in Nat /\ n <= 1
  BY <1>1, FS_CardinalityType
<1>3. n # 0
  BY <1>1, FS_EmptySet
<1>4. n = 1
  BY <1>2, <1>3
<1>5. PICK z : S = {z}
  BY <1>1, <1>4, FS_Singleton
<1> QED BY <1>5

LEMMA WellMappedParts ==
  ASSUME NEW d, IsData(d), WellMapped(d)
  PROVE  /\ \A k \in DOMAIN d : d[k].p = RdfType => d[k].o \in Iris
         /\ \A b \in Linked(d) :
              /\ \A k \in DOMAIN d : d[k].s = b => d[k].p \in {RdfFirst, RdfRest}
              /\ \E k \in DOMAIN d : d[k].s = b /\ d[k].p = RdfRest
              /\ \A k, j \in DOMAIN d : d[k].o = b /\ d[j].o = b => k = j
         /\ \A k, j \in DOMAIN d :
              /\ d[k].o \in Linked(d) /\ j # k /\ d[j].s = d[k].s
              /\ LocalName[d[j].p] = LocalName[d[k].p]
              => d[j].o \notin Literals \cup Linked(d)
<1>1. /\ \A k \in DOMAIN d : d[k].p = RdfType => d[k].o \in Iris
      /\ \A b \in Linked(d) :
           /\ Cardinality(About(d, b)) = 2 /\ Cardinality(To(d, b)) <= 1
           /\ {d[k].p : k \in About(d, b)} = {RdfFirst, RdfRest}
      /\ \A k, j \in DOMAIN d :
           /\ d[k].o \in Linked(d) /\ j # k /\ d[j].s = d[k].s
           /\ LocalName[d[j].p] = LocalName[d[k].p]
           => d[j].o \notin Literals \cup Linked(d)
  BY DEF WellMapped, WellFormed, Linked, About, To
<1>2. ASSUME NEW b \in Linked(d)
      PROVE  /\ \A k \in DOMAIN d : d[k].s = b => d[k].p \in {RdfFirst, RdfRest}
             /\ \E k \in DOMAIN d : d[k].s = b /\ d[k].p = RdfRest
             /\ \A k, j \in DOMAIN d : d[k].o = b /\ d[j].o = b => k = j
  <2>1. {d[k].p : k \in About(d, b)} = {RdfFirst, RdfRest}
    BY <1>1
  <2>2. IsFiniteSet(To(d, b))
    <3>1. PICK n \in Nat : DOMAIN d = 1 .. n
      BY DEF IsData
    <3>2. IsFiniteSet(DOMAIN d)
      BY <3>1, FS_Interval
    <3>3. To(d, b) \in SUBSET DOMAIN d
      BY DEF To
    <3> QED BY <3>2, <3>3, FS_Subset
  <2>3. ASSUME NEW k \in DOMAIN d, NEW j \in DOMAIN d, d[k].o = b, d[j].o = b
        PROVE  k = j
    <3>1. k \in To(d, b) /\ j \in To(d, b)
      BY <2>3 DEF To
    <3> QED BY <1>1, <2>2, <3>1, AtMostOne
  <2> QED BY <2>1, <2>3 DEF About
<1> QED BY <1>1, <1>2

LEMMA ListFacts ==
  ASSUME NEW d, NEW b \in Lists(d)
  PROVE  /\ ListLength(d, b) \in Nat \ {0}
         /\ b \in DOMAIN Heads(d)
         /\ \A k \in 0 .. ListLength(d, b) - 1 : Cell(d, b)[k] \in DOMAIN LastObjects(d, RdfFirst)
<1> DEFINE first == LastObjects(d, RdfFirst)
           cell == Cell(d, b)
           ends == {n \in 1 .. LongestWalk(d) :
                      /\ cell[n] = RdfNil
                      /\ \A k \in 0 .. n - 1 :
                           cell[k] \in DOMAIN first /\ first[cell[k]] \notin Blanks}
<1>1. ListLength(d, b) = IF ends = {} THEN 0 ELSE CHOOSE n \in ends : TRUE
  BY DEF ListLength
<1>2. b \in DOMAIN Heads(d) /\ ListLength(d, b) > 0
  BY DEF Lists
<1>3. ends # {}
  <2> HIDE DEF ends
  <2> QED BY <1>1, <1>2
<1>4. ListLength(d, b) \in ends
  <2> HIDE DEF ends
  <2> QED BY <1>1, <1>3
<1>5. \A k \in 0 .. ListLength(d, b) - 1 : cell[k] \in DOMAIN first
  BY <1>4
<1>6. \A n \in ends : n \in Nat \ {0}
  <2> HIDE DEF first, cell
  <2> QED OBVIOUS
<1> HIDE DEF ends
<1> QED BY <1>2, <1>4, <1>5, <1>6

LEMMA CellsAreLinked ==
  ASSUME NEW d, IsData(d), NEW c \in ListCells(d)
  PROVE  c \in Linked(d)
<1>1. PICK b \in Lists(d) : \E i \in 0 .. ListLength(d, b) - 1 : c = Cell(d, b)[i]
  BY DEF ListCells
<1>4. PICK n \in 0 .. ListLength(d, b) - 1 : c = Cell(d, b)[n]
  BY <1>1
<1>2. c \in DOMAIN LastObjects(d, RdfFirst)
  BY <1>4, ListFacts
<1> QED BY <1>2, ObjectsSaid DEF Linked, About

LEMMA StartsAreCells ==
  ASSUME NEW d, NEW b \in Lists(d)
  PROVE  b \in ListCells(d)
<1>1. PICK len : len = ListLength(d, b)
  OBVIOUS
<1>2. 0 \in 0 .. len - 1
  BY <1>1, ListFacts
<1>3. Cell(d, b)[0] = b
  BY CellSteps
<1> QED BY <1>1, <1>2, <1>3 DEF ListCells

(* A cell that is not the first is the rest of one.                        *)
LEMMA RestsPointToCells ==
  ASSUME NEW d, IsData(d), WellMapped(d), NEW b \in Lists(d),
         NEW n \in 0 .. ListLength(d, b) - 1, n # 0
  PROVE  \E k \in DOMAIN d : d[k].p = RdfRest /\ d[k].o = Cell(d, b)[n]
<1>1. PICK len : len = ListLength(d, b)
  OBVIOUS
<1>2. len \in Nat
  BY <1>1, ListFacts
<1>3. n - 1 \in 0 .. len - 1 /\ n - 1 \in Nat /\ (n - 1) + 1 = n
  BY <1>1, <1>2
<1>4. PICK m : m = n - 1
  OBVIOUS
<1>5. PICK c : c = Cell(d, b)[m]
  OBVIOUS
<1>6. c \in ListCells(d)
  BY <1>1, <1>3, <1>4, <1>5 DEF ListCells
<1>7. c \in Linked(d)
  BY <1>6, CellsAreLinked
<1>8. c \in DOMAIN LastObjects(d, RdfRest)
  <2>1. c \in Blanks
    BY <1>7 DEF Linked
  <2> QED BY <1>7, <2>1, WellMappedParts, ObjectsSaid
<1>9. Cell(d, b)[n] = LastObjects(d, RdfRest)[c]
  BY <1>3, <1>4, <1>5, <1>8, CellSteps DEF After
<1> QED BY <1>8, <1>9, ObjectsSaid

(* No triple but those of the list leads into its middle.                  *)
LEMMA HeadsAreStarts ==
  ASSUME NEW d, IsData(d), WellMapped(d), NEW c \in ListCells(d), c \in DOMAIN Heads(d)
  PROVE  c \in Lists(d)
<1>1. PICK b \in Lists(d) : \E i \in 0 .. ListLength(d, b) - 1 : c = Cell(d, b)[i]
  BY DEF ListCells
<1>4. PICK n \in 0 .. ListLength(d, b) - 1 : c = Cell(d, b)[n]
  BY <1>1
<1>2. CASE n = 0
  BY <1>4, <1>2, CellSteps
<1>3. CASE n # 0
  <2>1. PICK k \in DOMAIN d : d[k].p = RdfRest /\ d[k].o = c
    BY <1>4, <1>3, RestsPointToCells
  <2>2. PICK j \in DOMAIN d : d[j].o = c /\ d[j].p \notin {RdfFirst, RdfRest}
    BY HeadsSaid
  <2>3. k = j
    BY <2>1, <2>2, CellsAreLinked, WellMappedParts
  <2> QED BY <2>1, <2>2, <2>3
<1> QED BY <1>2, <1>3

LEMMA ArrayWritten ==
  ASSUME NEW d, IsData(d), WellMapped(d), NEW g, NEW batch \in Batches(d), HoldsAll(g, batch),
         NEW b \in Lists(d), NEW key, key = <<Heads(d)[b].s, Heads(d)[b].name>>
  PROVE  key \in DOMAIN g.props /\ g.props[key] = ListValues(d, b)
<1>1. PICK arrays \in ArrayChoices(d) :
        batch = [s \in Subjects(d) |-> SubjectGraph(d, s, arrays)]
  BY BatchParts
<1>2. key \in ArrayKeys(d)
  BY DEF ArrayKeys
<1>3. PICK f : f = arrays[key]
  OBVIOUS
<1>4. DOMAIN arrays = ArrayKeys(d) /\ f \in Lists(d) /\ key = <<Heads(d)[f].s, Heads(d)[f].name>>
  BY <1>2, <1>3 DEF ArrayChoices
<1>5. f = b
  <2>1. PICK i \in DOMAIN d : d[i].o = b /\ key = <<d[i].s, LocalName[d[i].p]>>
    BY ListFacts, HeadsSaid
  <2>2. PICK j \in DOMAIN d : d[j].o = f /\ key = <<d[j].s, LocalName[d[j].p]>>
    BY <1>4, ListFacts, HeadsSaid
  <2>3. d[i].s = d[j].s /\ LocalName[d[i].p] = LocalName[d[j].p]
    BY <2>1, <2>2
  <2>4. b \in Linked(d) /\ f \in Linked(d)
    BY <1>4, StartsAreCells, CellsAreLinked
  <2>5. i = j
    BY <2>1, <2>2, <2>3, <2>4, WellMappedParts
  <2> QED BY <2>1, <2>2, <2>5
<1>6. PICK s : s = Heads(d)[b].s
  OBVIOUS
<1>7. s \in Subjects(d) /\ key[1] = s
  BY <1>6 DEF Subjects
<1>8. /\ key \in DOMAIN SubjectProps(d, s, arrays)
      /\ SubjectProps(d, s, arrays)[key] = ListValues(d, b)
  BY <1>2, <1>3, <1>4, <1>5, <1>7 DEF SubjectProps, Override
<1>9. batch[s].props = SubjectProps(d, s, arrays) /\ s \in DOMAIN batch
  BY <1>1, <1>7 DEF SubjectGraph
<1> QED BY <1>8, <1>9 DEF HoldsAll, Holds

LEMMA LabelsAndEdgesWritten ==
  ASSUME NEW d, NEW g, NEW batch \in Batches(d), HoldsAll(g, batch), NEW k \in Remaining(d)
  PROVE  /\ IsLabel(d[k]) => <<d[k].s, TypeLabel[d[k].o]>> \in g.labels
         /\ IsEdge(d[k]) => <<d[k].s, d[k].p, d[k].o>> \in g.edges
<1>1. PICK arrays \in ArrayChoices(d) :
        batch = [s \in Subjects(d) |-> SubjectGraph(d, s, arrays)]
  BY BatchParts
<1>2. PICK s : s = d[k].s
  OBVIOUS
<1>3. s \in Subjects(d)
  BY <1>2 DEF Subjects, SubjectsOfTriples
<1> DEFINE own == {d[j] : j \in {i \in Remaining(d) : d[i].s = s}}
<1>4. d[k] \in own
  BY <1>2
<1>5. /\ batch[s].labels = {<<s, TypeLabel[t.o]>> : t \in {u \in own : IsLabel(u)}}
      /\ batch[s].edges = {<<s, t.p, t.o>> : t \in {u \in own : IsEdge(u)}}
      /\ s \in DOMAIN batch
  BY <1>1, <1>3 DEF SubjectGraph
<1> HIDE DEF own
<1>6. batch[s].labels \subseteq g.labels /\ batch[s].edges \subseteq g.edges
  BY <1>5 DEF HoldsAll, Holds
<1> QED BY <1>2, <1>4, <1>5, <1>6

LEMMA LiteralWritten ==
  ASSUME NEW d, IsData(d), WellMapped(d), NEW g, NEW batch \in Batches(d), HoldsAll(g, batch),
         NEW k \in Remaining(d), IsProperty(d[k]),
         NEW key, key = <<d[k].s, LocalName[d[k].p]>>
  PROVE  key \in DOMAIN g.props /\ g.props[key] = ValueRepr(LastLiteral(d, LiteralsAt(d, key)))
<1>1. PICK arrays \in ArrayChoices(d) :
        batch = [s \in Subjects(d) |-> SubjectGraph(d, s, arrays)]
  BY BatchParts
<1>2. PICK s : s = d[k].s
  OBVIOUS
<1>3. s \in Subjects(d) /\ k \in DOMAIN d
  BY <1>2 DEF Subjects, SubjectsOfTriples, Remaining
<1>4. key \notin ArrayKeys(d)
  <2>1. SUFFICES ASSUME NEW b \in Lists(d), key = <<Heads(d)[b].s, Heads(d)[b].name>>
                 PROVE  FALSE
    BY DEF ArrayKeys
  <2>2. PICK j \in DOMAIN d : d[j].o = b /\ key = <<d[j].s, LocalName[d[j].p]>>
    BY <2>1, ListFacts, HeadsSaid
  <2>3. b \in Linked(d) /\ b \in Blanks
    BY StartsAreCells, CellsAreLinked DEF Linked
  <2>4. d[k].o \in Literals /\ j # k
    BY <2>2, <2>3, VocabularyAssumption DEF IsProperty, Terms
  <2>5. d[k].s = d[j].s /\ LocalName[d[k].p] = LocalName[d[j].p]
    BY <2>2
  <2> QED BY <1>3, <2>2, <2>3, <2>4, <2>5, WellMappedParts
<1>5. Remaining(d) \cap LiteralsAt(d, key) = LiteralsAt(d, key)
  <2>1. SUFFICES ASSUME NEW j \in LiteralsAt(d, key) PROVE j \in Remaining(d)
    OBVIOUS
  <2>2. j \in DOMAIN d /\ d[j].o \in Literals /\ d[j].s = d[k].s
    BY DEF LiteralsAt, IsProperty
  <2>3. d[j].o \notin DOMAIN Heads(d)
    BY <2>2, VocabularyAssumption DEF Heads, Terms
  <2>4. d[k].s \notin ListCells(d)
    BY DEF Remaining
  <2> QED BY <2>2, <2>3, <2>4 DEF Remaining
<1> DEFINE keys == {<<s, LocalName[d[i].p]>> :
                       i \in {j \in Remaining(d) : d[j].s = s /\ IsProperty(d[j])}}
<1>6. key \in keys
  BY <1>2
<1>7. SubjectProps(d, s, arrays) =
        Override([x \in keys |->
                    ValueRepr(LastLiteral(d, Remaining(d) \cap LiteralsAt(d, x)))],
                 [x \in {y \in DOMAIN arrays : y[1] = s} |-> ListValues(d, arrays[x])])
  BY DEF SubjectProps
<1>8. DOMAIN arrays = ArrayKeys(d)
  BY DEF ArrayChoices
<1> HIDE DEF keys
<1>9. /\ key \in DOMAIN SubjectProps(d, s, arrays)
      /\ SubjectProps(d, s, arrays)[key] = ValueRepr(LastLiteral(d, LiteralsAt(d, key)))
  BY <1>4, <1>5, <1>6, <1>7, <1>8 DEF Override
<1>10. batch[s].props = SubjectProps(d, s, arrays) /\ s \in DOMAIN batch
  BY <1>1, <1>3 DEF SubjectGraph
<1> QED BY <1>9, <1>10 DEF HoldsAll, Holds

(* Where a name has one literal, the last one is that one.                 *)
LEMMA OnlyLiteral ==
  ASSUME NEW d, IsData(d), WellMapped(d), NEW k \in DOMAIN d, IsProperty(d[k]),
         NEW key, key = <<d[k].s, LocalName[d[k].p]>>
  PROVE  LastLiteral(d, LiteralsAt(d, key)) = d[k].o
<1>1. k \in LiteralsAt(d, key) /\ LiteralsAt(d, key) \in SUBSET DOMAIN d
  BY DEF LiteralsAt
<1>2. PICK j \in LiteralsAt(d, key) : LastOf(d, LiteralsAt(d, key)) = d[j]
  BY <1>1, LastIn
<1>3. /\ j \in DOMAIN d /\ d[j].o \in Literals
      /\ d[j].s = d[k].s /\ LocalName[d[j].p] = LocalName[d[k].p]
  BY DEF LiteralsAt, IsProperty
<1>4. d[j].o = d[k].o
  BY <1>3 DEF WellMapped, OneLiteralPerName, IsProperty
<1> QED BY <1>2, <1>4 DEF LastLiteral

LEMMA AllKept ==
  ASSUME NEW d, IsData(d), WellMapped(d), NEW g, NEW batch \in Batches(d), HoldsAll(g, batch),
         NEW k \in DOMAIN d
  PROVE  Kept(g, d, d[k])
<1>1. PICK t : t = d[k]
  OBVIOUS
<1>2. /\ RdfType \notin {RdfFirst, RdfRest} /\ Iris \cap Blanks = {} /\ Literals \cap Terms = {}
      /\ Terms = Iris \cup Blanks
  BY VocabularyAssumption DEF Terms
<1>3. t.o \in Terms \cup Literals /\ (t.p = RdfType => t.o \in Iris)
  BY <1>1, WellMappedParts DEF IsData
<1>4. CASE t.s \in ListCells(d)
  <2>1. t.p \in {RdfFirst, RdfRest}
    BY <1>1, <1>4, CellsAreLinked, WellMappedParts
  <2>2. InList(d, t) /\ ~IsLabel(t)
    BY <1>2, <1>4, <2>1 DEF InList, IsLabel
  <2>3. PICK b \in Lists(d) : \E n \in 0 .. ListLength(d, b) - 1 : t.s = Cell(d, b)[n]
    BY <1>4 DEF ListCells
  <2>4. PICK n \in 0 .. ListLength(d, b) - 1 : t.s = Cell(d, b)[n]
    BY <2>3
  <2>5. PICK key : key = <<Heads(d)[b].s, Heads(d)[b].name>>
    OBVIOUS
  <2>6. key \in DOMAIN g.props /\ g.props[key] = ListValues(d, b)
    BY <2>5, ArrayWritten
  <2> QED BY <1>1, <2>2, <2>4, <2>5, <2>6 DEF Kept
<1>5. CASE t.s \notin ListCells(d) /\ k \notin Remaining(d)
  <2>1. /\ t.o \in ListCells(d) /\ t.o \in DOMAIN Heads(d)
        /\ Heads(d)[t.o].s = t.s
    BY <1>1, <1>5 DEF Remaining
  <2>2. t.o \in Blanks /\ t.o \in Lists(d)
    BY <2>1, HeadsAreStarts, HeadsSaid
  <2>3. PICK j \in DOMAIN d : d[j].o = t.o /\ Heads(d)[t.o].name = LocalName[d[j].p]
    BY <2>1, HeadsSaid
  <2>4. j = k
    BY <1>1, <2>1, <2>3, CellsAreLinked, WellMappedParts
  <2>5. PICK key : key = <<t.s, LocalName[t.p]>>
    OBVIOUS
  <2>6. key \in DOMAIN g.props /\ g.props[key] = ListValues(d, t.o)
    BY <1>1, <2>1, <2>2, <2>3, <2>4, <2>5, ArrayWritten
  <2>7. ~IsLabel(t) /\ ~InList(d, t) /\ t.o \notin Literals
    BY <1>2, <1>5, <2>2 DEF IsLabel, InList
  <2> QED BY <1>1, <2>2, <2>5, <2>6, <2>7 DEF Kept
<1>6. CASE k \in Remaining(d)
  <2>1. ~InList(d, t)
    BY <1>1, <1>6 DEF Remaining, InList
  <2>2. CASE IsLabel(t)
    <3>1. <<t.s, TypeLabel[t.o]>> \in g.labels
      BY <1>1, <1>6, <2>2, LabelsAndEdgesWritten
    <3>2. t.o \notin Literals
      BY <1>2, <2>2 DEF IsLabel
    <3> QED BY <1>1, <2>1, <2>2, <3>1, <3>2 DEF Kept
  <2>3. CASE t.o \in Literals
    <3>1. IsProperty(t) /\ ~IsLabel(t)
      BY <1>2, <1>3, <2>3 DEF IsProperty, IsLabel
    <3>2. PICK key : key = <<t.s, LocalName[t.p]>>
      OBVIOUS
    <3>3. /\ key \in DOMAIN g.props
          /\ g.props[key] = ValueRepr(LastLiteral(d, LiteralsAt(d, key)))
      BY <1>1, <1>6, <3>1, <3>2, LiteralWritten
    <3>4. LastLiteral(d, LiteralsAt(d, key)) = t.o
      BY <1>1, <3>1, <3>2, OnlyLiteral
    <3> QED BY <1>1, <2>1, <2>3, <3>1, <3>2, <3>3, <3>4 DEF Kept
  <2>4. CASE ~IsLabel(t) /\ t.o \notin Literals
    <3>1. IsEdge(t)
      BY <1>3, <2>4 DEF IsEdge, IsLabel
    <3>2. <<t.s, t.p, t.o>> \in g.edges
      BY <1>1, <1>6, <3>1, LabelsAndEdgesWritten
    <3> QED BY <1>1, <2>1, <2>4, <3>2 DEF Kept
  <2> QED BY <2>2, <2>3, <2>4
<1> QED BY <1>4, <1>5, <1>6

LEMMA ItemsOfSequences ==
  ASSUME NEW S, NEW q \in Seq(S), NEW k \in DOMAIN q
  PROVE  q[k] \in S
OBVIOUS

LEMMA ParsedIsData ==
  ASSUME NEW doc \in Documents, NEW n \in 0 .. MaxScopes - 1
  PROVE  IsData(Parsed(doc, n))
<1>1. doc.triples \in Seq([s : Iris \cup Labels, p : Predicates,
                           o : Iris \cup Labels \cup Literals])
  BY DocumentsAssumption
<1>2. \E m \in Nat : DOMAIN doc.triples = 1 .. m
  BY <1>1
<1>3. n \in Scopes /\ Raw \in Scopes
  BY DEF Scopes
<1>4. \A t : t \in Labels => Node(doc, n, t) \in Blanks
  BY <1>3, DocumentsAssumption DEF Node
<1>5. \A t : t \notin Labels => Node(doc, n, t) = t
  BY DEF Node
<1>6. ASSUME NEW k \in DOMAIN doc.triples
      PROVE  /\ Node(doc, n, doc.triples[k].s) \in Terms
             /\ doc.triples[k].p \in Predicates
             /\ Node(doc, n, doc.triples[k].o) \in Terms \cup Literals
  <2>1. PICK t : t = doc.triples[k]
    OBVIOUS
  <2>2. t \in [s : Iris \cup Labels, p : Predicates, o : Iris \cup Labels \cup Literals]
    BY <1>1, <2>1, ItemsOfSequences
  <2>3. t.s \in Iris \cup Labels /\ t.p \in Predicates /\ t.o \in Iris \cup Labels \cup Literals
    BY <2>2
  <2> QED BY <1>4, <1>5, <2>1, <2>3 DEF Terms
<1> QED BY <1>2, <1>6 DEF IsData, Parsed

(* A document of well-formed lists and of one literal for each name of a   *)
(* subject that was answered without an error is in the graph to the last  *)
(* triple: as a label, an edge, a property or an element of an array,      *)
(* whatever came before: other documents, failed statements, restarts.     *)
THEOREM TriplesKept == Spec => []EveryTripleIsKept
<1>1. ASSUME KeptInv, Succeeded, WellMapped(data), NEW k \in DOMAIN data
      PROVE  Kept(graph, data, data[k])
  <2>1. PICK batch \in Batches(data) : HoldsAll(graph, batch)
    BY <1>1 DEF KeptInv, AnswerInv, Succeeded
  <2>2. PICK n \in 0 .. MaxScopes - 1 : sent \in Documents /\ data = Parsed(sent, n)
    BY <1>1 DEF KeptInv, RunInv, Succeeded
  <2>3. IsData(data)
    BY <2>2, ParsedIsData
  <2> QED BY <1>1, <2>1, <2>3, AllKept
<1>2. KeptInv => EveryTripleIsKept
  BY <1>1 DEF EveryTripleIsKept
<1> QED BY <1>2, KeptAlways, PTL
-----------------------------------------------------------------------------
(* The graph that the triples make one by one *)

(* The positions in ks whose triples set property key.                     *)
SettersIn(d, ks, key) == {k \in ks : key \in DOMAIN TripleGraph(d[k]).props}

Gathered(f, ks) == UNION {f[k] : k \in ks}

NodesAt(d) == [k \in DOMAIN d |-> TripleGraph(d[k]).nodes]
LabelsAt(d) == [k \in DOMAIN d |-> TripleGraph(d[k]).labels]
EdgesAt(d) == [k \in DOMAIN d |-> TripleGraph(d[k]).edges]
KeysAt(d) == [k \in DOMAIN d |-> DOMAIN TripleGraph(d[k]).props]

(* What FoldLeft makes of the triples at positions ks, told all at once.   *)
MergedGraph(g, d, ks) ==
    [nodes  |-> g.nodes \cup Gathered(NodesAt(d), ks),
     labels |-> g.labels \cup Gathered(LabelsAt(d), ks),
     edges  |-> g.edges \cup Gathered(EdgesAt(d), ks),
     props  |-> [key \in DOMAIN g.props \cup Gathered(KeysAt(d), ks) |->
                   IF SettersIn(d, ks, key) # {}
                   THEN ValueRepr(LastOf(d, SettersIn(d, ks, key)).o)
                   ELSE g.props[key]]]

MergesOver(g, d, S, iter) ==
    iter = [s \in SUBSET S |->
              IF s = {} THEN g
              ELSE LET x == Max(s) IN Union(iter[s \ {x}], TripleGraph(d[x]))]

LEMMA FoldIsChosen ==
  ASSUME NEW g, NEW d
  PROVE  TripleByTriple(g, d) =
           (CHOOSE iter : MergesOver(g, d, DOMAIN d, iter))[DOMAIN d]
BY DEF TripleByTriple, FoldLeft, MapThenFoldSet, MergesOver

LEMMA LastOfAll ==
  ASSUME NEW d, NEW ks, NEW x \in ks, ks \subseteq Nat, \A j \in ks : j <= x
  PROVE  LastOf(d, ks) = d[x]
<1>1. \A y \in ks : (\A j \in ks : j <= y) => y = x
  <2>1. SUFFICES ASSUME NEW y \in ks, \A j \in ks : j <= y PROVE y = x
    OBVIOUS
  <2>2. x \in Nat /\ y \in Nat /\ x <= y /\ y <= x
    BY <2>1
  <2> QED BY <2>2
<1>2. (CHOOSE k \in ks : \A j \in ks : j <= k) = x
  BY <1>1
<1> QED BY <1>2 DEF LastOf

LEMMA TriplePropsSaid ==
  ASSUME NEW t, NEW key \in DOMAIN TripleGraph(t).props
  PROVE  TripleGraph(t).props[key] = ValueRepr(t.o)
BY DEF TripleGraph, Empty

LEMMA OneMore ==
  ASSUME NEW f, NEW s, NEW x \in s
  PROVE  Gathered(f, s) = Gathered(f, s \ {x}) \cup f[x]
<1>1. \A y : y \in Gathered(f, s) <=> \E k \in s : y \in f[k]
  BY DEF Gathered
<1>2. \A y : y \in Gathered(f, s \ {x}) <=> \E k \in s \ {x} : y \in f[k]
  BY DEF Gathered
<1>3. \A y : (\E k \in s : y \in f[k]) <=> (\E k \in s \ {x} : y \in f[k]) \/ y \in f[x]
  OBVIOUS
<1> QED BY <1>1, <1>2, <1>3

(* One triple more.                                                        *)
LEMMA MergedStep ==
  ASSUME NEW g, NEW d, NEW s, s \subseteq Nat, NEW x \in s, x \in DOMAIN d, \A j \in s : j <= x
  PROVE  MergedGraph(g, d, s) = Union(MergedGraph(g, d, s \ {x}), TripleGraph(d[x]))
<1> DEFINE h == TripleGraph(d[x])
           m == MergedGraph(g, d, s)
           r == MergedGraph(g, d, s \ {x})
           u == Union(r, h)
           value(ks, key) == IF SettersIn(d, ks, key) # {}
                             THEN ValueRepr(LastOf(d, SettersIn(d, ks, key)).o)
                             ELSE g.props[key]
           keys(ks) == DOMAIN g.props \cup Gathered(KeysAt(d), ks)
<1>1. /\ m.nodes = g.nodes \cup Gathered(NodesAt(d), s)
      /\ m.labels = g.labels \cup Gathered(LabelsAt(d), s)
      /\ m.edges = g.edges \cup Gathered(EdgesAt(d), s)
      /\ m.props = [key \in keys(s) |-> value(s, key)]
  BY DEF MergedGraph
<1>2. /\ r.nodes = g.nodes \cup Gathered(NodesAt(d), s \ {x})
      /\ r.labels = g.labels \cup Gathered(LabelsAt(d), s \ {x})
      /\ r.edges = g.edges \cup Gathered(EdgesAt(d), s \ {x})
      /\ r.props = [key \in keys(s \ {x}) |-> value(s \ {x}, key)]
  BY DEF MergedGraph
<1>3. /\ u.nodes = r.nodes \cup h.nodes /\ u.labels = r.labels \cup h.labels
      /\ u.edges = r.edges \cup h.edges
      /\ u.props = [k \in DOMAIN r.props \cup DOMAIN h.props |->
                      IF k \in DOMAIN h.props THEN h.props[k] ELSE r.props[k]]
  BY DEF Union, Override
<1>4. /\ m = [nodes |-> m.nodes, labels |-> m.labels, edges |-> m.edges, props |-> m.props]
      /\ u = [nodes |-> u.nodes, labels |-> u.labels, edges |-> u.edges, props |-> u.props]
  BY DEF MergedGraph, Union
<1>5. ASSUME NEW key
      PROVE  /\ key \in DOMAIN h.props => value(s, key) = h.props[key]
             /\ key \notin DOMAIN h.props => value(s, key) = value(s \ {x}, key)
  <2>1. CASE key \in DOMAIN h.props
    <3>1. x \in SettersIn(d, s, key) /\ SettersIn(d, s, key) \subseteq s
      BY <2>1 DEF SettersIn
    <3>2. LastOf(d, SettersIn(d, s, key)) = d[x]
      BY <3>1, LastOfAll
    <3>3. h.props[key] = ValueRepr(d[x].o)
      BY <2>1, TriplePropsSaid
    <3> HIDE DEF h
    <3> QED BY <2>1, <3>1, <3>2, <3>3
  <2>2. CASE key \notin DOMAIN h.props
    <3>1. SettersIn(d, s, key) = SettersIn(d, s \ {x}, key)
      BY <2>2 DEF SettersIn
    <3> QED BY <2>2, <3>1
  <2> QED BY <2>1, <2>2
<1>6. /\ Gathered(NodesAt(d), s) = Gathered(NodesAt(d), s \ {x}) \cup h.nodes
      /\ Gathered(LabelsAt(d), s) = Gathered(LabelsAt(d), s \ {x}) \cup h.labels
      /\ Gathered(EdgesAt(d), s) = Gathered(EdgesAt(d), s \ {x}) \cup h.edges
      /\ keys(s) = keys(s \ {x}) \cup DOMAIN h.props
  <2>1. /\ NodesAt(d)[x] = h.nodes /\ LabelsAt(d)[x] = h.labels
        /\ EdgesAt(d)[x] = h.edges /\ KeysAt(d)[x] = DOMAIN h.props
    BY DEF NodesAt, LabelsAt, EdgesAt, KeysAt
  <2> HIDE DEF h
  <2>2. /\ Gathered(NodesAt(d), s) = Gathered(NodesAt(d), s \ {x}) \cup NodesAt(d)[x]
        /\ Gathered(LabelsAt(d), s) = Gathered(LabelsAt(d), s \ {x}) \cup LabelsAt(d)[x]
        /\ Gathered(EdgesAt(d), s) = Gathered(EdgesAt(d), s \ {x}) \cup EdgesAt(d)[x]
        /\ Gathered(KeysAt(d), s) = Gathered(KeysAt(d), s \ {x}) \cup KeysAt(d)[x]
    BY OneMore
  <2> QED BY <2>1, <2>2
<1> HIDE DEF h, m, r, u, value, keys
<1>7. m.nodes = u.nodes /\ m.labels = u.labels /\ m.edges = u.edges
  BY <1>1, <1>2, <1>3, <1>6
<1>8. m.props = u.props
  <2>1. DOMAIN r.props = keys(s \ {x})
    BY <1>2
  <2>2. u.props = [k \in keys(s) |->
                     IF k \in DOMAIN h.props THEN h.props[k] ELSE r.props[k]]
    BY <1>3, <1>6, <2>1
  <2>3. \A k \in keys(s) :
           value(s, k) = IF k \in DOMAIN h.props THEN h.props[k] ELSE r.props[k]
    BY <1>2, <1>5, <1>6
  <2> QED BY <1>1, <2>2, <2>3
<1> QED BY <1>4, <1>7, <1>8 DEF m, u, r, h

LEMMA MergedNothing ==
  ASSUME NEW g, IsGraph(g), NEW d
  PROVE  MergedGraph(g, d, {}) = g
<1> DEFINE m == MergedGraph(g, d, {})
<1>1. /\ m = [nodes |-> m.nodes, labels |-> m.labels, edges |-> m.edges, props |-> m.props]
      /\ m.nodes = g.nodes /\ m.labels = g.labels /\ m.edges = g.edges
  BY DEF MergedGraph, Gathered
<1>2. \A key : SettersIn(d, {}, key) = {}
  BY DEF SettersIn
<1>3. m.props = [key \in DOMAIN g.props |-> g.props[key]]
  <2>1. Gathered(KeysAt(d), {}) = {}
    BY DEF Gathered
  <2> QED BY <1>2, <2>1 DEF MergedGraph
<1> HIDE DEF m
<1>4. m = g
  BY <1>1, <1>3 DEF IsGraph
<1> QED BY <1>4 DEF m

LEMMA MaxOfPositions ==
  ASSUME NEW n \in Nat, NEW s \in SUBSET (1 .. n), s # {}
  PROVE  Max(s) \in s /\ \A j \in s : j <= Max(s)
<1>1. PICK k \in s : \A j \in s : j <= k
  BY LastPosition
<1>2. \A j \in s : k >= j
  BY <1>1
<1>3. Max(s) \in s /\ \A j \in s : Max(s) >= j
  BY <1>2 DEF Max
<1>4. \A j \in s : j \in Nat
  OBVIOUS
<1> QED BY <1>3, <1>4

LEMMA TripleByTripleMerges ==
  ASSUME NEW g, IsGraph(g), NEW d, IsData(d)
  PROVE  TripleByTriple(g, d) = MergedGraph(g, d, DOMAIN d)
<1>1. PICK n \in Nat : DOMAIN d = 1 .. n
  BY DEF IsData
<1> DEFINE S == DOMAIN d
           f == [s \in SUBSET S |-> MergedGraph(g, d, s)]
<1>2. MergesOver(g, d, S, f)
  <2>1. ASSUME NEW s \in SUBSET S
        PROVE  f[s] = IF s = {} THEN g
                      ELSE LET x == Max(s) IN Union(f[s \ {x}], TripleGraph(d[x]))
    <3>1. CASE s = {}
      BY <3>1, MergedNothing
    <3>2. CASE s # {}
      <4>1. PICK x : x = Max(s)
        OBVIOUS
      <4>2. x \in s /\ (\A j \in s : j <= x) /\ s \subseteq Nat
        BY <1>1, <3>2, <4>1, MaxOfPositions
      <4>3. f[s] = Union(f[s \ {x}], TripleGraph(d[x]))
        BY <4>2, MergedStep
      <4> QED BY <3>2, <4>1, <4>3
    <3> QED BY <3>1, <3>2
  <2>2. f = [s \in SUBSET S |-> f[s]]
    OBVIOUS
  <2> HIDE DEF f, S
  <2> QED BY <2>1, <2>2 DEF MergesOver
<1>3. ASSUME NEW iter, MergesOver(g, d, S, iter)
      PROVE  iter[S] = MergedGraph(g, d, S)
  <2> DEFINE good == {m \in Nat : m <= n => iter[1 .. m] = MergedGraph(g, d, 1 .. m)}
  <2>1. \A s \in SUBSET S : iter[s] = IF s = {} THEN g
          ELSE LET x == Max(s) IN Union(iter[s \ {x}], TripleGraph(d[x]))
    BY <1>3 DEF MergesOver
  <2>2. 0 \in good
    <3>1. 1 .. 0 = {}
      OBVIOUS
    <3> QED BY <2>1, <3>1, MergedNothing
  <2>3. ASSUME NEW m \in Nat, m \in good PROVE m + 1 \in good
    <3>1. SUFFICES ASSUME m + 1 <= n
                   PROVE  iter[1 .. m + 1] = MergedGraph(g, d, 1 .. m + 1)
      BY <2>3
    <3>2. PICK s : s = 1 .. m + 1
      OBVIOUS
    <3>3. PICK x : x = m + 1
      OBVIOUS
    <3>4. /\ s \in SUBSET (1 .. n) /\ s # {} /\ s \subseteq Nat /\ x \in s
          /\ \A j \in s : j <= x /\ x >= j
          /\ s \ {x} = 1 .. m /\ m <= n /\ m + 1 \in Nat
      BY <3>1, <3>2, <3>3
    <3>5. Max(s) = x
      <4>1. \A y \in s : (\A j \in s : y >= j) => y = x
        <5>1. SUFFICES ASSUME NEW y \in s, \A j \in s : y >= j PROVE y = x
          OBVIOUS
        <5>2. x \in Nat /\ y \in Nat /\ y >= x /\ x >= y
          BY <3>4, <5>1
        <5> QED BY <5>2
      <4> QED BY <3>4, <4>1 DEF Max
    <3>6. iter[s] = Union(iter[s \ {x}], TripleGraph(d[x]))
      BY <1>1, <2>1, <3>4, <3>5
    <3>7. iter[s \ {x}] = MergedGraph(g, d, s \ {x})
      BY <2>3, <3>4
    <3>8. MergedGraph(g, d, s) = Union(MergedGraph(g, d, s \ {x}), TripleGraph(d[x]))
      BY <1>1, <3>4, MergedStep
    <3> QED BY <3>2, <3>6, <3>7, <3>8
  <2>4. \A m \in Nat : m \in good
    <3> HIDE DEF good
    <3> QED BY <2>2, <2>3, SetInduction
  <2>5. n \in good /\ n <= n
    BY <2>4
  <2> QED BY <1>1, <2>5
<1> HIDE DEF f, S
<1>4. (CHOOSE iter : MergesOver(g, d, S, iter))[S] = MergedGraph(g, d, S)
  <2>1. PICK i : i = CHOOSE iter : MergesOver(g, d, S, iter)
    OBVIOUS
  <2>2. MergesOver(g, d, S, i)
    BY <1>2, <2>1
  <2> QED BY <1>3, <2>1, <2>2
<1> QED BY <1>4, FoldIsChosen DEF S

(* Documents without lists, whose types are IRIs.                          *)
IsFlat(d) == \A k \in DOMAIN d : /\ d[k].p \notin {RdfFirst, RdfRest}
                                 /\ d[k].p = RdfType => d[k].o \in Iris

LEMMA FlatParts ==
  ASSUME NEW d, IsData(d), IsFlat(d)
  PROVE  /\ Remaining(d) = DOMAIN d /\ ArrayKeys(d) = {}
         /\ Subjects(d) = {d[k].s : k \in DOMAIN d}
<1>1. Lists(d) = {}
  <2>1. SUFFICES ASSUME NEW b \in Lists(d) PROVE FALSE
    OBVIOUS
  <2>2. b \in DOMAIN LastObjects(d, RdfFirst)
    BY DEF Lists
  <2>3. \E k \in DOMAIN d : d[k].p = RdfFirst
    BY <2>2, ObjectsSaid
  <2> QED BY <2>3 DEF IsFlat
<1>2. ListCells(d) = {} /\ ArrayKeys(d) = {}
  BY <1>1 DEF ListCells, ArrayKeys
<1>3. Remaining(d) = DOMAIN d
  BY <1>2 DEF Remaining
<1> QED BY <1>1, <1>2, <1>3 DEF Subjects, SubjectsOfTriples

(* What one triple of such a document makes.                               *)
TripleMakes(t) ==
    /\ \A v : v \in TripleGraph(t).nodes <=> v = t.s \/ (IsEdge(t) /\ v = t.o)
    /\ \A v : v \in TripleGraph(t).labels <=>
         IsLabel(t) /\ v = <<t.s, TypeLabel[t.o]>>
    /\ \A v : v \in TripleGraph(t).edges <=> IsEdge(t) /\ v = <<t.s, t.p, t.o>>
    /\ \A v : v \in DOMAIN TripleGraph(t).props <=>
         IsProperty(t) /\ v = <<t.s, LocalName[t.p]>>

LEMMA FlatTriple ==
  ASSUME NEW d, IsData(d), IsFlat(d), NEW k \in DOMAIN d, NEW t, t = d[k]
  PROVE  TripleMakes(t)
<1>1. /\ t.o \in Terms \cup Literals /\ (t.p = RdfType => t.o \in Iris)
      /\ Terms = Iris \cup Blanks /\ Literals \cap Terms = {}
  BY VocabularyAssumption DEF IsData, IsFlat, Terms
<1>2. /\ ~IsLabel(t) /\ t.o \in Terms <=> IsEdge(t)
      /\ t.o \in Literals <=> IsProperty(t)
  BY <1>1 DEF IsLabel, IsEdge, IsProperty
<1> QED BY <1>2 DEF TripleMakes, TripleGraph, Empty

SubjectMakes(d, s, h) ==
    /\ \A v : v \in h.nodes <=>
         v = s \/ \E k \in DOMAIN d : d[k].s = s /\ IsEdge(d[k]) /\ v = d[k].o
    /\ \A v : v \in h.labels <=>
         \E k \in DOMAIN d : d[k].s = s /\ IsLabel(d[k]) /\ v = <<s, TypeLabel[d[k].o]>>
    /\ \A v : v \in h.edges <=>
         \E k \in DOMAIN d : d[k].s = s /\ IsEdge(d[k]) /\ v = <<s, d[k].p, d[k].o>>
    /\ \A v : v \in DOMAIN h.props <=>
         \E k \in DOMAIN d : /\ d[k].s = s /\ IsProperty(d[k])
                             /\ v = <<s, LocalName[d[k].p]>>
    /\ \A key \in DOMAIN h.props :
         h.props[key] = ValueRepr(LastLiteral(d, LiteralsAt(d, key)))

LEMMA FlatSubject ==
  ASSUME NEW d, IsData(d), IsFlat(d), NEW batch \in Batches(d), NEW s \in Subjects(d),
         NEW h, h = batch[s]
  PROVE  SubjectMakes(d, s, h)
<1>1. PICK arrays \in ArrayChoices(d) :
        batch = [x \in Subjects(d) |-> SubjectGraph(d, x, arrays)]
  BY BatchParts
<1>2. DOMAIN arrays = {} /\ Remaining(d) = DOMAIN d
  BY FlatParts DEF ArrayChoices
<1> DEFINE own == {d[k] : k \in {j \in DOMAIN d : d[j].s = s}}
           keys == {<<s, LocalName[d[k].p]>> :
                       k \in {j \in DOMAIN d : d[j].s = s /\ IsProperty(d[j])}}
<1>3. /\ h.nodes = {s} \cup {t.o : t \in {u \in own : IsEdge(u)}}
      /\ h.labels = {<<s, TypeLabel[t.o]>> : t \in {u \in own : IsLabel(u)}}
      /\ h.edges = {<<s, t.p, t.o>> : t \in {u \in own : IsEdge(u)}}
      /\ h.props = SubjectProps(d, s, arrays)
  BY <1>1, <1>2 DEF SubjectGraph
<1>4. \A u : u \in own <=> \E k \in DOMAIN d : d[k].s = s /\ u = d[k]
  OBVIOUS
<1>5. SubjectProps(d, s, arrays) =
        [key \in keys |-> ValueRepr(LastLiteral(d, DOMAIN d \cap LiteralsAt(d, key)))]
  <2> DEFINE f == [key \in keys |->
                     ValueRepr(LastLiteral(d, DOMAIN d \cap LiteralsAt(d, key)))]
             a == [key \in {k \in DOMAIN arrays : k[1] = s} |-> ListValues(d, arrays[key])]
  <2>1. SubjectProps(d, s, arrays) = Override(f, a)
    BY <1>2 DEF SubjectProps
  <2>2. DOMAIN a = {}
    BY <1>2
  <2>3. f = [key \in DOMAIN f |-> f[key]]
    OBVIOUS
  <2> HIDE DEF f, a
  <2>4. Override(f, a) = f
    BY <2>2, <2>3 DEF Override
  <2> QED BY <2>1, <2>4 DEF f
<1>6. \A key : DOMAIN d \cap LiteralsAt(d, key) = LiteralsAt(d, key)
  BY DEF LiteralsAt
<1>7. \A v : v \in keys <=> \E k \in DOMAIN d : /\ d[k].s = s /\ IsProperty(d[k])
                                                /\ v = <<s, LocalName[d[k].p]>>
  OBVIOUS
<1> HIDE DEF own, keys
<1>8. /\ \A v : v \in h.nodes <=>
              v = s \/ \E k \in DOMAIN d : d[k].s = s /\ IsEdge(d[k]) /\ v = d[k].o
      /\ \A v : v \in h.labels <=>
              \E k \in DOMAIN d : d[k].s = s /\ IsLabel(d[k]) /\ v = <<s, TypeLabel[d[k].o]>>
      /\ \A v : v \in h.edges <=>
              \E k \in DOMAIN d : d[k].s = s /\ IsEdge(d[k]) /\ v = <<s, d[k].p, d[k].o>>
  <2>1. \A v : v \in h.nodes <=>
          v = s \/ \E k \in DOMAIN d : d[k].s = s /\ IsEdge(d[k]) /\ v = d[k].o
    BY <1>3, <1>4
  <2>2. \A v : v \in h.labels <=>
          \E k \in DOMAIN d : d[k].s = s /\ IsLabel(d[k]) /\ v = <<s, TypeLabel[d[k].o]>>
    BY <1>3, <1>4
  <2>3. \A v : v \in h.edges <=>
          \E k \in DOMAIN d : d[k].s = s /\ IsEdge(d[k]) /\ v = <<s, d[k].p, d[k].o>>
    BY <1>3, <1>4
  <2> QED BY <2>1, <2>2, <2>3
<1>9. /\ DOMAIN h.props = keys
      /\ \A key \in keys : h.props[key] = ValueRepr(LastLiteral(d, LiteralsAt(d, key)))
  BY <1>3, <1>5, <1>6
<1> QED BY <1>7, <1>8, <1>9 DEF SubjectMakes

(* Such a document becomes the same graph either way.                      *)
LEMMA FlatAgrees ==
  ASSUME NEW d, IsData(d), IsFlat(d), NEW batch \in Batches(d), NEW g
  PROVE  ApplyAll(g, batch) = MergedGraph(g, d, DOMAIN d)
<1> DEFINE r == ApplyAll(g, batch)
           m == MergedGraph(g, d, DOMAIN d)
<1>1. /\ r.nodes = g.nodes \cup NodesOf(batch) /\ r.labels = g.labels \cup LabelsOf(batch)
      /\ r.edges = g.edges \cup EdgesOf(batch)
      /\ r.props = [k \in DOMAIN g.props \cup KeysOf(batch) |->
                      IF k \in KeysOf(batch) THEN batch[k[1]].props[k] ELSE g.props[k]]
      /\ r = [nodes |-> r.nodes, labels |-> r.labels, edges |-> r.edges, props |-> r.props]
  <2>1. IsGraph(r)
    BY ApplyAllParts
  <2>2. /\ r.nodes = g.nodes \cup NodesOf(batch) /\ r.labels = g.labels \cup LabelsOf(batch)
        /\ r.edges = g.edges \cup EdgesOf(batch)
        /\ r.props = [k \in DOMAIN g.props \cup KeysOf(batch) |->
                        IF k \in KeysOf(batch) THEN batch[k[1]].props[k] ELSE g.props[k]]
    BY ApplyAllParts DEF NodesOf, LabelsOf, EdgesOf, KeysOf
  <2> HIDE DEF r
  <2> QED BY <2>1, <2>2 DEF IsGraph
<1>2. /\ m.nodes = g.nodes \cup Gathered(NodesAt(d), DOMAIN d)
      /\ m.labels = g.labels \cup Gathered(LabelsAt(d), DOMAIN d)
      /\ m.edges = g.edges \cup Gathered(EdgesAt(d), DOMAIN d)
      /\ m.props = [key \in DOMAIN g.props \cup Gathered(KeysAt(d), DOMAIN d) |->
                      IF SettersIn(d, DOMAIN d, key) # {}
                      THEN ValueRepr(LastOf(d, SettersIn(d, DOMAIN d, key)).o)
                      ELSE g.props[key]]
      /\ m = [nodes |-> m.nodes, labels |-> m.labels, edges |-> m.edges, props |-> m.props]
  BY DEF MergedGraph
<1> HIDE DEF r, m
<1>3. /\ DOMAIN batch = Subjects(d) /\ OwnProps(batch)
      /\ \A s : s \in Subjects(d) <=> \E k \in DOMAIN d : s = d[k].s
  BY BatchParts, FlatParts
<1>4. \A s \in Subjects(d) : SubjectMakes(d, s, batch[s])
  BY FlatSubject
<1>5. \A k \in DOMAIN d : TripleMakes(d[k])
  BY FlatTriple
<1>6. NodesOf(batch) = Gathered(NodesAt(d), DOMAIN d)
  <2>1. \A v : v \in NodesOf(batch) <=> \E k \in DOMAIN d :
                 v = d[k].s \/ (IsEdge(d[k]) /\ v = d[k].o)
    <3>1. \A v : v \in NodesOf(batch) <=> \E s \in Subjects(d) : v \in batch[s].nodes
      BY <1>3 DEF NodesOf
    <3>2. \A s \in Subjects(d) : \A v : v \in batch[s].nodes <=>
            v = s \/ \E k \in DOMAIN d : d[k].s = s /\ IsEdge(d[k]) /\ v = d[k].o
      BY <1>4 DEF SubjectMakes
    <3> QED BY <1>3, <3>1, <3>2
  <2>2. \A v : v \in Gathered(NodesAt(d), DOMAIN d) <=> \E k \in DOMAIN d :
                 v = d[k].s \/ (IsEdge(d[k]) /\ v = d[k].o)
    <3>1. \A v : v \in Gathered(NodesAt(d), DOMAIN d) <=>
                   \E k \in DOMAIN d : v \in TripleGraph(d[k]).nodes
      BY DEF Gathered, NodesAt
    <3>2. \A k \in DOMAIN d : \A v : v \in TripleGraph(d[k]).nodes <=>
            v = d[k].s \/ (IsEdge(d[k]) /\ v = d[k].o)
      BY <1>5 DEF TripleMakes
    <3> QED BY <3>1, <3>2
  <2> QED BY <2>1, <2>2
<1>7. LabelsOf(batch) = Gathered(LabelsAt(d), DOMAIN d)
  <2>1. \A v : v \in LabelsOf(batch) <=> \E k \in DOMAIN d :
                 IsLabel(d[k]) /\ v = <<d[k].s, TypeLabel[d[k].o]>>
    <3>1. \A v : v \in LabelsOf(batch) <=> \E s \in Subjects(d) : v \in batch[s].labels
      BY <1>3 DEF LabelsOf
    <3>2. \A s \in Subjects(d) : \A v : v \in batch[s].labels <=>
            \E k \in DOMAIN d : d[k].s = s /\ IsLabel(d[k]) /\ v = <<s, TypeLabel[d[k].o]>>
      BY <1>4 DEF SubjectMakes
    <3> QED BY <1>3, <3>1, <3>2
  <2>2. \A v : v \in Gathered(LabelsAt(d), DOMAIN d) <=> \E k \in DOMAIN d :
                 IsLabel(d[k]) /\ v = <<d[k].s, TypeLabel[d[k].o]>>
    <3>1. \A v : v \in Gathered(LabelsAt(d), DOMAIN d) <=>
                   \E k \in DOMAIN d : v \in TripleGraph(d[k]).labels
      BY DEF Gathered, LabelsAt
    <3>2. \A k \in DOMAIN d : \A v : v \in TripleGraph(d[k]).labels <=>
            IsLabel(d[k]) /\ v = <<d[k].s, TypeLabel[d[k].o]>>
      BY <1>5 DEF TripleMakes
    <3> QED BY <3>1, <3>2
  <2> QED BY <2>1, <2>2
<1>8. EdgesOf(batch) = Gathered(EdgesAt(d), DOMAIN d)
  <2>1. \A v : v \in EdgesOf(batch) <=> \E k \in DOMAIN d :
                 IsEdge(d[k]) /\ v = <<d[k].s, d[k].p, d[k].o>>
    <3>1. \A v : v \in EdgesOf(batch) <=> \E s \in Subjects(d) : v \in batch[s].edges
      BY <1>3 DEF EdgesOf
    <3>2. \A s \in Subjects(d) : \A v : v \in batch[s].edges <=>
            \E k \in DOMAIN d : d[k].s = s /\ IsEdge(d[k]) /\ v = <<s, d[k].p, d[k].o>>
      BY <1>4 DEF SubjectMakes
    <3> QED BY <1>3, <3>1, <3>2
  <2>2. \A v : v \in Gathered(EdgesAt(d), DOMAIN d) <=> \E k \in DOMAIN d :
                 IsEdge(d[k]) /\ v = <<d[k].s, d[k].p, d[k].o>>
    <3>1. \A v : v \in Gathered(EdgesAt(d), DOMAIN d) <=>
                   \E k \in DOMAIN d : v \in TripleGraph(d[k]).edges
      BY DEF Gathered, EdgesAt
    <3>2. \A k \in DOMAIN d : \A v : v \in TripleGraph(d[k]).edges <=>
            IsEdge(d[k]) /\ v = <<d[k].s, d[k].p, d[k].o>>
      BY <1>5 DEF TripleMakes
    <3> QED BY <3>1, <3>2
  <2> QED BY <2>1, <2>2
<1>9. \A v : v \in KeysOf(batch) <=> \E k \in DOMAIN d :
               IsProperty(d[k]) /\ v = <<d[k].s, LocalName[d[k].p]>>
  <2>1. \A v : v \in KeysOf(batch) <=> \E s \in Subjects(d) : v \in DOMAIN batch[s].props
    BY <1>3 DEF KeysOf
  <2>2. \A s \in Subjects(d) : \A v : v \in DOMAIN batch[s].props <=>
          \E k \in DOMAIN d : d[k].s = s /\ IsProperty(d[k]) /\ v = <<s, LocalName[d[k].p]>>
    BY <1>4 DEF SubjectMakes
  <2>3. ASSUME NEW v
        PROVE  v \in KeysOf(batch) <=> \E k \in DOMAIN d :
                 IsProperty(d[k]) /\ v = <<d[k].s, LocalName[d[k].p]>>
    <3>1. v \in KeysOf(batch) <=> \E s \in Subjects(d) : \E k \in DOMAIN d :
            d[k].s = s /\ IsProperty(d[k]) /\ v = <<s, LocalName[d[k].p]>>
      BY <2>1, <2>2
    <3> QED BY <1>3, <3>1
  <2> QED BY <2>3
<1>10. \A k \in DOMAIN d : \A v : v \in DOMAIN TripleGraph(d[k]).props <=>
         IsProperty(d[k]) /\ v = <<d[k].s, LocalName[d[k].p]>>
  BY <1>5 DEF TripleMakes
<1>11. KeysOf(batch) = Gathered(KeysAt(d), DOMAIN d)
  <2>1. \A v : v \in Gathered(KeysAt(d), DOMAIN d) <=>
                 \E k \in DOMAIN d : v \in DOMAIN TripleGraph(d[k]).props
    BY DEF Gathered, KeysAt
  <2> QED BY <1>9, <1>10, <2>1
<1>12. \A key : SettersIn(d, DOMAIN d, key) = LiteralsAt(d, key)
  BY <1>10 DEF SettersIn, LiteralsAt
<1>13. \A key : key \in KeysOf(batch) <=> LiteralsAt(d, key) # {}
  BY <1>9 DEF LiteralsAt
<1>14. \A key \in KeysOf(batch) :
         batch[key[1]].props[key] = ValueRepr(LastOf(d, LiteralsAt(d, key)).o)
  <2>1. SUFFICES ASSUME NEW key \in KeysOf(batch)
        PROVE  batch[key[1]].props[key] = ValueRepr(LastOf(d, LiteralsAt(d, key)).o)
    OBVIOUS
  <2>2. PICK s \in Subjects(d) : key \in DOMAIN batch[s].props
    BY <1>3 DEF KeysOf
  <2>3. key[1] = s
    BY <1>3, <2>2 DEF OwnProps
  <2>4. batch[s].props[key] = ValueRepr(LastLiteral(d, LiteralsAt(d, key)))
    BY <1>4, <2>2 DEF SubjectMakes
  <2> QED BY <2>3, <2>4 DEF LastLiteral
<1>15. r.props = m.props
  BY <1>1, <1>2, <1>11, <1>12, <1>13, <1>14
<1>16. r.nodes = m.nodes /\ r.labels = m.labels /\ r.edges = m.edges
  BY <1>1, <1>2, <1>6, <1>7, <1>8
<1> QED BY <1>1, <1>2, <1>15, <1>16 DEF r, m

(* Grouping by subject, the order of the statements, earlier tries: none   *)
(* of them makes a difference to what the triples one by one would give.   *)
THEOREM BatchesAgree == Spec => []BatchAgreesWithTriples
<1>1. ASSUME KeptInv, Succeeded, ScopedBlanks = {}, IsFlat(data)
      PROVE  graph = TripleByTriple(origin, data)
  <2>1. PICK batch \in Batches(data) : HoldsAll(graph, batch)
    BY <1>1 DEF KeptInv, AnswerInv, Succeeded
  <2>2. graph = ApplyAll(origin, batch)
    BY <1>1, <2>1, GrownToTheEnd DEF KeptInv, RunInv, GrownInv
  <2>3. PICK n \in 0 .. MaxScopes - 1 : sent \in Documents /\ data = Parsed(sent, n)
    BY <1>1 DEF KeptInv, RunInv, Succeeded
  <2>4. IsData(data)
    BY <2>3, ParsedIsData
  <2>5. IsGraph(origin)
    BY <1>1 DEF KeptInv, RunInv
  <2> QED BY <1>1, <2>2, <2>4, <2>5, FlatAgrees, TripleByTripleMerges
<1>2. KeptInv => BatchAgreesWithTriples
  BY <1>1 DEF BatchAgreesWithTriples, IsFlat
<1> QED BY <1>2, KeptAlways, PTL
=============================================================================
