------------------------ MODULE TripleIndexesProofs -------------------------
(***************************************************************************)
(* Proofs about TripleIndexes, for any threads and any calls they make     *)
(* with any arguments, in every order of their sections.                   *)
(***************************************************************************)
EXTENDS TripleIndexes, SequenceTheorems, FiniteSetTheorems, WellFoundedInduction, TLAPS

-----------------------------------------------------------------------------
(* Where a thread stands *)

SectionNames ==
    {"id of namespace", "namespace", "local", "edge", "count", "total", "subject of type", "type",
     "take namespace", "drop id", "drop subject", "drop type", "take types", "drop subjects",
     "drop edge", "count down", "total down", "read total", "read count",
     "clear ids", "clear namespaces", "clear locals", "clear subjects", "clear types",
     "clear edges", "clear counts", "clear total"}

(* The sections that always come one after the other. *)
Then(name) ==
    CASE name = "id of namespace" -> "namespace"
      [] name = "edge" -> "count"
      [] name = "count" -> "total"
      [] name = "subject of type" -> "type"
      [] name = "take namespace" -> "drop id"
      [] name = "drop subject" -> "drop type"
      [] name = "take types" -> "drop subjects"
      [] name = "drop edge" -> "count down"
      [] name = "count down" -> "total down"
      [] name = "read total" -> "read count"
      [] name = "clear ids" -> "clear namespaces"
      [] name = "clear subjects" -> "clear types"
      [] name = "clear edges" -> "clear counts"
      [] name = "clear counts" -> "clear total"
      [] OTHER -> "any"

Before(name) ==
    CASE name = "namespace" -> "id of namespace"
      [] name = "count" -> "edge"
      [] name = "total" -> "count"
      [] name = "type" -> "subject of type"
      [] name = "drop id" -> "take namespace"
      [] name = "drop type" -> "drop subject"
      [] name = "drop subjects" -> "take types"
      [] name = "count down" -> "drop edge"
      [] name = "total down" -> "count down"
      [] name = "read count" -> "read total"
      [] name = "clear namespaces" -> "clear ids"
      [] name = "clear types" -> "clear subjects"
      [] name = "clear counts" -> "clear edges"
      [] name = "clear total" -> "clear counts"
      [] OTHER -> "any"

Linked(names) ==
    \A i \in DOMAIN names :
        /\ Then(names[i]) # "any" => i + 1 \in DOMAIN names /\ names[i + 1] = Then(names[i])
        /\ Before(names[i]) # "any" /\ i # 1 => names[i - 1] = Before(names[i])

(* What a call is that has section name. *)
Belongs(c, name) ==
    /\ name \in {"id of namespace", "namespace"} =>
         c.op = "add_namespace" \/ (c.op = "index_triple" /\ At(c, "namespace") # None)
    /\ name \in {"local", "edge", "count", "total"} => c.op = "index_triple"
    /\ name \in {"subject of type", "type"} =>
         c.op = "add_type" \/ (c.op = "index_triple" /\ AddsType(c))
    /\ name \in {"take namespace", "drop id"} => c.op = "remove_namespace"
    /\ name \in {"drop subject", "drop type"} => c.op = "remove_type"
    /\ name \in {"take types", "drop subjects"} => c.op = "remove_subject"
    /\ name \in {"drop edge", "count down", "total down"} => c.op = "remove_edge"
    /\ name \in {"read total", "read count"} => c.op = "selectivity"
    /\ name \in {"clear ids", "clear namespaces", "clear locals", "clear subjects",
                 "clear types", "clear edges", "clear counts", "clear total"} => c.op = "clear"

Stands(t, name) == Running(t) /\ Head(todo[t]) = name

PhaseInv ==
    /\ DOMAIN call = Threads /\ DOMAIN todo = Threads
    /\ DOMAIN found = Threads /\ DOMAIN answer = Threads
    /\ \A t \in Threads :
         /\ todo[t] \in Seq(SectionNames) /\ Linked(todo[t])
         /\ Running(t) => call[t] \in Calls
         /\ \A i \in DOMAIN todo[t] : Belongs(call[t], todo[t][i])

(***************************************************************************)
(* The invariant                                                           *)
(***************************************************************************)

Standing(name) == {t \in Threads : Stands(t, name)}
StandingAt(name, p) == {t \in Standing(name) : call[t].p = p}
Type(c) == IF c.op = "add_type" THEN c.type ELSE c.o

OverlapInv ==
    \A t \in Threads : \A u \in Threads \ {t} :
        Running(t) /\ Running(u) => Adds(call[t]) \cap Removes(call[u]) \subseteq tangled

DisturbInv ==
    \A t \in Threads : \A u \in Threads \ {t} :
        Running(t) /\ Running(u) /\ call[t].op = "selectivity" /\ Adds(call[u]) # {}
        => t \in disturbed

ShapeInv ==
    /\ DOMAIN index = {"ids_by_namespace", "namespace_of", "ids_by_local", "subjects_by_type",
                       "types_by_subject", "edges", "counts", "total"}
    /\ \A e \in index.ids_by_namespace : e = <<e[1], e[2]>>
    /\ \A e \in index.subjects_by_type : e = <<e[1], e[2]>>
    /\ \A e \in index.types_by_subject : e = <<e[1], e[2]>>
    /\ IsFiniteSet(index.edges) /\ IsFiniteSet(DOMAIN index.counts)
    /\ \A p \in DOMAIN index.counts : <<"edges", p>> \in Keys

(* The types of subject s while no call adds to what another one removes   *)
(* from.                                                                   *)
LosesType(t, s, type) ==
    \/ Stands(t, "drop type") /\ call[t].s = s /\ call[t].type = type
    \/ Stands(t, "clear types")

GetsTypeOrLosesSubject(t, s, type) ==
    \/ Stands(t, "type") /\ call[t].s = s /\ Type(call[t]) = type
    \/ Stands(t, "drop subjects") /\ call[t].s = s /\ type \in found[t]

TypesLead(s) ==
    \A e \in index.types_by_subject :
        e[1] = s /\ <<e[2], s>> \notin index.subjects_by_type =>
            \E t \in Threads : LosesType(t, s, e[2])

SubjectsLead(s) ==
    \A e \in index.subjects_by_type :
        e[2] = s /\ <<s, e[1]>> \notin index.types_by_subject =>
            \E t \in Threads : GetsTypeOrLosesSubject(t, s, e[1])

TypesUnderway(s) ==
    \A t \in Threads :
        /\ Stands(t, "type") /\ call[t].s = s =>
             <<Type(call[t]), s>> \in index.subjects_by_type
        /\ Stands(t, "drop type") /\ call[t].s = s =>
             <<call[t].type, s>> \notin index.subjects_by_type
        /\ Stands(t, "drop subjects") /\ call[t].s = s =>
             \A e \in index.types_by_subject : e[1] # s
        /\ Stands(t, "clear types") => \A e \in index.subjects_by_type : e[2] # s

TypesInv(s) == TypesLead(s) /\ SubjectsLead(s) /\ TypesUnderway(s)

(* The namespace of node s, likewise, if it never had two.                 *)
NamespaceLeads(s) ==
    s \in DOMAIN index.namespace_of /\ <<index.namespace_of[s], s>> \notin index.ids_by_namespace
    => \E t \in Threads : Stands(t, "clear namespaces")

GetsOrLosesNamespace(t, s, namespace) ==
    \/ Stands(t, "namespace") /\ call[t].s = s /\ call[t].namespace = namespace
    \/ Stands(t, "drop id") /\ call[t].s = s /\ namespace \in found[t]

NodesLead(s) ==
    \A e \in index.ids_by_namespace :
        e[2] = s /\ ~(s \in DOMAIN index.namespace_of /\ index.namespace_of[s] = e[1]) =>
            \E t \in Threads : GetsOrLosesNamespace(t, s, e[1])

NamespacesUnderway(s) ==
    \A t \in Threads :
        /\ Stands(t, "namespace") /\ call[t].s = s =>
             <<call[t].namespace, s>> \in index.ids_by_namespace
        /\ Stands(t, "drop id") /\ call[t].s = s => s \notin DOMAIN index.namespace_of
        /\ Stands(t, "clear namespaces") => \A e \in index.ids_by_namespace : e[2] # s

OneNamespace(s) ==
    \A d, e \in index.ids_by_namespace : d[2] = s /\ e[2] = s => d[1] = e[1]

NamespacesInv(s) ==
    OneNamespace(s) /\ NamespaceLeads(s) /\ NodesLead(s) /\ NamespacesUnderway(s)

(* The edges of predicate p and their count, likewise.                     *)
CountsInv(p) ==
    /\ CountOf(p) + Cardinality(StandingAt("count", p))
         >= Cardinality(EdgesOf(p)) + Cardinality(StandingAt("count down", p))
    /\ p \notin repeated /\ Standing("clear counts") = {} =>
         CountOf(p) + Cardinality(StandingAt("count", p))
           = Cardinality(EdgesOf(p)) + Cardinality(StandingAt("count down", p))
    /\ Standing("clear counts") # {} => EdgesOf(p) = {}
    /\ CountOf(p) >= Cardinality(StandingAt("total", p))

(* What of the count of a predicate is in the total already. *)
Settled == [p \in DOMAIN index.counts |-> index.counts[p] - Cardinality(StandingAt("total", p))]
SumOf(f, S) == FoldFunctionOnSet(+, 0, f, S)

TotalInv ==
    /\ Standing("clear total") = {} =>
         index.total = SumOf(Settled, DOMAIN Settled) + Cardinality(Standing("total down"))
    /\ Standing("clear total") # {} => DOMAIN index.counts = {}

SelectivityInv ==
    \A t \in Threads :
        Stands(t, "read count") /\ t \notin disturbed =>
           found[t] \in Nat /\ CountOf(call[t].p) <= found[t]

MirrorInv ==
    \A k \in Keys \ tangled :
        /\ k[1] = "types" => TypesInv(k[2])
        /\ k[1] = "namespace" /\ k[2] \notin moved => NamespacesInv(k[2])

SumsInv ==
    /\ \A k \in PredicateKeys \ tangled : CountsInv(k[2])
    /\ PredicateKeys \cap tangled = {} => TotalInv /\ SelectivityInv

NothingCounted == PredicateKeys = {} => index.total = 0

IInv ==
    /\ TypeOK /\ PhaseInv /\ ShapeInv /\ OverlapInv /\ DisturbInv
    /\ MirrorInv /\ SumsInv /\ NothingCounted
-----------------------------------------------------------------------------
(* Lemmas *)

LEMMA ThenBefore ==
  ASSUME NEW n
  PROVE  /\ Then(n) # "any" => Before(Then(n)) = n
         /\ Before(n) # "any" => Then(Before(n)) = n
BY DEF Then, Before

LEMMA TailLinked ==
  ASSUME NEW names \in Seq(SectionNames), names # << >>, Linked(names)
  PROVE  /\ Tail(names) \in Seq(SectionNames)
         /\ Linked(Tail(names))
         /\ \A n : Before(n) # "any" =>
              (Tail(names) # << >> /\ Head(Tail(names)) = n <=> Then(Head(names)) = n)
         /\ \A i \in DOMAIN Tail(names) : i + 1 \in DOMAIN names /\ Tail(names)[i] = names[i + 1]
<1>1. /\ Tail(names) \in Seq(SectionNames) /\ Len(Tail(names)) = Len(names) - 1
      /\ Len(names) \in Nat /\ DOMAIN names = 1 .. Len(names) /\ Len(names) >= 1
      /\ DOMAIN Tail(names) = 1 .. Len(names) - 1
      /\ \A i \in DOMAIN Tail(names) : Tail(names)[i] = names[i + 1]
      /\ Head(names) = names[1]
  BY HeadTailProperties, LenProperties
<1>2. Linked(Tail(names))
  BY <1>1 DEF Linked
<1>3. Tail(names) # << >> => 1 \in DOMAIN Tail(names) /\ Head(Tail(names)) = names[2]
  BY <1>1
<1>4. ASSUME NEW n, Before(n) # "any"
      PROVE  Tail(names) # << >> /\ Head(Tail(names)) = n <=> Then(Head(names)) = n
  <2>1. ASSUME Tail(names) # << >>, Head(Tail(names)) = n
        PROVE  Then(Head(names)) = n
    <3>1. 2 \in DOMAIN names /\ names[2] = n
      BY <1>1, <1>3, <2>1
    <3>2. names[2 - 1] = Before(n)
      BY <1>4, <3>1 DEF Linked
    <3> QED BY <1>1, <1>4, <3>2, ThenBefore
  <2>2. ASSUME Then(Head(names)) = n
        PROVE  Tail(names) # << >> /\ Head(Tail(names)) = n
    <3>1. n # "any"
      BY <1>4 DEF Before
    <3>2. 1 + 1 \in DOMAIN names /\ names[1 + 1] = n
      BY <1>1, <2>2, <3>1 DEF Linked
    <3>3. Len(Tail(names)) >= 1
      BY <1>1, <3>2
    <3>4. Tail(names) # << >>
      <4>1. \A q \in Seq(SectionNames) : q = << >> => Len(q) = 0
        BY EmptySeq
      <4> QED BY <1>1, <3>3, <4>1
    <3> QED BY <1>3, <3>2, <3>4
  <2> QED BY <2>1, <2>2
<1> QED BY <1>1, <1>2, <1>4

(* What a section leaves of the places where the threads stand. *)
LEMMA SectionMoves ==
  ASSUME PhaseInv, NEW t \in Threads, Stands(t, Head(todo[t])),
         todo' = [todo EXCEPT ![t] = Tail(@)], call' = call,
         DOMAIN found' = Threads, DOMAIN answer' = Threads
  PROVE  /\ PhaseInv'
         /\ \A u \in Threads \ {t} : \A n : Stands(u, n)' <=> Stands(u, n)
         /\ \A n : Before(n) # "any" => (Stands(t, n)' <=> Then(Head(todo[t])) = n)
         /\ \A u \in Threads : Running(u)' => Running(u)
<1>1. /\ todo'[t] = Tail(todo[t])
      /\ \A u \in Threads \ {t} : todo'[u] = todo[u]
  BY DEF PhaseInv
<1>2. /\ Tail(todo[t]) \in Seq(SectionNames)
      /\ Linked(Tail(todo[t]))
      /\ \A n : Before(n) # "any" =>
              (Tail(todo[t]) # << >> /\ Head(Tail(todo[t])) = n <=> Then(Head(todo[t])) = n)
      /\ \A i \in DOMAIN Tail(todo[t]) : i + 1 \in DOMAIN todo[t] /\ Tail(todo[t])[i] = todo[t][i + 1]
  BY TailLinked DEF PhaseInv, Stands, Running
<1>3. PhaseInv'
  <2>1. ASSUME NEW u \in Threads
        PROVE  /\ todo'[u] \in Seq(SectionNames) /\ Linked(todo'[u])
               /\ Running(u)' => call'[u] \in Calls
               /\ \A i \in DOMAIN todo'[u] : Belongs(call'[u], todo'[u][i])
    <3>1. CASE u = t
      BY <1>1, <1>2, <3>1 DEF PhaseInv, Stands
    <3>2. CASE u # t
      BY <1>1, <3>2 DEF PhaseInv, Running
    <3> QED BY <3>1, <3>2
  <2>2. DOMAIN call' = Threads /\ DOMAIN todo' = Threads
    BY DEF PhaseInv
  <2> QED BY <2>1, <2>2 DEF PhaseInv
<1>4. \A u \in Threads \ {t} : \A n : Stands(u, n)' <=> Stands(u, n)
  BY <1>1 DEF Stands, Running
<1>5. \A n : Before(n) # "any" => (Stands(t, n)' <=> Then(Head(todo[t])) = n)
  BY <1>1, <1>2 DEF Stands, Running
<1>6. \A u \in Threads : Running(u)' => Running(u)
  BY <1>1 DEF Stands, Running
<1> QED BY <1>3, <1>4, <1>5, <1>6

(* The sections of a call begin at none that comes after another one.      *)
Chains(c, names) ==
    /\ names \in Seq(SectionNames) /\ Linked(names)
    /\ names # << >> => Before(names[1]) = "any"
    /\ \A i \in DOMAIN names : Belongs(c, names[i])

LEMMA ChainsJoin ==
  ASSUME NEW c, NEW a, NEW b, Chains(c, a), Chains(c, b)
  PROVE  Chains(c, a \o b)
<1> DEFINE ab == a \o b
<1>1. /\ ab \in Seq(SectionNames) /\ Len(ab) = Len(a) + Len(b)
      /\ \A i \in 1 .. Len(a) + Len(b) : ab[i] = IF i <= Len(a) THEN a[i] ELSE b[i - Len(a)]
  BY ConcatProperties DEF Chains
<1>2. /\ Len(a) \in Nat /\ Len(b) \in Nat /\ DOMAIN a = 1 .. Len(a) /\ DOMAIN b = 1 .. Len(b)
      /\ DOMAIN ab = 1 .. Len(a) + Len(b)
  BY <1>1, LenProperties DEF Chains
<1> HIDE DEF ab
<1>3. ASSUME NEW i \in DOMAIN ab, i <= Len(a)
      PROVE  /\ Then(ab[i]) # "any" => i + 1 \in DOMAIN ab /\ ab[i + 1] = Then(ab[i])
             /\ Before(ab[i]) # "any" /\ i # 1 => ab[i - 1] = Before(ab[i])
             /\ Belongs(c, ab[i])
             /\ i = 1 => Before(ab[i]) = "any"
  <2>1. i \in DOMAIN a /\ ab[i] = a[i]
    BY <1>1, <1>2, <1>3
  <2>2. Then(a[i]) # "any" => i + 1 \in DOMAIN a /\ a[i + 1] = Then(a[i])
    BY <2>1 DEF Chains, Linked
  <2>3. Before(a[i]) # "any" /\ i # 1 => a[i - 1] = Before(a[i])
    BY <2>1 DEF Chains, Linked
  <2>4. i = 1 => a # << >>
    BY <1>2, <2>1, EmptySeq DEF Chains
  <2> QED BY <1>1, <1>2, <2>1, <2>2, <2>3, <2>4 DEF Chains
<1>4. ASSUME NEW i \in DOMAIN ab, i > Len(a)
      PROVE  /\ Then(ab[i]) # "any" => i + 1 \in DOMAIN ab /\ ab[i + 1] = Then(ab[i])
             /\ Before(ab[i]) # "any" /\ i # 1 => ab[i - 1] = Before(ab[i])
             /\ Belongs(c, ab[i])
             /\ i = 1 => Before(ab[i]) = "any"
  <2> DEFINE j == i - Len(a)
  <2>1. j \in DOMAIN b /\ ab[i] = b[j]
    BY <1>1, <1>2, <1>4
  <2>2. Then(b[j]) # "any" => j + 1 \in DOMAIN b /\ b[j + 1] = Then(b[j])
    BY <2>1 DEF Chains, Linked
  <2>3. Before(b[j]) # "any" /\ j # 1 => b[j - 1] = Before(b[j])
    BY <2>1 DEF Chains, Linked
  <2>4. j = 1 => Before(b[j]) = "any"
    BY <1>2, <2>1, EmptySeq DEF Chains
  <2>5. j + 1 \in DOMAIN b => ab[i + 1] = b[j + 1] /\ i + 1 \in DOMAIN ab
    BY <1>1, <1>2, <2>1
  <2>6. j # 1 => ab[i - 1] = b[j - 1]
    BY <1>1, <1>2, <2>1
  <2>7. i = 1 => j = 1
    BY <1>2, <2>1
  <2>8. Belongs(c, b[j])
    BY <2>1 DEF Chains
  <2> HIDE DEF j
  <2> QED BY <2>1, <2>2, <2>3, <2>4, <2>5, <2>6, <2>7, <2>8
<1>5. Linked(ab) /\ \A i \in DOMAIN ab : Belongs(c, ab[i])
  BY <1>2, <1>3, <1>4 DEF Linked
<1>6. ab # << >> => Before(ab[1]) = "any"
  <2>1. ab # << >> => 1 \in DOMAIN ab
    BY <1>1, <1>2, EmptySeq DEF ab
  <2> QED BY <1>2, <1>3, <1>4, <2>1
<1> QED BY <1>1, <1>5, <1>6 DEF Chains, ab

LEMMA Chain1 ==
  ASSUME NEW c, NEW a \in SectionNames, Before(a) = "any", Then(a) = "any", Belongs(c, a)
  PROVE  Chains(c, <<a>>)
BY DEF Chains, Linked

LEMMA Chain2 ==
  ASSUME NEW c, NEW a \in SectionNames, NEW b \in SectionNames,
         Before(a) = "any", Then(a) = b, Before(b) = a, Then(b) = "any",
         Belongs(c, a), Belongs(c, b)
  PROVE  Chains(c, <<a, b>>)
<1> DEFINE ab == <<a, b>>
<1>1. ab \in Seq(SectionNames) /\ DOMAIN ab = {1, 2} /\ ab[1] = a /\ ab[2] = b
  OBVIOUS
<1> HIDE DEF ab
<1> QED BY <1>1 DEF Chains, Linked

LEMMA Chain3 ==
  ASSUME NEW c, NEW a \in SectionNames, NEW b \in SectionNames, NEW d \in SectionNames,
         Before(a) = "any", Then(a) = b, Before(b) = a, Then(b) = d, Before(d) = b, Then(d) = "any",
         Belongs(c, a), Belongs(c, b), Belongs(c, d)
  PROVE  Chains(c, <<a, b, d>>)
<1> DEFINE abd == <<a, b, d>>
<1>1. abd \in Seq(SectionNames) /\ DOMAIN abd = {1, 2, 3} /\ abd[1] = a /\ abd[2] = b /\ abd[3] = d
  OBVIOUS
<1> HIDE DEF abd
<1> QED BY <1>1 DEF Chains, Linked

(* The chains that calls consist of. *)
LEMMA ChainsOfCalls ==
  ASSUME NEW c
  PROVE  /\ c.op = "add_namespace" \/ (c.op = "index_triple" /\ At(c, "namespace") # None)
            => Chains(c, <<"id of namespace", "namespace">>)
         /\ c.op = "add_type" \/ (c.op = "index_triple" /\ AddsType(c))
            => Chains(c, <<"subject of type", "type">>)
         /\ c.op = "remove_namespace"
            => Chains(c, <<"take namespace", "drop id">>)
         /\ c.op = "remove_type"
            => Chains(c, <<"drop subject", "drop type">>)
         /\ c.op = "remove_subject"
            => Chains(c, <<"take types", "drop subjects">>)
         /\ c.op = "selectivity"
            => Chains(c, <<"read total", "read count">>)
         /\ c.op = "clear"
            => Chains(c, <<"clear ids", "clear namespaces">>)
         /\ c.op = "clear"
            => Chains(c, <<"clear subjects", "clear types">>)
         /\ c.op = "index_triple"
            => Chains(c, <<"edge", "count", "total">>)
         /\ c.op = "remove_edge"
            => Chains(c, <<"drop edge", "count down", "total down">>)
         /\ c.op = "clear"
            => Chains(c, <<"clear edges", "clear counts", "clear total">>)
         /\ c.op = "index_triple" => Chains(c, <<"local">>)
         /\ c.op = "clear" => Chains(c, <<"clear locals">>)
<1>1. ASSUME c.op = "add_namespace" \/ (c.op = "index_triple" /\ At(c, "namespace") # None)
      PROVE  Chains(c, <<"id of namespace", "namespace">>)
  <2>1. /\ Before("id of namespace") = "any" /\ Then("id of namespace") = "namespace"
        /\ Before("namespace") = "id of namespace" /\ Then("namespace") = "any"
    BY DEF Then, Before
  <2>2. /\ Belongs(c, "id of namespace")
        /\ Belongs(c, "namespace")
    BY <1>1 DEF Belongs
  <2>3. {"id of namespace", "namespace"} \subseteq SectionNames
    BY DEF SectionNames
  <2> QED BY <2>1, <2>2, <2>3, Chain2
<1>2. ASSUME c.op = "add_type" \/ (c.op = "index_triple" /\ AddsType(c))
      PROVE  Chains(c, <<"subject of type", "type">>)
  <2>1. /\ Before("subject of type") = "any" /\ Then("subject of type") = "type"
        /\ Before("type") = "subject of type" /\ Then("type") = "any"
    BY DEF Then, Before
  <2>2. /\ Belongs(c, "subject of type")
        /\ Belongs(c, "type")
    BY <1>2 DEF Belongs
  <2>3. {"subject of type", "type"} \subseteq SectionNames
    BY DEF SectionNames
  <2> QED BY <2>1, <2>2, <2>3, Chain2
<1>3. ASSUME c.op = "remove_namespace"
      PROVE  Chains(c, <<"take namespace", "drop id">>)
  <2>1. /\ Before("take namespace") = "any" /\ Then("take namespace") = "drop id"
        /\ Before("drop id") = "take namespace" /\ Then("drop id") = "any"
    BY DEF Then, Before
  <2>2. /\ Belongs(c, "take namespace")
        /\ Belongs(c, "drop id")
    BY <1>3 DEF Belongs
  <2>3. {"take namespace", "drop id"} \subseteq SectionNames
    BY DEF SectionNames
  <2> QED BY <2>1, <2>2, <2>3, Chain2
<1>4. ASSUME c.op = "remove_type"
      PROVE  Chains(c, <<"drop subject", "drop type">>)
  <2>1. /\ Before("drop subject") = "any" /\ Then("drop subject") = "drop type"
        /\ Before("drop type") = "drop subject" /\ Then("drop type") = "any"
    BY DEF Then, Before
  <2>2. /\ Belongs(c, "drop subject")
        /\ Belongs(c, "drop type")
    BY <1>4 DEF Belongs
  <2>3. {"drop subject", "drop type"} \subseteq SectionNames
    BY DEF SectionNames
  <2> QED BY <2>1, <2>2, <2>3, Chain2
<1>5. ASSUME c.op = "remove_subject"
      PROVE  Chains(c, <<"take types", "drop subjects">>)
  <2>1. /\ Before("take types") = "any" /\ Then("take types") = "drop subjects"
        /\ Before("drop subjects") = "take types" /\ Then("drop subjects") = "any"
    BY DEF Then, Before
  <2>2. /\ Belongs(c, "take types")
        /\ Belongs(c, "drop subjects")
    BY <1>5 DEF Belongs
  <2>3. {"take types", "drop subjects"} \subseteq SectionNames
    BY DEF SectionNames
  <2> QED BY <2>1, <2>2, <2>3, Chain2
<1>6. ASSUME c.op = "selectivity"
      PROVE  Chains(c, <<"read total", "read count">>)
  <2>1. /\ Before("read total") = "any" /\ Then("read total") = "read count"
        /\ Before("read count") = "read total" /\ Then("read count") = "any"
    BY DEF Then, Before
  <2>2. /\ Belongs(c, "read total")
        /\ Belongs(c, "read count")
    BY <1>6 DEF Belongs
  <2>3. {"read total", "read count"} \subseteq SectionNames
    BY DEF SectionNames
  <2> QED BY <2>1, <2>2, <2>3, Chain2
<1>7. ASSUME c.op = "clear"
      PROVE  Chains(c, <<"clear ids", "clear namespaces">>)
  <2>1. /\ Before("clear ids") = "any" /\ Then("clear ids") = "clear namespaces"
        /\ Before("clear namespaces") = "clear ids" /\ Then("clear namespaces") = "any"
    BY DEF Then, Before
  <2>2. /\ Belongs(c, "clear ids")
        /\ Belongs(c, "clear namespaces")
    BY <1>7 DEF Belongs
  <2>3. {"clear ids", "clear namespaces"} \subseteq SectionNames
    BY DEF SectionNames
  <2> QED BY <2>1, <2>2, <2>3, Chain2
<1>8. ASSUME c.op = "clear"
      PROVE  Chains(c, <<"clear subjects", "clear types">>)
  <2>1. /\ Before("clear subjects") = "any" /\ Then("clear subjects") = "clear types"
        /\ Before("clear types") = "clear subjects" /\ Then("clear types") = "any"
    BY DEF Then, Before
  <2>2. /\ Belongs(c, "clear subjects")
        /\ Belongs(c, "clear types")
    BY <1>8 DEF Belongs
  <2>3. {"clear subjects", "clear types"} \subseteq SectionNames
    BY DEF SectionNames
  <2> QED BY <2>1, <2>2, <2>3, Chain2
<1>9. ASSUME c.op = "index_triple"
      PROVE  Chains(c, <<"edge", "count", "total">>)
  <2>1. /\ Before("edge") = "any" /\ Then("edge") = "count"
        /\ Before("count") = "edge" /\ Then("count") = "total"
        /\ Before("total") = "count" /\ Then("total") = "any"
    BY DEF Then, Before
  <2>2. /\ Belongs(c, "edge")
        /\ Belongs(c, "count")
        /\ Belongs(c, "total")
    BY <1>9 DEF Belongs
  <2>3. {"edge", "count", "total"} \subseteq SectionNames
    BY DEF SectionNames
  <2> QED BY <2>1, <2>2, <2>3, Chain3
<1>10. ASSUME c.op = "remove_edge"
      PROVE  Chains(c, <<"drop edge", "count down", "total down">>)
  <2>1. /\ Before("drop edge") = "any" /\ Then("drop edge") = "count down"
        /\ Before("count down") = "drop edge" /\ Then("count down") = "total down"
        /\ Before("total down") = "count down" /\ Then("total down") = "any"
    BY DEF Then, Before
  <2>2. /\ Belongs(c, "drop edge")
        /\ Belongs(c, "count down")
        /\ Belongs(c, "total down")
    BY <1>10 DEF Belongs
  <2>3. {"drop edge", "count down", "total down"} \subseteq SectionNames
    BY DEF SectionNames
  <2> QED BY <2>1, <2>2, <2>3, Chain3
<1>11. ASSUME c.op = "clear"
      PROVE  Chains(c, <<"clear edges", "clear counts", "clear total">>)
  <2>1. /\ Before("clear edges") = "any" /\ Then("clear edges") = "clear counts"
        /\ Before("clear counts") = "clear edges" /\ Then("clear counts") = "clear total"
        /\ Before("clear total") = "clear counts" /\ Then("clear total") = "any"
    BY DEF Then, Before
  <2>2. /\ Belongs(c, "clear edges")
        /\ Belongs(c, "clear counts")
        /\ Belongs(c, "clear total")
    BY <1>11 DEF Belongs
  <2>3. {"clear edges", "clear counts", "clear total"} \subseteq SectionNames
    BY DEF SectionNames
  <2> QED BY <2>1, <2>2, <2>3, Chain3
<1>12. ASSUME c.op \in {"index_triple", "clear"}, NEW name \in {"local", "clear locals"},
             name = "local" <=> c.op = "index_triple"
      PROVE  Chains(c, <<name>>)
  <2>1. Before(name) = "any" /\ Then(name) = "any"
    BY DEF Then, Before
  <2>2. Belongs(c, name)
    BY <1>12 DEF Belongs
  <2>3. name \in SectionNames
    BY DEF SectionNames
  <2> QED BY <2>1, <2>2, <2>3, Chain1
<1> QED BY <1>1, <1>2, <1>3, <1>4, <1>5, <1>6, <1>7, <1>8, <1>9, <1>10, <1>11, <1>12

LEMMA SectionsChain ==
  ASSUME NEW c \in Calls
  PROVE  Chains(c, Sections(c))
<1>1. Chains(c, << >>)
  BY DEF Chains, Linked
<1>2. CASE c.op = "index_triple"
  <2> DEFINE space == IF At(c, "namespace") = None THEN << >> ELSE <<"id of namespace", "namespace">>
             local == IF At(c, "local") = None THEN << >> ELSE <<"local">>
             edge == <<"edge", "count", "total">>
             type == IF AddsType(c) THEN <<"subject of type", "type">> ELSE << >>
  <2>1. Chains(c, space) /\ Chains(c, local) /\ Chains(c, edge) /\ Chains(c, type)
    BY <1>1, <1>2, ChainsOfCalls
  <2>2. Sections(c) = space \o local \o edge \o type
    BY <1>2 DEF Sections
  <2> HIDE DEF space, local, edge, type
  <2> QED BY <2>1, <2>2, ChainsJoin
<1>3. CASE c.op = "clear"
  <2>1. Sections(c) = <<"clear ids", "clear namespaces">> \o <<"clear locals">>
                      \o <<"clear subjects", "clear types">>
                      \o <<"clear edges", "clear counts", "clear total">>
    BY <1>3 DEF Sections
  <2> QED BY <1>3, <2>1, ChainsOfCalls, ChainsJoin
<1>4. CASE c.op = "add_namespace"
  <2>1. Chains(c, <<"id of namespace", "namespace">>)
    BY <1>4, ChainsOfCalls, Zenon
  <2> QED BY <1>4, <2>1 DEF Sections
<1>7. CASE c.op = "add_type"
  <2>1. Chains(c, <<"subject of type", "type">>)
    BY <1>7, ChainsOfCalls, Zenon
  <2> QED BY <1>7, <2>1 DEF Sections
<1>5. CASE c.op \in {"remove_namespace", "remove_type"}
  BY <1>5, ChainsOfCalls DEF Sections
<1>6. CASE c.op \in {"remove_subject", "remove_edge", "selectivity"}
  BY <1>6, ChainsOfCalls DEF Sections
<1> QED BY <1>2, <1>3, <1>4, <1>5, <1>6, <1>7, CallsAssumption
-----------------------------------------------------------------------------
(* Steps *)

LEMMA AddsAndRemoves ==
  ASSUME NEW c \in Calls
  PROVE  /\ c.op = "index_triple" =>
              /\ <<"edges", c.p>> \in Adds(c)
              /\ AddsType(c) => <<"types", c.s>> \in Adds(c)
              /\ At(c, "namespace") # None => <<"namespace", c.s>> \in Adds(c)
         /\ c.op = "add_namespace" => <<"namespace", c.s>> \in Adds(c)
         /\ c.op = "add_type" => <<"types", c.s>> \in Adds(c)
         /\ c.op = "remove_namespace" => <<"namespace", c.s>> \in Removes(c)
         /\ c.op \in {"remove_type", "remove_subject"} => <<"types", c.s>> \in Removes(c)
         /\ c.op = "remove_edge" => <<"edges", c.p>> \in Removes(c)
         /\ c.op = "clear" => Adds(c) = Keys /\ Removes(c) = Keys
         /\ c.op = "selectivity" => Adds(c) = {} /\ Removes(c) = {}
BY DEF Adds, Removes

(* What the call of a thread adds or removes shows where it stands.        *)
TypeAdders == {"subject of type", "type"}
TypeRemovers == {"drop subject", "drop type", "take types", "drop subjects"}
NamespaceAdders == {"id of namespace", "namespace"}
NamespaceRemovers == {"take namespace", "drop id"}
EdgeAdders == {"edge", "count", "total"}
EdgeRemovers == {"drop edge", "count down", "total down"}
Clearers == {"clear ids", "clear namespaces", "clear locals", "clear subjects", "clear types",
             "clear edges", "clear counts", "clear total"}

LEMMA StandsBelong ==
  ASSUME PhaseInv, NEW t \in Threads, Running(t)
  PROVE  call[t] \in Calls /\ Belongs(call[t], Head(todo[t]))
<1>1. todo[t] \in Seq(SectionNames) /\ todo[t] # << >>
  BY DEF PhaseInv, Running
<1>2. 1 \in DOMAIN todo[t] /\ Head(todo[t]) = todo[t][1]
  BY <1>1, HeadTailProperties, LenProperties
<1> QED BY <1>2 DEF PhaseInv

LEMMA PlacesAddAndRemove ==
  ASSUME PhaseInv, NEW t \in Threads, Running(t)
  PROVE  LET c == call[t]
             name == Head(todo[t])
         IN  /\ name \in TypeAdders => <<"types", c.s>> \in Adds(c)
             /\ name \in TypeRemovers => <<"types", c.s>> \in Removes(c)
             /\ name \in NamespaceAdders => <<"namespace", c.s>> \in Adds(c)
             /\ name \in NamespaceRemovers => <<"namespace", c.s>> \in Removes(c)
             /\ name \in EdgeAdders => <<"edges", c.p>> \in Adds(c)
             /\ name \in EdgeRemovers => <<"edges", c.p>> \in Removes(c)
             /\ name \in Clearers => Adds(c) = Keys /\ Removes(c) = Keys
<1> DEFINE c == call[t]
           name == Head(todo[t])
<1>1. c \in Calls
  BY StandsBelong
<1>2. Belongs(c, name)
  BY StandsBelong
<1> HIDE DEF c, name
<1>3. c.op = "add_namespace" => <<"namespace", c.s>> \in Adds(c)
  BY <1>1, AddsAndRemoves
<1>4. c.op = "index_triple" /\ At(c, "namespace") # None => <<"namespace", c.s>> \in Adds(c)
  BY <1>1, AddsAndRemoves
<1>5. name \in NamespaceAdders => <<"namespace", c.s>> \in Adds(c)
  BY <1>2, <1>3, <1>4 DEF Belongs, NamespaceAdders
<1>6. name \in TypeAdders => <<"types", c.s>> \in Adds(c)
  BY <1>1, <1>2, AddsAndRemoves DEF Belongs, TypeAdders
<1>7. /\ name \in TypeRemovers => <<"types", c.s>> \in Removes(c)
      /\ name \in NamespaceRemovers => <<"namespace", c.s>> \in Removes(c)
  BY <1>1, <1>2, AddsAndRemoves DEF Belongs, TypeRemovers, NamespaceRemovers
<1>8. /\ name \in EdgeAdders => <<"edges", c.p>> \in Adds(c)
      /\ name \in EdgeRemovers => <<"edges", c.p>> \in Removes(c)
      /\ name \in Clearers => Adds(c) = Keys /\ Removes(c) = Keys
  BY <1>1, <1>2, AddsAndRemoves DEF Belongs, EdgeAdders, EdgeRemovers, Clearers
<1> QED BY <1>5, <1>6, <1>7, <1>8 DEF c, name

LEMMA Apart ==
  ASSUME OverlapInv, NEW k, k \notin tangled, NEW t \in Threads, NEW u \in Threads \ {t},
         Running(t), Running(u)
  PROVE  /\ k \in Adds(call[t]) => k \notin Removes(call[u])
         /\ k \in Removes(call[t]) => k \notin Adds(call[u])
BY DEF OverlapInv

(* A section ends where Then says, or the call ends with it. *)
Moves(t) ==
    /\ Running(t) /\ todo' = [todo EXCEPT ![t] = Tail(@)]
    /\ UNCHANGED <<call, tangled, disturbed, made>>

SameTypes == /\ index'.types_by_subject = index.types_by_subject
             /\ index'.subjects_by_type = index.subjects_by_type
SameNamespaces == /\ index'.ids_by_namespace = index.ids_by_namespace
                  /\ index'.namespace_of = index.namespace_of
SameEdges == /\ index'.edges = index.edges /\ index'.counts = index.counts
             /\ index'.total = index.total

Ends(t) ==
    /\ Running(t) /\ todo' = [todo EXCEPT ![t] = << >>]
    /\ UNCHANGED <<call, tangled, disturbed, made>>
    /\ SameTypes /\ SameNamespaces /\ SameEdges

Elsewhere(t) == \A u \in Threads \ {t} : found'[u] = found[u] /\ answer'[u] = answer[u]

LEMMA StepMovesOrEnds ==
  ASSUME PhaseInv, ShapeInv, NEW t \in Threads, Step(t)
  PROVE  /\ Moves(t) \/ (Ends(t) /\ Head(todo[t]) \in {"drop edge", "read total"})
         /\ Elsewhere(t) /\ DOMAIN found' = Threads /\ DOMAIN answer' = Threads
         /\ DOMAIN index' = DOMAIN index
         /\ moved \subseteq moved' /\ repeated \subseteq repeated'
<1> USE DEF Section, Quiet, Elsewhere, PhaseInv, ShapeInv, history
<1>1. CASE AddNamespace(t)
  BY <1>1 DEF AddNamespace, Moves
<1>2. CASE AddLocal(t)
  BY <1>2 DEF AddLocal, Moves
<1>3. CASE AddEdge(t)
  BY <1>3 DEF AddEdge, Moves
<1>4. CASE AddType(t)
  BY <1>4 DEF AddType, Moves
<1>5. CASE RemoveNamespace(t)
  BY <1>5 DEF RemoveNamespace, Moves
<1>6. CASE RemoveType(t)
  BY <1>6 DEF RemoveType, Moves
<1>7. CASE RemoveSubject(t)
  BY <1>7 DEF RemoveSubject, Moves
<1>8. CASE RemoveEdge(t)
  <2>1. CASE DropEdge(t) /\ todo' = [todo EXCEPT ![t] = Tail(@)]
    BY <2>1 DEF DropEdge, Moves
  <2>2. CASE /\ DropEdge(t) /\ todo' = [todo EXCEPT ![t] = << >>]
             /\ <<call[t].p, call[t].s, call[t].o>> \notin index.edges
    <3>1. index.edges \ {<<call[t].p, call[t].s, call[t].o>>} = index.edges
      BY <2>2
    <3>2. SameTypes /\ SameNamespaces /\ SameEdges
      BY <2>2, <3>1 DEF DropEdge, SameTypes, SameNamespaces, SameEdges
    <3> QED BY <2>2, <3>2 DEF DropEdge, Ends
  <2>3. CASE CountDown(t) \/ TotalDown(t)
    BY <2>3 DEF CountDown, TotalDown, Moves
  <2> QED BY <1>8, <2>1, <2>2, <2>3 DEF RemoveEdge
<1>9. CASE Selectivity(t)
  BY <1>9 DEF Selectivity, Moves, Ends, SameTypes, SameNamespaces, SameEdges
<1>10. CASE ClearNodes(t)
  BY <1>10 DEF ClearNodes, Moves
<1>11. CASE ClearEdges(t)
  BY <1>11 DEF ClearEdges, Moves
<1> QED BY <1>1, <1>2, <1>3, <1>4, <1>5, <1>6, <1>7, <1>8, <1>9, <1>10, <1>11 DEF Step

LEMMA StepPlaces ==
  ASSUME PhaseInv, ShapeInv, NEW t \in Threads, Step(t)
  PROVE  /\ PhaseInv'
         /\ \A u \in Threads \ {t} : \A n : Stands(u, n)' <=> Stands(u, n)
         /\ \A n : Before(n) # "any" => (Stands(t, n)' => Then(Head(todo[t])) = n)
         /\ Moves(t) => \A n : Before(n) # "any" => (Then(Head(todo[t])) = n => Stands(t, n)')
         /\ \A u \in Threads : Running(u)' => Running(u)
<1>1. CASE Moves(t)
  <2>1. Stands(t, Head(todo[t]))
    BY <1>1 DEF Moves, Stands
  <2>2. DOMAIN found' = Threads /\ DOMAIN answer' = Threads
    BY StepMovesOrEnds
  <2> QED BY <1>1, <2>1, <2>2, SectionMoves DEF Moves
<1>2. CASE Ends(t) /\ ~Moves(t)
  <2>1. /\ todo'[t] = << >> /\ call' = call
        /\ \A u \in Threads \ {t} : todo'[u] = todo[u]
        /\ DOMAIN todo' = Threads /\ DOMAIN found' = Threads /\ DOMAIN answer' = Threads
    BY <1>2, StepMovesOrEnds DEF Ends, PhaseInv
  <2>2. PhaseInv'
    <3>1. ASSUME NEW u \in Threads
          PROVE  /\ todo'[u] \in Seq(SectionNames) /\ Linked(todo'[u])
                 /\ Running(u)' => call'[u] \in Calls
                 /\ \A i \in DOMAIN todo'[u] : Belongs(call'[u], todo'[u][i])
      <4>1. CASE u = t
        BY <2>1, <4>1 DEF Linked, Running
      <4>2. CASE u # t
        BY <2>1, <4>2 DEF PhaseInv, Running
      <4> QED BY <4>1, <4>2
    <3> QED BY <2>1, <3>1 DEF PhaseInv
  <2> QED BY <1>2, <2>1, <2>2 DEF Stands, Running
<1> QED BY <1>1, <1>2, StepMovesOrEnds

LEMMA BeginPlaces ==
  ASSUME PhaseInv, NEW t \in Threads, NEW c \in Calls, Begin(t, c)
  PROVE  /\ PhaseInv'
         /\ ~Running(t) /\ call'[t] = c
         /\ \A u \in Threads \ {t} : /\ call'[u] = call[u] /\ found'[u] = found[u]
                                     /\ answer'[u] = answer[u]
                                     /\ Running(u)' <=> Running(u)
                                     /\ \A n : Stands(u, n)' <=> Stands(u, n)
         /\ \A n : Before(n) # "any" => ~Stands(t, n) /\ ~Stands(t, n)'
<1>1. /\ todo'[t] = Sections(c) /\ call'[t] = c /\ ~Running(t)
      /\ \A u \in Threads \ {t} : /\ todo'[u] = todo[u] /\ call'[u] = call[u]
                                  /\ found'[u] = found[u] /\ answer'[u] = answer[u]
      /\ DOMAIN todo' = Threads /\ DOMAIN found' = Threads /\ DOMAIN answer' = Threads
      /\ DOMAIN call' = Threads
  BY DEF Begin, PhaseInv
<1>2. Chains(c, Sections(c))
  BY SectionsChain
<1>3. PhaseInv'
  <2>1. ASSUME NEW u \in Threads
        PROVE  /\ todo'[u] \in Seq(SectionNames) /\ Linked(todo'[u])
               /\ Running(u)' => call'[u] \in Calls
               /\ \A i \in DOMAIN todo'[u] : Belongs(call'[u], todo'[u][i])
    <3>1. CASE u = t
      BY <1>1, <1>2, <3>1 DEF Chains
    <3>2. CASE u # t
      BY <1>1, <3>2 DEF PhaseInv, Running
    <3> QED BY <3>1, <3>2
  <2> QED BY <1>1, <2>1 DEF PhaseInv
<1>4. \A n : Before(n) # "any" => ~Stands(t, n)'
  <2> SUFFICES ASSUME NEW n, Before(n) # "any", Stands(t, n)'
               PROVE  FALSE
    OBVIOUS
  <2>1. Sections(c) # << >> /\ Head(Sections(c)) = n
    BY <1>1 DEF Stands, Running
  <2>2. Head(Sections(c)) = Sections(c)[1]
    BY <1>2, <2>1, HeadTailProperties DEF Chains
  <2> QED BY <1>2, <2>1, <2>2 DEF Chains
<1> QED BY <1>1, <1>3, <1>4 DEF Stands, Running

LEMMA OverlapKept ==
  ASSUME PhaseInv, ShapeInv, OverlapInv, [Next]_vars
  PROVE  OverlapInv'
<1>1. ASSUME NEW t \in Threads, Step(t)
      PROVE  OverlapInv'
  <2>1. call' = call /\ tangled' = tangled
    BY <1>1, StepMovesOrEnds DEF Moves, Ends
  <2> QED BY <1>1, <2>1, StepPlaces DEF OverlapInv
<1>2. ASSUME NEW t \in Threads, NEW c \in Calls, Begin(t, c)
      PROVE  OverlapInv'
  <2>1. tangled' = tangled \cup Overlaps(t, c)
    BY <1>2 DEF Begin
  <2>2. ASSUME NEW u \in Others(t)
        PROVE  (Adds(c) \cap Removes(call[u])) \cup (Removes(c) \cap Adds(call[u])) \subseteq tangled'
    BY <2>1, <2>2 DEF Overlaps
  <2>3. ASSUME NEW v \in Threads, NEW u \in Threads \ {v}, Running(v)', Running(u)'
        PROVE  Adds(call'[v]) \cap Removes(call'[u]) \subseteq tangled'
    <3>1. CASE v = t
      <4>1. u \in Others(t) /\ call'[u] = call[u] /\ call'[v] = c
        BY <1>2, <2>3, <3>1, BeginPlaces DEF Others
      <4> QED BY <2>2, <4>1
    <3>2. CASE u = t
      <4>1. v \in Others(t) /\ call'[v] = call[v] /\ call'[u] = c
        BY <1>2, <2>3, <3>2, BeginPlaces DEF Others
      <4> QED BY <2>2, <4>1
    <3>3. CASE u # t /\ v # t
      BY <1>2, <2>1, <2>3, <3>3, BeginPlaces DEF OverlapInv
    <3> QED BY <3>1, <3>2, <3>3
  <2> QED BY <2>3 DEF OverlapInv
<1>3. CASE UNCHANGED vars
  BY <1>3 DEF vars, history, OverlapInv, Running
<1> QED BY <1>1, <1>2, <1>3 DEF Next

LEMMA DisturbKept ==
  ASSUME PhaseInv, ShapeInv, DisturbInv, [Next]_vars
  PROVE  DisturbInv'
<1>1. ASSUME NEW t \in Threads, Step(t)
      PROVE  DisturbInv'
  <2>1. call' = call /\ disturbed' = disturbed
    BY <1>1, StepMovesOrEnds DEF Moves, Ends
  <2> QED BY <1>1, <2>1, StepPlaces DEF DisturbInv
<1>2. ASSUME NEW t \in Threads, NEW c \in Calls, Begin(t, c)
      PROVE  DisturbInv'
  <2>1. disturbed' = (disturbed \ {t}) \cup Disturbs(t, c)
    BY <1>2 DEF Begin
  <2>3. ASSUME NEW v \in Threads, NEW u \in Threads \ {v}, Running(v)', Running(u)',
               call'[v].op = "selectivity", Adds(call'[u]) # {}
        PROVE  v \in disturbed'
    <3>1. CASE v = t
      <4>1. u \in Others(t) /\ call'[u] = call[u] /\ call'[v] = c
        BY <1>2, <2>3, <3>1, BeginPlaces DEF Others
      <4> QED BY <2>1, <2>3, <3>1, <4>1 DEF Disturbs
    <3>2. CASE u = t
      <4>1. v \in Others(t) /\ call'[v] = call[v] /\ call'[u] = c
        BY <1>2, <2>3, <3>2, BeginPlaces DEF Others
      <4> QED BY <2>1, <2>3, <4>1 DEF Disturbs
    <3>3. CASE u # t /\ v # t
      BY <1>2, <2>1, <2>3, <3>3, BeginPlaces DEF DisturbInv
    <3> QED BY <3>1, <3>2, <3>3
  <2> QED BY <2>3 DEF DisturbInv
<1>3. CASE UNCHANGED vars
  BY <1>3 DEF vars, history, DisturbInv, Running
<1> QED BY <1>1, <1>2, <1>3 DEF Next

TypePlaces == TypeAdders \cup TypeRemovers \cup {"clear subjects", "clear types"}
NamespacePlaces == NamespaceAdders \cup NamespaceRemovers \cup {"clear ids", "clear namespaces"}
EdgePlaces == EdgeAdders \cup EdgeRemovers \cup {"clear edges", "clear counts", "clear total"}

SameFound == \A u \in Threads : found'[u] = found[u]

(* What a section does to the two maps of the type index. *)
LEMMA TypeSections ==
  ASSUME PhaseInv, ShapeInv, NEW t \in Threads, Step(t)
  PROVE  LET c == call[t]
             types == index.types_by_subject
             subjects == index.subjects_by_type
         IN
         \/ Head(todo[t]) \notin TypePlaces /\ SameTypes
         \/ /\ Moves(t)
            /\ \/ /\ Head(todo[t]) = "subject of type" /\ SameFound
                  /\ index'.subjects_by_type = subjects \cup {<<Type(c), c.s>>}
                  /\ index'.types_by_subject = types
               \/ /\ Head(todo[t]) = "type" /\ SameFound
                  /\ index'.subjects_by_type = subjects
                  /\ index'.types_by_subject = types \cup {<<c.s, Type(c)>>}
               \/ /\ Head(todo[t]) = "drop subject" /\ SameFound
                  /\ index'.subjects_by_type = subjects \ {<<c.type, c.s>>}
                  /\ index'.types_by_subject = types
               \/ /\ Head(todo[t]) = "drop type" /\ SameFound
                  /\ index'.subjects_by_type = subjects
                  /\ index'.types_by_subject = types \ {<<c.s, c.type>>}
               \/ /\ Head(todo[t]) = "take types"
                  /\ index'.subjects_by_type = subjects
                  /\ index'.types_by_subject = {x \in types : x[1] # c.s}
                  /\ found'[t] = TypesFound(t)
               \/ /\ Head(todo[t]) = "drop subjects" /\ SameFound
                  /\ index'.subjects_by_type = subjects \ (found[t] \X {c.s})
                  /\ index'.types_by_subject = types
               \/ /\ Head(todo[t]) = "clear subjects" /\ SameFound
                  /\ index'.subjects_by_type = {} /\ index'.types_by_subject = types
               \/ /\ Head(todo[t]) = "clear types" /\ SameFound
                  /\ index'.subjects_by_type = subjects /\ index'.types_by_subject = {}
<1> USE DEF Section, Quiet, PhaseInv, ShapeInv, history, Moves, SameTypes, SameFound
<1>1. CASE AddNamespace(t) \/ AddLocal(t)
  BY <1>1 DEF AddNamespace, AddLocal, TypePlaces, TypeAdders, TypeRemovers
<1>2. CASE AddEdge(t)
  BY <1>2 DEF AddEdge, TypePlaces, TypeAdders, TypeRemovers
<1>3. CASE AddType(t)
  BY <1>3 DEF AddType, Type
<1>4. CASE RemoveNamespace(t)
  BY <1>4 DEF RemoveNamespace, TypePlaces, TypeAdders, TypeRemovers
<1>5. CASE RemoveType(t)
  BY <1>5 DEF RemoveType
<1>6. CASE RemoveSubject(t)
  BY <1>6 DEF RemoveSubject
<1>7. CASE RemoveEdge(t)
  BY <1>7 DEF RemoveEdge, DropEdge, CountDown, TotalDown, TypePlaces, TypeAdders, TypeRemovers
<1>8. CASE Selectivity(t)
  BY <1>8 DEF Selectivity, TypePlaces, TypeAdders, TypeRemovers
<1>9. CASE ClearNodes(t)
  BY <1>9 DEF ClearNodes, TypePlaces, TypeAdders, TypeRemovers
<1>10. CASE ClearEdges(t)
  BY <1>10 DEF ClearEdges, TypePlaces, TypeAdders, TypeRemovers
<1> QED BY <1>1, <1>2, <1>3, <1>4, <1>5, <1>6, <1>7, <1>8, <1>9, <1>10 DEF Step

(* What a section does to the two maps of the namespace index. *)
LEMMA NamespaceSections ==
  ASSUME PhaseInv, ShapeInv, NEW t \in Threads, Step(t)
  PROVE  LET c == call[t]
             ids == index.ids_by_namespace
             namespaces == index.namespace_of
         IN
         \/ Head(todo[t]) \notin NamespacePlaces /\ SameNamespaces /\ moved' = moved
         \/ /\ Moves(t)
            /\ \/ /\ Head(todo[t]) = "id of namespace" /\ SameFound
                  /\ index'.ids_by_namespace = ids \cup {<<c.namespace, c.s>>}
                  /\ index'.namespace_of = namespaces
                  /\ (\E x \in ids : x[1] # c.namespace /\ x[2] = c.s) => c.s \in moved'
                  /\ moved \subseteq moved'
               \/ /\ Head(todo[t]) = "namespace" /\ SameFound /\ moved' = moved
                  /\ index'.ids_by_namespace = ids
                  /\ index'.namespace_of = Put(namespaces, c.s, c.namespace)
               \/ /\ Head(todo[t]) = "take namespace" /\ moved' = moved
                  /\ index'.ids_by_namespace = ids
                  /\ index'.namespace_of = Without(namespaces, c.s)
                  /\ found'[t] = IF c.s \in DOMAIN namespaces THEN {namespaces[c.s]} ELSE {}
               \/ /\ Head(todo[t]) = "drop id" /\ SameFound /\ moved' = moved
                  /\ index'.ids_by_namespace = ids \ (found[t] \X {c.s})
                  /\ index'.namespace_of = namespaces
               \/ /\ Head(todo[t]) = "clear ids" /\ SameFound /\ moved' = moved
                  /\ index'.ids_by_namespace = {} /\ index'.namespace_of = namespaces
               \/ /\ Head(todo[t]) = "clear namespaces" /\ SameFound /\ moved' = moved
                  /\ index'.ids_by_namespace = ids /\ index'.namespace_of = Empty
<1> USE DEF Section, Quiet, PhaseInv, ShapeInv, history, Moves, SameNamespaces, SameFound
<1>1. CASE AddNamespace(t)
  BY <1>1 DEF AddNamespace
<1>2. CASE AddEdge(t) \/ AddLocal(t)
  BY <1>2 DEF AddEdge, AddLocal, NamespacePlaces, NamespaceAdders, NamespaceRemovers
<1>3. CASE AddType(t)
  BY <1>3 DEF AddType, NamespacePlaces, NamespaceAdders, NamespaceRemovers
<1>4. CASE RemoveNamespace(t)
  BY <1>4 DEF RemoveNamespace
<1>5. CASE RemoveType(t)
  BY <1>5 DEF RemoveType, NamespacePlaces, NamespaceAdders, NamespaceRemovers
<1>6. CASE RemoveSubject(t)
  BY <1>6 DEF RemoveSubject, NamespacePlaces, NamespaceAdders, NamespaceRemovers
<1>7. CASE RemoveEdge(t)
  BY <1>7 DEF RemoveEdge, DropEdge, CountDown, TotalDown, NamespacePlaces, NamespaceAdders, NamespaceRemovers
<1>8. CASE Selectivity(t)
  BY <1>8 DEF Selectivity, NamespacePlaces, NamespaceAdders, NamespaceRemovers
<1>9. CASE ClearNodes(t)
  BY <1>9 DEF ClearNodes, NamespacePlaces, NamespaceAdders, NamespaceRemovers
<1>10. CASE ClearEdges(t)
  BY <1>10 DEF ClearEdges, NamespacePlaces, NamespaceAdders, NamespaceRemovers
<1> QED BY <1>1, <1>2, <1>3, <1>4, <1>5, <1>6, <1>7, <1>8, <1>9, <1>10 DEF Step

(* What a section does to the edges, their counts and the total. *)
LEMMA EdgeSections ==
  ASSUME PhaseInv, ShapeInv, NEW t \in Threads, Step(t)
  PROVE  LET c == call[t]
             edge == <<c.p, c.s, c.o>>
             edges == index.edges
             counts == index.counts
             total == index.total
         IN
         \/ /\ Head(todo[t]) \notin EdgePlaces \cup {"read total", "read count"}
            /\ SameEdges /\ repeated' = repeated /\ answer' = answer
         \/ /\ Ends(t) /\ Head(todo[t]) = "drop edge" /\ edge \notin edges
            /\ repeated' = repeated /\ answer' = answer /\ SameFound
         \/ /\ Moves(t) /\ answer' = answer /\ SameFound
            /\ \/ /\ Head(todo[t]) = "edge"
                  /\ index'.edges = edges \cup {edge}
                  /\ index'.counts = counts /\ index'.total = total
                  /\ repeated' = IF edge \in edges THEN repeated \cup {c.p} ELSE repeated
               \/ /\ Head(todo[t]) = "count" /\ repeated' = repeated
                  /\ index'.counts = Put(counts, c.p, CountOf(c.p) + 1)
                  /\ index'.edges = edges /\ index'.total = total
               \/ /\ Head(todo[t]) = "total" /\ repeated' = repeated
                  /\ index'.total = total + 1
                  /\ index'.edges = edges /\ index'.counts = counts
               \/ /\ Head(todo[t]) = "drop edge" /\ repeated' = repeated /\ edge \in edges
                  /\ index'.edges = edges \ {edge}
                  /\ index'.counts = counts /\ index'.total = total
               \/ /\ Head(todo[t]) = "count down" /\ repeated' = repeated
                  /\ index'.counts = CountedDown(counts, c.p)
                  /\ index'.edges = edges /\ index'.total = total
               \/ /\ Head(todo[t]) = "total down" /\ repeated' = repeated
                  /\ index'.total = IF total = 0 THEN 0 ELSE total - 1
                  /\ index'.edges = edges /\ index'.counts = counts
               \/ /\ Head(todo[t]) = "clear edges" /\ repeated' = repeated
                  /\ index'.edges = {} /\ index'.counts = counts /\ index'.total = total
               \/ /\ Head(todo[t]) = "clear counts" /\ repeated' = repeated
                  /\ index'.edges = edges /\ index'.counts = Empty /\ index'.total = total
               \/ /\ Head(todo[t]) = "clear total" /\ repeated' = repeated
                  /\ index'.edges = edges /\ index'.counts = counts /\ index'.total = 0
         \/ /\ SameEdges /\ repeated' = repeated
            /\ \/ /\ Head(todo[t]) = "read total" /\ Ends(t) /\ total = 0
                  /\ answer' = [answer EXCEPT ![t] = <<1, 1>>]
               \/ /\ Head(todo[t]) = "read total" /\ Moves(t)
                  /\ answer' = answer /\ found'[t] = total
               \/ /\ Head(todo[t]) = "read count" /\ Moves(t)
                  /\ answer' = [answer EXCEPT ![t] = <<CountOf(c.p), found[t]>>]
<1> USE DEF Section, Quiet, PhaseInv, ShapeInv, history, Moves, SameEdges, SameFound,
            EdgePlaces, EdgeAdders, EdgeRemovers
<1>1. CASE AddNamespace(t) \/ AddLocal(t)
  BY <1>1 DEF AddNamespace, AddLocal
<1>2. CASE AddEdge(t)
  BY <1>2 DEF AddEdge
<1>3. CASE AddType(t)
  BY <1>3 DEF AddType
<1>4. CASE RemoveNamespace(t)
  BY <1>4 DEF RemoveNamespace
<1>5. CASE RemoveType(t)
  BY <1>5 DEF RemoveType
<1>6. CASE RemoveSubject(t)
  BY <1>6 DEF RemoveSubject
<1>7. CASE RemoveEdge(t)
  <2> DEFINE edge == <<call[t].p, call[t].s, call[t].o>>
  <2>1. CASE DropEdge(t) /\ edge \in index.edges /\ todo' = [todo EXCEPT ![t] = Tail(@)]
    BY <2>1 DEF DropEdge
  <2>2. CASE DropEdge(t) /\ edge \notin index.edges /\ todo' = [todo EXCEPT ![t] = << >>]
    <3>1. index.edges \ {edge} = index.edges
      BY <2>2
    <3> HIDE DEF edge
    <3>2. /\ SameEdges /\ repeated' = repeated /\ answer' = answer /\ SameFound
          /\ SameTypes /\ SameNamespaces
      BY <2>2, <3>1 DEF DropEdge, SameTypes, SameNamespaces, edge
    <3> QED BY <2>2, <3>2 DEF DropEdge, Ends, edge
  <2>3. CASE CountDown(t)
    BY <2>3 DEF CountDown
  <2>4. CASE TotalDown(t)
    BY <2>4 DEF TotalDown
  <2> QED BY <1>7, <2>1, <2>2, <2>3, <2>4 DEF RemoveEdge
<1>8. CASE Selectivity(t)
  BY <1>8 DEF Selectivity, Ends, SameTypes, SameNamespaces
<1>9. CASE ClearNodes(t)
  BY <1>9 DEF ClearNodes
<1>10. CASE ClearEdges(t)
  BY <1>10 DEF ClearEdges
<1> QED BY <1>1, <1>2, <1>3, <1>4, <1>5, <1>6, <1>7, <1>8, <1>9, <1>10 DEF Step
-----------------------------------------------------------------------------
(* The type index *)

(* Where threads can stand beside one that adds to or removes from the     *)
(* types of s, or clears.                                                  *)
LEMMA TypesApart ==
  ASSUME PhaseInv, OverlapInv, NEW s, <<"types", s>> \in Keys \ tangled,
         NEW t \in Threads, NEW u \in Threads \ {t}, Running(t), Running(u)
  PROVE  LET name == Head(todo[t])
             other == Head(todo[u])
             adds == other \in TypeAdders /\ call[u].s = s
             removes == other \in TypeRemovers /\ call[u].s = s
         IN  /\ name \in TypeAdders /\ call[t].s = s => ~removes /\ other \notin Clearers
             /\ name \in TypeRemovers /\ call[t].s = s => ~adds /\ other \notin Clearers
             /\ name \in Clearers => ~adds /\ ~removes /\ other \notin Clearers
<1> DEFINE k == <<"types", s>>
<1>1. k \in Keys /\ k \notin tangled
  OBVIOUS
<1>2. /\ k \in Adds(call[t]) => k \notin Removes(call[u])
      /\ k \in Removes(call[t]) => k \notin Adds(call[u])
  BY <1>1, Apart
<1>3. /\ Head(todo[t]) \in TypeAdders /\ call[t].s = s => k \in Adds(call[t])
      /\ Head(todo[t]) \in TypeRemovers /\ call[t].s = s => k \in Removes(call[t])
      /\ Head(todo[t]) \in Clearers => Adds(call[t]) = Keys /\ Removes(call[t]) = Keys
  BY PlacesAddAndRemove
<1>4. /\ Head(todo[u]) \in TypeAdders /\ call[u].s = s => k \in Adds(call[u])
      /\ Head(todo[u]) \in TypeRemovers /\ call[u].s = s => k \in Removes(call[u])
      /\ Head(todo[u]) \in Clearers => Adds(call[u]) = Keys /\ Removes(call[u]) = Keys
  BY PlacesAddAndRemove
<1> HIDE DEF k
<1> QED BY <1>1, <1>2, <1>3, <1>4

(* A step that leaves both maps alone and moves no thread from or to where *)
(* the invariant looks.                                                    *)
LEMMA TypesElsewhere ==
  ASSUME NEW s, TypesInv(s), SameTypes,
         \A u \in Threads : \A n \in {"type", "drop type", "drop subjects", "clear types"} :
            /\ Stands(u, n)' <=> Stands(u, n)
            /\ Stands(u, n) => call'[u] = call[u] /\ found'[u] = found[u]
  PROVE  TypesInv(s)'
<1>1. TypesLead(s)'
  BY DEF TypesInv, TypesLead, SameTypes, LosesType
<1>2. SubjectsLead(s)'
  BY DEF TypesInv, SubjectsLead, SameTypes, GetsTypeOrLosesSubject
<1>3. TypesUnderway(s)'
  BY DEF TypesInv, TypesUnderway, SameTypes
<1> QED BY <1>1, <1>2, <1>3 DEF TypesInv

LEMMA TypesStep ==
  ASSUME PhaseInv, ShapeInv, OverlapInv, NEW t \in Threads, Step(t),
         NEW s, <<"types", s>> \in Keys \ tangled, TypesInv(s)
  PROVE  TypesInv(s)'
<1> DEFINE name == Head(todo[t])
<1>1. /\ Running(t) /\ call' = call
      /\ \A u \in Threads \ {t} : found'[u] = found[u]
  BY StepMovesOrEnds DEF Moves, Ends, Elsewhere
<1>2. \A u \in Threads \ {t} : \A n : Stands(u, n)' <=> Stands(u, n)
  BY StepPlaces
<1>3. /\ Before("type") = "subject of type" /\ Then("subject of type") = "type"
      /\ Before("drop type") = "drop subject" /\ Then("drop subject") = "drop type"
      /\ Before("drop subjects") = "take types" /\ Then("take types") = "drop subjects"
      /\ Before("clear types") = "clear subjects" /\ Then("clear subjects") = "clear types"
  BY DEF Then, Before
<1>4. /\ Stands(t, "type")' => name = "subject of type"
      /\ Stands(t, "drop type")' => name = "drop subject"
      /\ Stands(t, "drop subjects")' => name = "take types"
      /\ Stands(t, "clear types")' => name = "clear subjects"
  <2>1. \A n \in {"type", "drop type", "drop subjects", "clear types"} :
           Stands(t, n)' => Then(name) = n
    BY <1>3, StepPlaces
  <2>2. Then(name) # "any" => Before(Then(name)) = name
    BY ThenBefore
  <2> QED BY <1>3, <2>1, <2>2
<1>5. Moves(t) => /\ name = "subject of type" => Stands(t, "type")'
                  /\ name = "drop subject" => Stands(t, "drop type")'
                  /\ name = "take types" => Stands(t, "drop subjects")'
                  /\ name = "clear subjects" => Stands(t, "clear types")'
  BY <1>3, StepPlaces
<1>6. \A n : Stands(t, n) <=> n = name
  BY <1>1 DEF Stands
<1>7. \A u \in Threads \ {t} :
        LET adds == Stands(u, "type") /\ call[u].s = s
            removes == (Stands(u, "drop type") \/ Stands(u, "drop subjects")) /\ call[u].s = s
            clears == Stands(u, "clear types")
        IN  /\ name \in TypeAdders /\ call[t].s = s => ~removes /\ ~clears
            /\ name \in TypeRemovers /\ call[t].s = s => ~adds /\ ~clears
            /\ name \in Clearers => ~adds /\ ~removes /\ ~clears
  <2> SUFFICES ASSUME NEW u \in Threads \ {t}, Running(u)
               PROVE  LET other == Head(todo[u])
                          adds == other = "type" /\ call[u].s = s
                          removes == other \in {"drop type", "drop subjects"} /\ call[u].s = s
                          clears == other = "clear types"
                      IN  /\ name \in TypeAdders /\ call[t].s = s => ~removes /\ ~clears
                          /\ name \in TypeRemovers /\ call[t].s = s => ~adds /\ ~clears
                          /\ name \in Clearers => ~adds /\ ~removes /\ ~clears
    BY DEF Stands
  <2>1. /\ "type" \in TypeAdders /\ {"drop type", "drop subjects"} \subseteq TypeRemovers
        /\ "clear types" \in Clearers
    BY DEF TypeAdders, TypeRemovers, Clearers
  <2> QED BY <1>1, <2>1, TypesApart
<1>8. /\ {"subject of type", "type"} \subseteq TypeAdders
      /\ {"drop subject", "drop type", "take types", "drop subjects"} \subseteq TypeRemovers
      /\ {"clear subjects", "clear types"} \subseteq Clearers
  BY DEF TypeAdders, TypeRemovers, Clearers
<1>9. TypesLead(s) /\ SubjectsLead(s) /\ TypesUnderway(s)
  BY DEF TypesInv
<1>10. CASE name \notin TypePlaces /\ SameTypes
  <2>1. \A n \in {"type", "drop type", "drop subjects", "clear types"} : ~Stands(t, n) /\ ~Stands(t, n)'
    BY <1>4, <1>6, <1>8, <1>10 DEF TypePlaces
  <2>2. \A u \in Threads : \A n \in {"type", "drop type", "drop subjects", "clear types"} :
           /\ Stands(u, n)' <=> Stands(u, n)
           /\ Stands(u, n) => call'[u] = call[u] /\ found'[u] = found[u]
    BY <1>1, <1>2, <2>1
  <2> QED BY <1>10, <2>2, TypesElsewhere
<1> HIDE DEF name
<1>20. \A u \in Threads \ {t} : \A type :
          /\ LosesType(u, s, type)' <=> LosesType(u, s, type)
          /\ GetsTypeOrLosesSubject(u, s, type)' <=> GetsTypeOrLosesSubject(u, s, type)
  BY <1>1, <1>2 DEF LosesType, GetsTypeOrLosesSubject
<1>11. CASE /\ Moves(t) /\ name = "subject of type" /\ SameFound
            /\ index'.subjects_by_type = index.subjects_by_type \cup {<<Type(call[t]), call[t].s>>}
            /\ index'.types_by_subject = index.types_by_subject
  <2>1. /\ ~Stands(t, "type") /\ ~Stands(t, "drop type") /\ ~Stands(t, "drop subjects") /\ ~Stands(t, "clear types")
        /\ Stands(t, "type")' /\ ~Stands(t, "drop type")' /\ ~Stands(t, "drop subjects")' /\ ~Stands(t, "clear types")'
    BY <1>4, <1>5, <1>6, <1>11
  <2>2. TypesLead(s)'
    <3> SUFFICES ASSUME NEW e \in index'.types_by_subject, e[1] = s,
                        <<e[2], s>> \notin index'.subjects_by_type
                 PROVE  \E u \in Threads : LosesType(u, s, e[2])'
      BY DEF TypesLead
    <3>1. e \in index.types_by_subject /\ <<e[2], s>> \notin index.subjects_by_type
          => \E u \in Threads : LosesType(u, s, e[2])
      BY <1>9 DEF TypesLead
    <3>2. \A u \in Threads : LosesType(u, s, e[2]) /\ u # t => LosesType(u, s, e[2])'
      BY <1>20
    <3> QED BY <1>1, <1>8, <1>9, <1>11, <2>1, <3>1, <3>2 DEF TypesUnderway, LosesType, ShapeInv
  <2>3. SubjectsLead(s)'
    <3> SUFFICES ASSUME NEW e \in index'.subjects_by_type, e[2] = s,
                        <<s, e[1]>> \notin index'.types_by_subject
                 PROVE  \E u \in Threads : GetsTypeOrLosesSubject(u, s, e[1])'
      BY DEF SubjectsLead
    <3>1. e \in index.subjects_by_type /\ <<s, e[1]>> \notin index.types_by_subject
          => \E u \in Threads : GetsTypeOrLosesSubject(u, s, e[1])
      BY <1>9 DEF SubjectsLead
    <3>2. \A u \in Threads : GetsTypeOrLosesSubject(u, s, e[1]) /\ u # t
                              => GetsTypeOrLosesSubject(u, s, e[1])'
      BY <1>20
    <3>3. CASE e \in index.subjects_by_type
      BY <1>11, <2>1, <3>1, <3>2, <3>3 DEF GetsTypeOrLosesSubject
    <3>4. CASE e = <<Type(call[t]), call[t].s>>
      BY <1>1, <2>1, <3>4 DEF GetsTypeOrLosesSubject
    <3> QED BY <1>11, <3>3, <3>4
  <2>4. TypesUnderway(s)'
    <3>1. ASSUME NEW u \in Threads \ {t}
          PROVE  /\ Stands(u, "type")' /\ call'[u].s = s =>
                      <<Type(call'[u]), s>> \in index'.subjects_by_type
                 /\ Stands(u, "drop type")' /\ call'[u].s = s =>
                      <<call'[u].type, s>> \notin index'.subjects_by_type
                 /\ Stands(u, "drop subjects")' /\ call'[u].s = s =>
                      \A e \in index'.types_by_subject : e[1] # s
                 /\ Stands(u, "clear types")' => \A e \in index'.subjects_by_type : e[2] # s
      <4>1. CASE call[t].s = s
        BY <1>1, <1>2, <1>7, <1>8, <1>9, <1>11, <4>1 DEF TypesUnderway
      <4>2. CASE call[t].s # s
        <5>1. \A x : <<x, s>> \in index'.subjects_by_type => <<x, s>> \in index.subjects_by_type
          <6> TAKE x
          <6>1. <<x, s>> # <<Type(call[t]), call[t].s>>
            BY <4>2
          <6> QED BY <1>11, <6>1
        <5>2. \A e \in index'.subjects_by_type : e[2] = s => e \in index.subjects_by_type
          <6> TAKE e \in index'.subjects_by_type
          <6>1. e = <<Type(call[t]), call[t].s>> => e[2] # s
            BY <4>2
          <6> QED BY <1>11, <6>1
        <5> QED BY <1>1, <1>2, <1>9, <1>11, <5>1, <5>2 DEF TypesUnderway
      <4> QED BY <4>1, <4>2
    <3> QED BY <1>1, <1>8, <1>9, <1>11, <2>1, <3>1 DEF TypesUnderway
  <2> QED BY <2>2, <2>3, <2>4 DEF TypesInv
<1>12. CASE /\ Moves(t) /\ name = "type" /\ SameFound
            /\ index'.subjects_by_type = index.subjects_by_type
            /\ index'.types_by_subject = index.types_by_subject \cup {<<call[t].s, Type(call[t])>>}
  <2>1. /\ Stands(t, "type") /\ ~Stands(t, "drop type") /\ ~Stands(t, "drop subjects") /\ ~Stands(t, "clear types")
        /\ ~Stands(t, "type")' /\ ~Stands(t, "drop type")' /\ ~Stands(t, "drop subjects")' /\ ~Stands(t, "clear types")'
    BY <1>4, <1>5, <1>6, <1>12
  <2>2. TypesLead(s)'
    <3> SUFFICES ASSUME NEW e \in index'.types_by_subject, e[1] = s,
                        <<e[2], s>> \notin index'.subjects_by_type
                 PROVE  \E u \in Threads : LosesType(u, s, e[2])'
      BY DEF TypesLead
    <3>1. e \in index.types_by_subject /\ <<e[2], s>> \notin index.subjects_by_type
          => \E u \in Threads : LosesType(u, s, e[2])
      BY <1>9 DEF TypesLead
    <3>2. \A u \in Threads : LosesType(u, s, e[2]) /\ u # t => LosesType(u, s, e[2])'
      BY <1>20
    <3>3. CASE e \in index.types_by_subject
      BY <1>12, <2>1, <3>1, <3>2, <3>3 DEF LosesType
    <3>4. CASE e = <<call[t].s, Type(call[t])>>
      BY <1>9, <1>12, <2>1, <3>4 DEF TypesUnderway
    <3> QED BY <1>12, <3>3, <3>4
  <2>3. SubjectsLead(s)'
    <3> SUFFICES ASSUME NEW e \in index'.subjects_by_type, e[2] = s,
                        <<s, e[1]>> \notin index'.types_by_subject
                 PROVE  \E u \in Threads : GetsTypeOrLosesSubject(u, s, e[1])'
      BY DEF SubjectsLead
    <3>1. e \in index.subjects_by_type /\ <<s, e[1]>> \notin index.types_by_subject
          => \E u \in Threads : GetsTypeOrLosesSubject(u, s, e[1])
      BY <1>9 DEF SubjectsLead
    <3>2. \A u \in Threads : GetsTypeOrLosesSubject(u, s, e[1]) /\ u # t
                              => GetsTypeOrLosesSubject(u, s, e[1])'
      BY <1>20
    <3> QED BY <1>1, <1>8, <1>9, <1>12, <2>1, <3>1, <3>2
            DEF TypesUnderway, GetsTypeOrLosesSubject, ShapeInv, SameFound
  <2>4. TypesUnderway(s)'
    <3>1. ASSUME NEW u \in Threads \ {t}
          PROVE  /\ Stands(u, "type")' /\ call'[u].s = s =>
                      <<Type(call'[u]), s>> \in index'.subjects_by_type
                 /\ Stands(u, "drop type")' /\ call'[u].s = s =>
                      <<call'[u].type, s>> \notin index'.subjects_by_type
                 /\ Stands(u, "drop subjects")' /\ call'[u].s = s =>
                      \A e \in index'.types_by_subject : e[1] # s
                 /\ Stands(u, "clear types")' => \A e \in index'.subjects_by_type : e[2] # s
      <4>1. CASE call[t].s = s
        BY <1>1, <1>2, <1>7, <1>8, <1>9, <1>12, <4>1 DEF TypesUnderway
      <4>2. CASE call[t].s # s
        <5>1. \A e \in index'.types_by_subject : e[1] = s => e \in index.types_by_subject
          BY <1>12, <4>2
        <5> QED BY <1>1, <1>2, <1>9, <1>12, <5>1 DEF TypesUnderway
      <4> QED BY <4>1, <4>2
    <3> QED BY <1>1, <1>8, <1>9, <1>12, <2>1, <3>1 DEF TypesUnderway
  <2> QED BY <2>2, <2>3, <2>4 DEF TypesInv
<1>13. CASE /\ Moves(t) /\ name = "drop subject" /\ SameFound
            /\ index'.subjects_by_type = index.subjects_by_type \ {<<call[t].type, call[t].s>>}
            /\ index'.types_by_subject = index.types_by_subject
  <2>1. /\ ~Stands(t, "type") /\ ~Stands(t, "drop type") /\ ~Stands(t, "drop subjects") /\ ~Stands(t, "clear types")
        /\ ~Stands(t, "type")' /\ Stands(t, "drop type")' /\ ~Stands(t, "drop subjects")' /\ ~Stands(t, "clear types")'
    BY <1>4, <1>5, <1>6, <1>13
  <2>2. TypesLead(s)'
    <3> SUFFICES ASSUME NEW e \in index'.types_by_subject, e[1] = s,
                        <<e[2], s>> \notin index'.subjects_by_type
                 PROVE  \E u \in Threads : LosesType(u, s, e[2])'
      BY DEF TypesLead
    <3>1. e \in index.types_by_subject /\ <<e[2], s>> \notin index.subjects_by_type
          => \E u \in Threads : LosesType(u, s, e[2])
      BY <1>9 DEF TypesLead
    <3>2. \A u \in Threads : LosesType(u, s, e[2]) /\ u # t => LosesType(u, s, e[2])'
      BY <1>20
    <3> QED BY <1>1, <1>8, <1>9, <1>13, <2>1, <3>1, <3>2 DEF TypesUnderway, LosesType, ShapeInv
  <2>3. SubjectsLead(s)'
    <3> SUFFICES ASSUME NEW e \in index'.subjects_by_type, e[2] = s,
                        <<s, e[1]>> \notin index'.types_by_subject
                 PROVE  \E u \in Threads : GetsTypeOrLosesSubject(u, s, e[1])'
      BY DEF SubjectsLead
    <3>1. e \in index.subjects_by_type /\ <<s, e[1]>> \notin index.types_by_subject
          => \E u \in Threads : GetsTypeOrLosesSubject(u, s, e[1])
      BY <1>9 DEF SubjectsLead
    <3>2. \A u \in Threads : GetsTypeOrLosesSubject(u, s, e[1]) /\ u # t
                              => GetsTypeOrLosesSubject(u, s, e[1])'
      BY <1>20
    <3> QED BY <1>1, <1>8, <1>9, <1>13, <2>1, <3>1, <3>2
            DEF TypesUnderway, GetsTypeOrLosesSubject, ShapeInv, SameFound
  <2>4. TypesUnderway(s)'
    <3>1. ASSUME NEW u \in Threads \ {t}
          PROVE  /\ Stands(u, "type")' /\ call'[u].s = s =>
                      <<Type(call'[u]), s>> \in index'.subjects_by_type
                 /\ Stands(u, "drop type")' /\ call'[u].s = s =>
                      <<call'[u].type, s>> \notin index'.subjects_by_type
                 /\ Stands(u, "drop subjects")' /\ call'[u].s = s =>
                      \A e \in index'.types_by_subject : e[1] # s
                 /\ Stands(u, "clear types")' => \A e \in index'.subjects_by_type : e[2] # s
      BY <1>1, <1>2, <1>7, <1>8, <1>9, <1>13 DEF TypesUnderway
    <3> QED BY <1>1, <1>8, <1>9, <1>13, <2>1, <3>1 DEF TypesUnderway
  <2> QED BY <2>2, <2>3, <2>4 DEF TypesInv
<1>14. CASE /\ Moves(t) /\ name = "drop type" /\ SameFound
            /\ index'.subjects_by_type = index.subjects_by_type
            /\ index'.types_by_subject = index.types_by_subject \ {<<call[t].s, call[t].type>>}
  <2>1. /\ ~Stands(t, "type") /\ Stands(t, "drop type") /\ ~Stands(t, "drop subjects") /\ ~Stands(t, "clear types")
        /\ ~Stands(t, "type")' /\ ~Stands(t, "drop type")' /\ ~Stands(t, "drop subjects")' /\ ~Stands(t, "clear types")'
    BY <1>4, <1>5, <1>6, <1>14
  <2>2. TypesLead(s)'
    <3> SUFFICES ASSUME NEW e \in index'.types_by_subject, e[1] = s,
                        <<e[2], s>> \notin index'.subjects_by_type
                 PROVE  \E u \in Threads : LosesType(u, s, e[2])'
      BY DEF TypesLead
    <3>1. e \in index.types_by_subject /\ <<e[2], s>> \notin index.subjects_by_type
          => \E u \in Threads : LosesType(u, s, e[2])
      BY <1>9 DEF TypesLead
    <3>2. \A u \in Threads : LosesType(u, s, e[2]) /\ u # t => LosesType(u, s, e[2])'
      BY <1>20
    <3> QED BY <1>1, <1>8, <1>9, <1>14, <2>1, <3>1, <3>2 DEF TypesUnderway, LosesType, ShapeInv
  <2>3. SubjectsLead(s)'
    <3> SUFFICES ASSUME NEW e \in index'.subjects_by_type, e[2] = s,
                        <<s, e[1]>> \notin index'.types_by_subject
                 PROVE  \E u \in Threads : GetsTypeOrLosesSubject(u, s, e[1])'
      BY DEF SubjectsLead
    <3>1. e \in index.subjects_by_type /\ <<s, e[1]>> \notin index.types_by_subject
          => \E u \in Threads : GetsTypeOrLosesSubject(u, s, e[1])
      BY <1>9 DEF SubjectsLead
    <3>2. \A u \in Threads : GetsTypeOrLosesSubject(u, s, e[1]) /\ u # t
                              => GetsTypeOrLosesSubject(u, s, e[1])'
      BY <1>20
    <3>3. CASE <<s, e[1]>> \notin index.types_by_subject
      BY <1>14, <2>1, <3>1, <3>2, <3>3 DEF GetsTypeOrLosesSubject
    <3>4. CASE <<s, e[1]>> = <<call[t].s, call[t].type>>
      <4>1. e = <<call[t].type, s>> /\ e \in index.subjects_by_type
        BY <1>14, <3>4 DEF ShapeInv
      <4> QED BY <1>9, <2>1, <3>4, <4>1 DEF TypesUnderway
    <3> QED BY <1>14, <3>3, <3>4
  <2>4. TypesUnderway(s)'
    <3>1. ASSUME NEW u \in Threads \ {t}
          PROVE  /\ Stands(u, "type")' /\ call'[u].s = s =>
                      <<Type(call'[u]), s>> \in index'.subjects_by_type
                 /\ Stands(u, "drop type")' /\ call'[u].s = s =>
                      <<call'[u].type, s>> \notin index'.subjects_by_type
                 /\ Stands(u, "drop subjects")' /\ call'[u].s = s =>
                      \A e \in index'.types_by_subject : e[1] # s
                 /\ Stands(u, "clear types")' => \A e \in index'.subjects_by_type : e[2] # s
      BY <1>1, <1>2, <1>7, <1>8, <1>9, <1>14 DEF TypesUnderway
    <3> QED BY <1>1, <1>8, <1>9, <1>14, <2>1, <3>1 DEF TypesUnderway
  <2> QED BY <2>2, <2>3, <2>4 DEF TypesInv
<1>15. CASE /\ Moves(t) /\ name = "take types" /\ found'[t] = TypesFound(t)
            /\ index'.subjects_by_type = index.subjects_by_type
            /\ index'.types_by_subject = {x \in index.types_by_subject : x[1] # call[t].s}
  <2>1. /\ ~Stands(t, "type") /\ ~Stands(t, "drop type") /\ ~Stands(t, "drop subjects") /\ ~Stands(t, "clear types")
        /\ ~Stands(t, "type")' /\ ~Stands(t, "drop type")' /\ Stands(t, "drop subjects")' /\ ~Stands(t, "clear types")'
    BY <1>4, <1>5, <1>6, <1>15
  <2>2. TypesLead(s)'
    <3> SUFFICES ASSUME NEW e \in index'.types_by_subject, e[1] = s,
                        <<e[2], s>> \notin index'.subjects_by_type
                 PROVE  \E u \in Threads : LosesType(u, s, e[2])'
      BY DEF TypesLead
    <3>1. e \in index.types_by_subject /\ <<e[2], s>> \notin index.subjects_by_type
          => \E u \in Threads : LosesType(u, s, e[2])
      BY <1>9 DEF TypesLead
    <3>2. \A u \in Threads : LosesType(u, s, e[2]) /\ u # t => LosesType(u, s, e[2])'
      BY <1>20
    <3> QED BY <1>1, <1>8, <1>9, <1>15, <2>1, <3>1, <3>2 DEF TypesUnderway, LosesType, ShapeInv
  <2>3. SubjectsLead(s)'
    <3> SUFFICES ASSUME NEW e \in index'.subjects_by_type, e[2] = s,
                        <<s, e[1]>> \notin index'.types_by_subject
                 PROVE  \E u \in Threads : GetsTypeOrLosesSubject(u, s, e[1])'
      BY DEF SubjectsLead
    <3>1. e \in index.subjects_by_type /\ <<s, e[1]>> \notin index.types_by_subject
          => \E u \in Threads : GetsTypeOrLosesSubject(u, s, e[1])
      BY <1>9 DEF SubjectsLead
    <3>2. \A u \in Threads : GetsTypeOrLosesSubject(u, s, e[1]) /\ u # t
                              => GetsTypeOrLosesSubject(u, s, e[1])'
      BY <1>20
    <3>3. CASE <<s, e[1]>> \notin index.types_by_subject
      BY <1>15, <2>1, <3>1, <3>2, <3>3 DEF GetsTypeOrLosesSubject
    <3>4. CASE <<s, e[1]>> \in index.types_by_subject
      <4>1. call[t].s = s
        BY <1>15, <3>4
      <4>2. e[1] \in TypesFound(t)
        BY <3>4, <4>1 DEF TypesFound
      <4> QED BY <1>1, <1>15, <2>1, <4>1, <4>2 DEF GetsTypeOrLosesSubject
    <3> QED BY <3>3, <3>4
  <2>4. TypesUnderway(s)'
    <3>1. ASSUME NEW u \in Threads \ {t}
          PROVE  /\ Stands(u, "type")' /\ call'[u].s = s =>
                      <<Type(call'[u]), s>> \in index'.subjects_by_type
                 /\ Stands(u, "drop type")' /\ call'[u].s = s =>
                      <<call'[u].type, s>> \notin index'.subjects_by_type
                 /\ Stands(u, "drop subjects")' /\ call'[u].s = s =>
                      \A e \in index'.types_by_subject : e[1] # s
                 /\ Stands(u, "clear types")' => \A e \in index'.subjects_by_type : e[2] # s
      BY <1>1, <1>2, <1>7, <1>8, <1>9, <1>15 DEF TypesUnderway
    <3> QED BY <1>1, <1>8, <1>9, <1>15, <2>1, <3>1 DEF TypesUnderway
  <2> QED BY <2>2, <2>3, <2>4 DEF TypesInv
<1>16. CASE /\ Moves(t) /\ name = "drop subjects" /\ SameFound
            /\ index'.subjects_by_type = index.subjects_by_type \ (found[t] \X {call[t].s})
            /\ index'.types_by_subject = index.types_by_subject
  <2>1. /\ ~Stands(t, "type") /\ ~Stands(t, "drop type") /\ Stands(t, "drop subjects") /\ ~Stands(t, "clear types")
        /\ ~Stands(t, "type")' /\ ~Stands(t, "drop type")' /\ ~Stands(t, "drop subjects")' /\ ~Stands(t, "clear types")'
    BY <1>4, <1>5, <1>6, <1>16
  <2>2. TypesLead(s)'
    <3> SUFFICES ASSUME NEW e \in index'.types_by_subject, e[1] = s,
                        <<e[2], s>> \notin index'.subjects_by_type
                 PROVE  \E u \in Threads : LosesType(u, s, e[2])'
      BY DEF TypesLead
    <3>1. e \in index.types_by_subject /\ <<e[2], s>> \notin index.subjects_by_type
          => \E u \in Threads : LosesType(u, s, e[2])
      BY <1>9 DEF TypesLead
    <3>2. \A u \in Threads : LosesType(u, s, e[2]) /\ u # t => LosesType(u, s, e[2])'
      BY <1>20
    <3> QED BY <1>1, <1>8, <1>9, <1>16, <2>1, <3>1, <3>2 DEF TypesUnderway, LosesType, ShapeInv
  <2>3. SubjectsLead(s)'
    <3> SUFFICES ASSUME NEW e \in index'.subjects_by_type, e[2] = s,
                        <<s, e[1]>> \notin index'.types_by_subject
                 PROVE  \E u \in Threads : GetsTypeOrLosesSubject(u, s, e[1])'
      BY DEF SubjectsLead
    <3>1. e \in index.subjects_by_type /\ <<s, e[1]>> \notin index.types_by_subject
          => \E u \in Threads : GetsTypeOrLosesSubject(u, s, e[1])
      BY <1>9 DEF SubjectsLead
    <3>2. \A u \in Threads : GetsTypeOrLosesSubject(u, s, e[1]) /\ u # t
                              => GetsTypeOrLosesSubject(u, s, e[1])'
      BY <1>20
    <3>3. PICK u \in Threads : GetsTypeOrLosesSubject(u, s, e[1])
      BY <1>16, <3>1
    <3>4. CASE u = t
      <4>1. e[1] \in found[t] /\ call[t].s = s
        BY <2>1, <3>3, <3>4 DEF GetsTypeOrLosesSubject
      <4>2. e = <<e[1], s>>
        BY <1>16 DEF ShapeInv
      <4> QED BY <1>16, <4>1, <4>2
    <3> QED BY <3>2, <3>3, <3>4
  <2>4. TypesUnderway(s)'
    <3>1. ASSUME NEW u \in Threads \ {t}
          PROVE  /\ Stands(u, "type")' /\ call'[u].s = s =>
                      <<Type(call'[u]), s>> \in index'.subjects_by_type
                 /\ Stands(u, "drop type")' /\ call'[u].s = s =>
                      <<call'[u].type, s>> \notin index'.subjects_by_type
                 /\ Stands(u, "drop subjects")' /\ call'[u].s = s =>
                      \A e \in index'.types_by_subject : e[1] # s
                 /\ Stands(u, "clear types")' => \A e \in index'.subjects_by_type : e[2] # s
      BY <1>1, <1>2, <1>7, <1>8, <1>9, <1>16 DEF TypesUnderway
    <3> QED BY <1>1, <1>8, <1>9, <1>16, <2>1, <3>1 DEF TypesUnderway
  <2> QED BY <2>2, <2>3, <2>4 DEF TypesInv
<1>17. CASE /\ Moves(t) /\ name = "clear subjects" /\ SameFound
            /\ index'.subjects_by_type = {}
            /\ index'.types_by_subject = index.types_by_subject
  <2>1. /\ ~Stands(t, "type") /\ ~Stands(t, "drop type") /\ ~Stands(t, "drop subjects") /\ ~Stands(t, "clear types")
        /\ ~Stands(t, "type")' /\ ~Stands(t, "drop type")' /\ ~Stands(t, "drop subjects")' /\ Stands(t, "clear types")'
    BY <1>4, <1>5, <1>6, <1>17
  <2>2. TypesLead(s)'
    <3> SUFFICES ASSUME NEW e \in index'.types_by_subject, e[1] = s,
                        <<e[2], s>> \notin index'.subjects_by_type
                 PROVE  \E u \in Threads : LosesType(u, s, e[2])'
      BY DEF TypesLead
    <3>1. e \in index.types_by_subject /\ <<e[2], s>> \notin index.subjects_by_type
          => \E u \in Threads : LosesType(u, s, e[2])
      BY <1>9 DEF TypesLead
    <3>2. \A u \in Threads : LosesType(u, s, e[2]) /\ u # t => LosesType(u, s, e[2])'
      BY <1>20
    <3> QED BY <1>1, <1>8, <1>9, <1>17, <2>1, <3>1, <3>2 DEF TypesUnderway, LosesType, ShapeInv
  <2>3. SubjectsLead(s)'
    <3> SUFFICES ASSUME NEW e \in index'.subjects_by_type, e[2] = s,
                        <<s, e[1]>> \notin index'.types_by_subject
                 PROVE  \E u \in Threads : GetsTypeOrLosesSubject(u, s, e[1])'
      BY DEF SubjectsLead
    <3>1. e \in index.subjects_by_type /\ <<s, e[1]>> \notin index.types_by_subject
          => \E u \in Threads : GetsTypeOrLosesSubject(u, s, e[1])
      BY <1>9 DEF SubjectsLead
    <3>2. \A u \in Threads : GetsTypeOrLosesSubject(u, s, e[1]) /\ u # t
                              => GetsTypeOrLosesSubject(u, s, e[1])'
      BY <1>20
    <3> QED BY <1>1, <1>8, <1>9, <1>17, <2>1, <3>1, <3>2
            DEF TypesUnderway, GetsTypeOrLosesSubject, ShapeInv, SameFound
  <2>4. TypesUnderway(s)'
    <3>1. ASSUME NEW u \in Threads \ {t}
          PROVE  /\ Stands(u, "type")' /\ call'[u].s = s =>
                      <<Type(call'[u]), s>> \in index'.subjects_by_type
                 /\ Stands(u, "drop type")' /\ call'[u].s = s =>
                      <<call'[u].type, s>> \notin index'.subjects_by_type
                 /\ Stands(u, "drop subjects")' /\ call'[u].s = s =>
                      \A e \in index'.types_by_subject : e[1] # s
                 /\ Stands(u, "clear types")' => \A e \in index'.subjects_by_type : e[2] # s
      BY <1>1, <1>2, <1>7, <1>8, <1>9, <1>17 DEF TypesUnderway
    <3> QED BY <1>1, <1>8, <1>9, <1>17, <2>1, <3>1 DEF TypesUnderway
  <2> QED BY <2>2, <2>3, <2>4 DEF TypesInv
<1>18. CASE /\ Moves(t) /\ name = "clear types" /\ SameFound
            /\ index'.subjects_by_type = index.subjects_by_type
            /\ index'.types_by_subject = {}
  <2>1. /\ ~Stands(t, "type") /\ ~Stands(t, "drop type") /\ ~Stands(t, "drop subjects") /\ Stands(t, "clear types")
        /\ ~Stands(t, "type")' /\ ~Stands(t, "drop type")' /\ ~Stands(t, "drop subjects")' /\ ~Stands(t, "clear types")'
    BY <1>4, <1>5, <1>6, <1>18
  <2>2. TypesLead(s)'
    <3> SUFFICES ASSUME NEW e \in index'.types_by_subject, e[1] = s,
                        <<e[2], s>> \notin index'.subjects_by_type
                 PROVE  \E u \in Threads : LosesType(u, s, e[2])'
      BY DEF TypesLead
    <3>1. e \in index.types_by_subject /\ <<e[2], s>> \notin index.subjects_by_type
          => \E u \in Threads : LosesType(u, s, e[2])
      BY <1>9 DEF TypesLead
    <3>2. \A u \in Threads : LosesType(u, s, e[2]) /\ u # t => LosesType(u, s, e[2])'
      BY <1>20
    <3> QED BY <1>1, <1>8, <1>9, <1>18, <2>1, <3>1, <3>2 DEF TypesUnderway, LosesType, ShapeInv
  <2>3. SubjectsLead(s)'
    <3> SUFFICES ASSUME NEW e \in index'.subjects_by_type, e[2] = s,
                        <<s, e[1]>> \notin index'.types_by_subject
                 PROVE  \E u \in Threads : GetsTypeOrLosesSubject(u, s, e[1])'
      BY DEF SubjectsLead
    <3>1. e \in index.subjects_by_type /\ <<s, e[1]>> \notin index.types_by_subject
          => \E u \in Threads : GetsTypeOrLosesSubject(u, s, e[1])
      BY <1>9 DEF SubjectsLead
    <3>2. \A u \in Threads : GetsTypeOrLosesSubject(u, s, e[1]) /\ u # t
                              => GetsTypeOrLosesSubject(u, s, e[1])'
      BY <1>20
    <3> QED BY <1>1, <1>8, <1>9, <1>18, <2>1, <3>1, <3>2
            DEF TypesUnderway, GetsTypeOrLosesSubject, ShapeInv, SameFound
  <2>4. TypesUnderway(s)'
    <3>1. ASSUME NEW u \in Threads \ {t}
          PROVE  /\ Stands(u, "type")' /\ call'[u].s = s =>
                      <<Type(call'[u]), s>> \in index'.subjects_by_type
                 /\ Stands(u, "drop type")' /\ call'[u].s = s =>
                      <<call'[u].type, s>> \notin index'.subjects_by_type
                 /\ Stands(u, "drop subjects")' /\ call'[u].s = s =>
                      \A e \in index'.types_by_subject : e[1] # s
                 /\ Stands(u, "clear types")' => \A e \in index'.subjects_by_type : e[2] # s
      BY <1>1, <1>2, <1>7, <1>8, <1>9, <1>18 DEF TypesUnderway
    <3> QED BY <1>1, <1>8, <1>9, <1>18, <2>1, <3>1 DEF TypesUnderway
  <2> QED BY <2>2, <2>3, <2>4 DEF TypesInv
<1> USE DEF name
<1> QED BY <1>10, <1>11, <1>12, <1>13, <1>14, <1>15, <1>16, <1>17, <1>18, TypeSections
-----------------------------------------------------------------------------
(* The namespace index *)

LEMMA NamespacesApart ==
  ASSUME PhaseInv, OverlapInv, NEW s, <<"namespace", s>> \in Keys \ tangled,
         NEW t \in Threads, NEW u \in Threads \ {t}, Running(t), Running(u)
  PROVE  LET name == Head(todo[t])
             other == Head(todo[u])
             adds == other \in NamespaceAdders /\ call[u].s = s
             removes == other \in NamespaceRemovers /\ call[u].s = s
         IN  /\ name \in NamespaceAdders /\ call[t].s = s => ~removes /\ other \notin Clearers
             /\ name \in NamespaceRemovers /\ call[t].s = s => ~adds /\ other \notin Clearers
             /\ name \in Clearers => ~adds /\ ~removes /\ other \notin Clearers
<1> DEFINE k == <<"namespace", s>>
<1>1. k \in Keys /\ k \notin tangled
  OBVIOUS
<1>2. /\ k \in Adds(call[t]) => k \notin Removes(call[u])
      /\ k \in Removes(call[t]) => k \notin Adds(call[u])
  BY <1>1, Apart
<1>3. /\ Head(todo[t]) \in NamespaceAdders /\ call[t].s = s => k \in Adds(call[t])
      /\ Head(todo[t]) \in NamespaceRemovers /\ call[t].s = s => k \in Removes(call[t])
      /\ Head(todo[t]) \in Clearers => Adds(call[t]) = Keys /\ Removes(call[t]) = Keys
  BY PlacesAddAndRemove
<1>4. /\ Head(todo[u]) \in NamespaceAdders /\ call[u].s = s => k \in Adds(call[u])
      /\ Head(todo[u]) \in NamespaceRemovers /\ call[u].s = s => k \in Removes(call[u])
      /\ Head(todo[u]) \in Clearers => Adds(call[u]) = Keys /\ Removes(call[u]) = Keys
  BY PlacesAddAndRemove
<1> HIDE DEF k
<1> QED BY <1>1, <1>2, <1>3, <1>4

LEMMA NamespacesElsewhere ==
  ASSUME NEW s, NamespacesInv(s), SameNamespaces,
         \A u \in Threads : \A n \in {"namespace", "drop id", "clear namespaces"} :
            /\ Stands(u, n)' <=> Stands(u, n)
            /\ Stands(u, n) => call'[u] = call[u] /\ found'[u] = found[u]
  PROVE  NamespacesInv(s)'
<1>1. OneNamespace(s)' /\ NamespaceLeads(s)'
  BY DEF NamespacesInv, OneNamespace, NamespaceLeads, SameNamespaces
<1>2. NodesLead(s)'
  BY DEF NamespacesInv, NodesLead, SameNamespaces, GetsOrLosesNamespace
<1>3. NamespacesUnderway(s)'
  BY DEF NamespacesInv, NamespacesUnderway, SameNamespaces
<1> QED BY <1>1, <1>2, <1>3 DEF NamespacesInv

LEMMA NamespacesStep ==
  ASSUME PhaseInv, ShapeInv, OverlapInv, NEW t \in Threads, Step(t),
         NEW s, <<"namespace", s>> \in Keys \ tangled, s \notin moved', NamespacesInv(s)
  PROVE  NamespacesInv(s)'
<1> DEFINE name == Head(todo[t])
<1>1. /\ Running(t) /\ call' = call
      /\ \A u \in Threads \ {t} : found'[u] = found[u]
  BY StepMovesOrEnds DEF Moves, Ends, Elsewhere
<1>2. \A u \in Threads \ {t} : \A n : Stands(u, n)' <=> Stands(u, n)
  BY StepPlaces
<1>3. /\ Before("namespace") = "id of namespace" /\ Then("id of namespace") = "namespace"
      /\ Before("drop id") = "take namespace" /\ Then("take namespace") = "drop id"
      /\ Before("clear namespaces") = "clear ids" /\ Then("clear ids") = "clear namespaces"
  BY DEF Then, Before
<1>4. /\ Stands(t, "namespace")' => name = "id of namespace"
      /\ Stands(t, "drop id")' => name = "take namespace"
      /\ Stands(t, "clear namespaces")' => name = "clear ids"
  <2>1. \A n \in {"namespace", "drop id", "clear namespaces"} : Stands(t, n)' => Then(name) = n
    BY <1>3, StepPlaces
  <2>2. Then(name) # "any" => Before(Then(name)) = name
    BY ThenBefore
  <2> QED BY <1>3, <2>1, <2>2
<1>5. Moves(t) => /\ name = "id of namespace" => Stands(t, "namespace")'
                  /\ name = "take namespace" => Stands(t, "drop id")'
                  /\ name = "clear ids" => Stands(t, "clear namespaces")'
  BY <1>3, StepPlaces
<1>6. \A n : Stands(t, n) <=> n = name
  BY <1>1 DEF Stands
<1>7. \A u \in Threads \ {t} :
        LET adds == Stands(u, "namespace") /\ call[u].s = s
            removes == Stands(u, "drop id") /\ call[u].s = s
            clears == Stands(u, "clear namespaces")
        IN  /\ name \in NamespaceAdders /\ call[t].s = s => ~removes /\ ~clears
            /\ name \in NamespaceRemovers /\ call[t].s = s => ~adds /\ ~clears
            /\ name \in Clearers => ~adds /\ ~removes /\ ~clears
  <2> SUFFICES ASSUME NEW u \in Threads \ {t}, Running(u)
               PROVE  LET other == Head(todo[u])
                          adds == other = "namespace" /\ call[u].s = s
                          removes == other = "drop id" /\ call[u].s = s
                          clears == other = "clear namespaces"
                      IN  /\ name \in NamespaceAdders /\ call[t].s = s => ~removes /\ ~clears
                          /\ name \in NamespaceRemovers /\ call[t].s = s => ~adds /\ ~clears
                          /\ name \in Clearers => ~adds /\ ~removes /\ ~clears
    BY DEF Stands
  <2>1. /\ "namespace" \in NamespaceAdders /\ "drop id" \in NamespaceRemovers
        /\ "clear namespaces" \in Clearers
    BY DEF NamespaceAdders, NamespaceRemovers, Clearers
  <2> QED BY <1>1, <2>1, NamespacesApart
<1>8. /\ {"id of namespace", "namespace"} \subseteq NamespaceAdders
      /\ {"take namespace", "drop id"} \subseteq NamespaceRemovers
      /\ {"clear ids", "clear namespaces"} \subseteq Clearers
  BY DEF NamespaceAdders, NamespaceRemovers, Clearers
<1>9. OneNamespace(s) /\ NamespaceLeads(s) /\ NodesLead(s) /\ NamespacesUnderway(s)
  BY DEF NamespacesInv
<1>10. CASE name \notin NamespacePlaces /\ SameNamespaces
  <2>1. \A n \in {"namespace", "drop id", "clear namespaces"} : ~Stands(t, n) /\ ~Stands(t, n)'
    BY <1>4, <1>6, <1>8, <1>10 DEF NamespacePlaces
  <2>2. \A u \in Threads : \A n \in {"namespace", "drop id", "clear namespaces"} :
           /\ Stands(u, n)' <=> Stands(u, n)
           /\ Stands(u, n) => call'[u] = call[u] /\ found'[u] = found[u]
    BY <1>1, <1>2, <2>1
  <2> QED BY <1>10, <2>2, NamespacesElsewhere
<1> HIDE DEF name
<1>20. \A u \in Threads \ {t} : \A namespace :
          GetsOrLosesNamespace(u, s, namespace)' <=> GetsOrLosesNamespace(u, s, namespace)
  BY <1>1, <1>2 DEF GetsOrLosesNamespace
<1>11. CASE /\ Moves(t) /\ name = "id of namespace"
            /\ SameFound
            /\ index'.ids_by_namespace = index.ids_by_namespace \cup {<<call[t].namespace, call[t].s>>}
            /\ index'.namespace_of = index.namespace_of
            /\ (\E x \in index.ids_by_namespace : x[1] # call[t].namespace /\ x[2] = call[t].s)
                 => call[t].s \in moved'
  <2>1. /\ ~Stands(t, "namespace") /\ ~Stands(t, "drop id") /\ ~Stands(t, "clear namespaces")
        /\ Stands(t, "namespace")' /\ ~Stands(t, "drop id")' /\ ~Stands(t, "clear namespaces")'
    BY <1>4, <1>5, <1>6, <1>11
  <2>2. OneNamespace(s)'
    <3>1. \A x \in index.ids_by_namespace : x[2] = s /\ call[t].s = s => x[1] = call[t].namespace
      BY <1>11
    <3>2. \A d \in index'.ids_by_namespace :
             d \notin index.ids_by_namespace => d[1] = call[t].namespace /\ d[2] = call[t].s
      <4> TAKE d \in index'.ids_by_namespace
      <4>1. d = <<call[t].namespace, call[t].s>> => d[1] = call[t].namespace /\ d[2] = call[t].s
        OBVIOUS
      <4> QED BY <1>11, <4>1
    <3> QED BY <1>9, <1>11, <3>1, <3>2 DEF OneNamespace
  <2>3. NamespaceLeads(s)'
    BY <1>1, <1>2, <1>9, <1>11, <2>1 DEF NamespaceLeads, NamespacesUnderway, Put, Without, Empty
  <2>4. NodesLead(s)'
    <3> SUFFICES ASSUME NEW e \in index'.ids_by_namespace, e[2] = s,
                        ~(s \in DOMAIN index'.namespace_of /\ index'.namespace_of[s] = e[1])
                 PROVE  \E u \in Threads : GetsOrLosesNamespace(u, s, e[1])'
      BY DEF NodesLead
    <3>1. /\ e \in index.ids_by_namespace
          /\ ~(s \in DOMAIN index.namespace_of /\ index.namespace_of[s] = e[1])
          => \E u \in Threads : GetsOrLosesNamespace(u, s, e[1])
      BY <1>9 DEF NodesLead
    <3>2. \A u \in Threads : GetsOrLosesNamespace(u, s, e[1]) /\ u # t
                              => GetsOrLosesNamespace(u, s, e[1])'
      BY <1>20
    <3>3. CASE e \in index.ids_by_namespace
      BY <1>11, <2>1, <3>1, <3>2, <3>3 DEF GetsOrLosesNamespace
    <3>4. CASE e = <<call[t].namespace, call[t].s>>
      BY <1>1, <2>1, <3>4 DEF GetsOrLosesNamespace
    <3> QED BY <1>11, <3>3, <3>4
  <2>5. NamespacesUnderway(s)'
    <3>1. ASSUME NEW u \in Threads \ {t}
          PROVE  /\ Stands(u, "namespace")' /\ call'[u].s = s =>
                      <<call'[u].namespace, s>> \in index'.ids_by_namespace
                 /\ Stands(u, "drop id")' /\ call'[u].s = s => s \notin DOMAIN index'.namespace_of
                 /\ Stands(u, "clear namespaces")' => \A e \in index'.ids_by_namespace : e[2] # s
      <4>1. CASE call[t].s = s
        BY <1>1, <1>2, <1>7, <1>8, <1>9, <1>11, <4>1 DEF NamespacesUnderway, Put, Without, Empty
      <4>2. CASE call[t].s # s
        <5>1. \A e \in index'.ids_by_namespace : e[2] = s => e \in index.ids_by_namespace
          <6> TAKE e \in index'.ids_by_namespace
          <6>1. e = <<call[t].namespace, call[t].s>> => e[2] # s
            BY <4>2
          <6> QED BY <1>11, <6>1
        <5>2. \A x \in index.ids_by_namespace : x \in index'.ids_by_namespace
          BY <1>11
        <5> QED BY <1>1, <1>2, <1>9, <1>11, <5>1, <5>2 DEF NamespacesUnderway
      <4> QED BY <4>1, <4>2
    <3> QED BY <1>1, <1>8, <1>9, <1>11, <2>1, <3>1 DEF NamespacesUnderway, Without
  <2> QED BY <2>2, <2>3, <2>4, <2>5 DEF NamespacesInv
<1>12. CASE /\ Moves(t) /\ name = "namespace"
            /\ SameFound
            /\ index'.ids_by_namespace = index.ids_by_namespace
            /\ index'.namespace_of = Put(index.namespace_of, call[t].s, call[t].namespace)
  <2>1. /\ Stands(t, "namespace") /\ ~Stands(t, "drop id") /\ ~Stands(t, "clear namespaces")
        /\ ~Stands(t, "namespace")' /\ ~Stands(t, "drop id")' /\ ~Stands(t, "clear namespaces")'
    BY <1>4, <1>5, <1>6, <1>12
  <2>2. OneNamespace(s)'
    BY <1>9, <1>12 DEF OneNamespace
  <2>3. NamespaceLeads(s)'
    BY <1>1, <1>2, <1>9, <1>12, <2>1 DEF NamespaceLeads, NamespacesUnderway, Put, Without, Empty
  <2>4. NodesLead(s)'
    <3> SUFFICES ASSUME NEW e \in index'.ids_by_namespace, e[2] = s,
                        ~(s \in DOMAIN index'.namespace_of /\ index'.namespace_of[s] = e[1])
                 PROVE  \E u \in Threads : GetsOrLosesNamespace(u, s, e[1])'
      BY DEF NodesLead
    <3>1. /\ e \in index.ids_by_namespace
          /\ ~(s \in DOMAIN index.namespace_of /\ index.namespace_of[s] = e[1])
          => \E u \in Threads : GetsOrLosesNamespace(u, s, e[1])
      BY <1>9 DEF NodesLead
    <3>2. \A u \in Threads : GetsOrLosesNamespace(u, s, e[1]) /\ u # t
                              => GetsOrLosesNamespace(u, s, e[1])'
      BY <1>20
    <3>3. CASE call[t].s = s
      <4>1. <<call[t].namespace, s>> \in index.ids_by_namespace
        BY <1>9, <2>1, <3>3 DEF NamespacesUnderway
      <4>2. e[1] = call[t].namespace
        BY <1>9, <1>12, <4>1 DEF OneNamespace
      <4> QED BY <1>12, <3>3, <4>2 DEF Put
    <3>4. CASE call[t].s # s
      <4>1. /\ s \in DOMAIN index'.namespace_of <=> s \in DOMAIN index.namespace_of
            /\ s \in DOMAIN index.namespace_of => index'.namespace_of[s] = index.namespace_of[s]
        BY <1>12, <3>4 DEF Put
      <4> QED BY <1>12, <3>1, <3>2, <3>4, <4>1 DEF GetsOrLosesNamespace
    <3> QED BY <3>3, <3>4
  <2>5. NamespacesUnderway(s)'
    <3>1. ASSUME NEW u \in Threads \ {t}
          PROVE  /\ Stands(u, "namespace")' /\ call'[u].s = s =>
                      <<call'[u].namespace, s>> \in index'.ids_by_namespace
                 /\ Stands(u, "drop id")' /\ call'[u].s = s => s \notin DOMAIN index'.namespace_of
                 /\ Stands(u, "clear namespaces")' => \A e \in index'.ids_by_namespace : e[2] # s
      <4>1. CASE call[t].s = s
        BY <1>1, <1>2, <1>7, <1>8, <1>9, <1>12, <4>1 DEF NamespacesUnderway, Put, Without, Empty
      <4>2. CASE call[t].s # s
        BY <1>1, <1>2, <1>7, <1>8, <1>9, <1>12, <4>2 DEF NamespacesUnderway, Put, Without, Empty
      <4> QED BY <4>1, <4>2
    <3> QED BY <1>1, <1>8, <1>9, <1>12, <2>1, <3>1 DEF NamespacesUnderway, Without
  <2> QED BY <2>2, <2>3, <2>4, <2>5 DEF NamespacesInv
<1>13. CASE /\ Moves(t) /\ name = "take namespace"
            /\ found'[t] = (IF call[t].s \in DOMAIN index.namespace_of THEN {index.namespace_of[call[t].s]} ELSE {})
            /\ index'.ids_by_namespace = index.ids_by_namespace
            /\ index'.namespace_of = Without(index.namespace_of, call[t].s)
  <2>1. /\ ~Stands(t, "namespace") /\ ~Stands(t, "drop id") /\ ~Stands(t, "clear namespaces")
        /\ ~Stands(t, "namespace")' /\ Stands(t, "drop id")' /\ ~Stands(t, "clear namespaces")'
    BY <1>4, <1>5, <1>6, <1>13
  <2>2. OneNamespace(s)'
    BY <1>9, <1>13 DEF OneNamespace
  <2>3. NamespaceLeads(s)'
    BY <1>1, <1>2, <1>9, <1>13, <2>1 DEF NamespaceLeads, NamespacesUnderway, Put, Without, Empty
  <2>4. NodesLead(s)'
    <3> SUFFICES ASSUME NEW e \in index'.ids_by_namespace, e[2] = s,
                        ~(s \in DOMAIN index'.namespace_of /\ index'.namespace_of[s] = e[1])
                 PROVE  \E u \in Threads : GetsOrLosesNamespace(u, s, e[1])'
      BY DEF NodesLead
    <3>1. /\ e \in index.ids_by_namespace
          /\ ~(s \in DOMAIN index.namespace_of /\ index.namespace_of[s] = e[1])
          => \E u \in Threads : GetsOrLosesNamespace(u, s, e[1])
      BY <1>9 DEF NodesLead
    <3>2. \A u \in Threads : GetsOrLosesNamespace(u, s, e[1]) /\ u # t
                              => GetsOrLosesNamespace(u, s, e[1])'
      BY <1>20
    <3>3. CASE call[t].s = s /\ s \in DOMAIN index.namespace_of /\ index.namespace_of[s] = e[1]
      BY <1>1, <1>13, <2>1, <3>3 DEF GetsOrLosesNamespace
    <3>4. CASE ~(s \in DOMAIN index.namespace_of /\ index.namespace_of[s] = e[1])
      BY <1>13, <2>1, <3>1, <3>2, <3>4 DEF GetsOrLosesNamespace
    <3>5. call[t].s # s => /\ s \in DOMAIN index'.namespace_of <=> s \in DOMAIN index.namespace_of
                           /\ s \in DOMAIN index.namespace_of =>
                                index'.namespace_of[s] = index.namespace_of[s]
      BY <1>13 DEF Without
    <3> QED BY <3>3, <3>4, <3>5
  <2>5. NamespacesUnderway(s)'
    <3>1. ASSUME NEW u \in Threads \ {t}
          PROVE  /\ Stands(u, "namespace")' /\ call'[u].s = s =>
                      <<call'[u].namespace, s>> \in index'.ids_by_namespace
                 /\ Stands(u, "drop id")' /\ call'[u].s = s => s \notin DOMAIN index'.namespace_of
                 /\ Stands(u, "clear namespaces")' => \A e \in index'.ids_by_namespace : e[2] # s
      <4>1. CASE call[t].s = s
        BY <1>1, <1>2, <1>7, <1>8, <1>9, <1>13, <4>1 DEF NamespacesUnderway, Put, Without, Empty
      <4>2. CASE call[t].s # s
        BY <1>1, <1>2, <1>7, <1>8, <1>9, <1>13, <4>2 DEF NamespacesUnderway, Put, Without, Empty
      <4> QED BY <4>1, <4>2
    <3> QED BY <1>1, <1>8, <1>9, <1>13, <2>1, <3>1 DEF NamespacesUnderway, Without
  <2> QED BY <2>2, <2>3, <2>4, <2>5 DEF NamespacesInv
<1>14. CASE /\ Moves(t) /\ name = "drop id"
            /\ SameFound
            /\ index'.ids_by_namespace = index.ids_by_namespace \ (found[t] \X {call[t].s})
            /\ index'.namespace_of = index.namespace_of
  <2>1. /\ ~Stands(t, "namespace") /\ Stands(t, "drop id") /\ ~Stands(t, "clear namespaces")
        /\ ~Stands(t, "namespace")' /\ ~Stands(t, "drop id")' /\ ~Stands(t, "clear namespaces")'
    BY <1>4, <1>5, <1>6, <1>14
  <2>2. OneNamespace(s)'
    BY <1>9, <1>14 DEF OneNamespace
  <2>3. NamespaceLeads(s)'
    BY <1>1, <1>2, <1>9, <1>14, <2>1 DEF NamespaceLeads, NamespacesUnderway, Put, Without, Empty
  <2>4. NodesLead(s)'
    <3> SUFFICES ASSUME NEW e \in index'.ids_by_namespace, e[2] = s,
                        ~(s \in DOMAIN index'.namespace_of /\ index'.namespace_of[s] = e[1])
                 PROVE  \E u \in Threads : GetsOrLosesNamespace(u, s, e[1])'
      BY DEF NodesLead
    <3>1. /\ e \in index.ids_by_namespace
          /\ ~(s \in DOMAIN index.namespace_of /\ index.namespace_of[s] = e[1])
          => \E u \in Threads : GetsOrLosesNamespace(u, s, e[1])
      BY <1>9 DEF NodesLead
    <3>2. \A u \in Threads : GetsOrLosesNamespace(u, s, e[1]) /\ u # t
                              => GetsOrLosesNamespace(u, s, e[1])'
      BY <1>20
    <3>3. PICK u \in Threads : GetsOrLosesNamespace(u, s, e[1])
      BY <1>14, <3>1
    <3>4. CASE u = t
      <4>1. e[1] \in found[t] /\ call[t].s = s
        BY <2>1, <3>3, <3>4 DEF GetsOrLosesNamespace
      <4>2. e = <<e[1], s>>
        BY <1>14 DEF ShapeInv
      <4> QED BY <1>14, <4>1, <4>2
    <3> QED BY <3>2, <3>3, <3>4
  <2>5. NamespacesUnderway(s)'
    <3>1. ASSUME NEW u \in Threads \ {t}
          PROVE  /\ Stands(u, "namespace")' /\ call'[u].s = s =>
                      <<call'[u].namespace, s>> \in index'.ids_by_namespace
                 /\ Stands(u, "drop id")' /\ call'[u].s = s => s \notin DOMAIN index'.namespace_of
                 /\ Stands(u, "clear namespaces")' => \A e \in index'.ids_by_namespace : e[2] # s
      <4>1. CASE call[t].s = s
        BY <1>1, <1>2, <1>7, <1>8, <1>9, <1>14, <4>1 DEF NamespacesUnderway, Put, Without, Empty
      <4>2. CASE call[t].s # s
        BY <1>1, <1>2, <1>7, <1>8, <1>9, <1>14, <4>2 DEF NamespacesUnderway, Put, Without, Empty
      <4> QED BY <4>1, <4>2
    <3> QED BY <1>1, <1>8, <1>9, <1>14, <2>1, <3>1 DEF NamespacesUnderway, Without
  <2> QED BY <2>2, <2>3, <2>4, <2>5 DEF NamespacesInv
<1>15. CASE /\ Moves(t) /\ name = "clear ids"
            /\ SameFound
            /\ index'.ids_by_namespace = {}
            /\ index'.namespace_of = index.namespace_of
  <2>1. /\ ~Stands(t, "namespace") /\ ~Stands(t, "drop id") /\ ~Stands(t, "clear namespaces")
        /\ ~Stands(t, "namespace")' /\ ~Stands(t, "drop id")' /\ Stands(t, "clear namespaces")'
    BY <1>4, <1>5, <1>6, <1>15
  <2>2. OneNamespace(s)'
    BY <1>9, <1>15 DEF OneNamespace
  <2>3. NamespaceLeads(s)'
    BY <1>1, <1>2, <1>9, <1>15, <2>1 DEF NamespaceLeads, NamespacesUnderway, Put, Without, Empty
  <2>4. NodesLead(s)'
    <3> SUFFICES ASSUME NEW e \in index'.ids_by_namespace, e[2] = s,
                        ~(s \in DOMAIN index'.namespace_of /\ index'.namespace_of[s] = e[1])
                 PROVE  \E u \in Threads : GetsOrLosesNamespace(u, s, e[1])'
      BY DEF NodesLead
    <3>1. /\ e \in index.ids_by_namespace
          /\ ~(s \in DOMAIN index.namespace_of /\ index.namespace_of[s] = e[1])
          => \E u \in Threads : GetsOrLosesNamespace(u, s, e[1])
      BY <1>9 DEF NodesLead
    <3>2. \A u \in Threads : GetsOrLosesNamespace(u, s, e[1]) /\ u # t
                              => GetsOrLosesNamespace(u, s, e[1])'
      BY <1>20
    <3> QED BY <1>1, <1>9, <1>15, <2>1, <3>1, <3>2 DEF NamespacesUnderway, Empty
  <2>5. NamespacesUnderway(s)'
    <3>1. ASSUME NEW u \in Threads \ {t}
          PROVE  /\ Stands(u, "namespace")' /\ call'[u].s = s =>
                      <<call'[u].namespace, s>> \in index'.ids_by_namespace
                 /\ Stands(u, "drop id")' /\ call'[u].s = s => s \notin DOMAIN index'.namespace_of
                 /\ Stands(u, "clear namespaces")' => \A e \in index'.ids_by_namespace : e[2] # s
      <4>1. CASE call[t].s = s
        BY <1>1, <1>2, <1>7, <1>8, <1>9, <1>15, <4>1 DEF NamespacesUnderway, Put, Without, Empty
      <4>2. CASE call[t].s # s
        BY <1>1, <1>2, <1>7, <1>8, <1>9, <1>15, <4>2 DEF NamespacesUnderway, Put, Without, Empty
      <4> QED BY <4>1, <4>2
    <3> QED BY <1>1, <1>8, <1>9, <1>15, <2>1, <3>1 DEF NamespacesUnderway, Without
  <2> QED BY <2>2, <2>3, <2>4, <2>5 DEF NamespacesInv
<1>16. CASE /\ Moves(t) /\ name = "clear namespaces"
            /\ SameFound
            /\ index'.ids_by_namespace = index.ids_by_namespace
            /\ index'.namespace_of = Empty
  <2>1. /\ ~Stands(t, "namespace") /\ ~Stands(t, "drop id") /\ Stands(t, "clear namespaces")
        /\ ~Stands(t, "namespace")' /\ ~Stands(t, "drop id")' /\ ~Stands(t, "clear namespaces")'
    BY <1>4, <1>5, <1>6, <1>16
  <2>2. OneNamespace(s)'
    BY <1>9, <1>16 DEF OneNamespace
  <2>3. NamespaceLeads(s)'
    <3>1. DOMAIN index'.namespace_of = {}
      <4>1. DOMAIN Empty = {}
        BY DEF Empty
      <4> QED BY <1>16, <4>1
    <3> QED BY <3>1 DEF NamespaceLeads
  <2>4. NodesLead(s)'
    <3> SUFFICES ASSUME NEW e \in index'.ids_by_namespace, e[2] = s,
                        ~(s \in DOMAIN index'.namespace_of /\ index'.namespace_of[s] = e[1])
                 PROVE  \E u \in Threads : GetsOrLosesNamespace(u, s, e[1])'
      BY DEF NodesLead
    <3>1. /\ e \in index.ids_by_namespace
          /\ ~(s \in DOMAIN index.namespace_of /\ index.namespace_of[s] = e[1])
          => \E u \in Threads : GetsOrLosesNamespace(u, s, e[1])
      BY <1>9 DEF NodesLead
    <3>2. \A u \in Threads : GetsOrLosesNamespace(u, s, e[1]) /\ u # t
                              => GetsOrLosesNamespace(u, s, e[1])'
      BY <1>20
    <3> QED BY <1>1, <1>9, <1>16, <2>1, <3>1, <3>2 DEF NamespacesUnderway, Empty
  <2>5. NamespacesUnderway(s)'
    <3>1. ASSUME NEW u \in Threads \ {t}
          PROVE  /\ Stands(u, "namespace")' /\ call'[u].s = s =>
                      <<call'[u].namespace, s>> \in index'.ids_by_namespace
                 /\ Stands(u, "drop id")' /\ call'[u].s = s => s \notin DOMAIN index'.namespace_of
                 /\ Stands(u, "clear namespaces")' => \A e \in index'.ids_by_namespace : e[2] # s
      <4>1. CASE call[t].s = s
        BY <1>1, <1>2, <1>7, <1>8, <1>9, <1>16, <4>1 DEF NamespacesUnderway, Put, Without, Empty
      <4>2. CASE call[t].s # s
        BY <1>1, <1>2, <1>7, <1>8, <1>9, <1>16, <4>2 DEF NamespacesUnderway, Put, Without, Empty
      <4> QED BY <4>1, <4>2
    <3> QED BY <1>1, <1>8, <1>9, <1>16, <2>1, <3>1 DEF NamespacesUnderway, Without
  <2> QED BY <2>2, <2>3, <2>4, <2>5 DEF NamespacesInv
<1> USE DEF name
<1> QED BY <1>10, <1>11, <1>12, <1>13, <1>14, <1>15, <1>16, NamespaceSections
-----------------------------------------------------------------------------
(* Both indexes *)

LEMMA MirrorKept ==
  ASSUME PhaseInv, ShapeInv, OverlapInv, MirrorInv, [Next]_vars
  PROVE  MirrorInv'
<1>1. ASSUME NEW t \in Threads, Step(t)
      PROVE  MirrorInv'
  <2>1. tangled' = tangled /\ moved \subseteq moved'
    BY <1>1, StepMovesOrEnds DEF Moves, Ends
  <2>2. ASSUME NEW k \in Keys \ tangled, k[1] = "types"
        PROVE  TypesInv(k[2])'
    <3>1. <<"types", k[2]>> \in Keys \ tangled
      BY <2>2 DEF Keys
    <3>2. TypesInv(k[2])
      BY <2>2 DEF MirrorInv
    <3> QED BY <1>1, <3>1, <3>2, TypesStep
  <2>3. ASSUME NEW k \in Keys \ tangled, k[1] = "namespace", k[2] \notin moved'
        PROVE  NamespacesInv(k[2])'
    <3>1. <<"namespace", k[2]>> \in Keys \ tangled
      BY <2>3 DEF Keys
    <3>2. NamespacesInv(k[2])
      BY <2>1, <2>3 DEF MirrorInv
    <3> QED BY <1>1, <2>3, <3>1, <3>2, NamespacesStep
  <2> QED BY <2>1, <2>2, <2>3 DEF MirrorInv
<1>2. ASSUME NEW t \in Threads, NEW c \in Calls, Begin(t, c)
      PROVE  MirrorInv'
  <2>1. /\ tangled \subseteq tangled' /\ moved' = moved /\ SameTypes /\ SameNamespaces
    BY <1>2 DEF Begin, SameTypes, SameNamespaces
  <2>2. \A n \in {"type", "drop type", "drop subjects", "clear types",
                  "namespace", "drop id", "clear namespaces"} : Before(n) # "any"
    BY DEF Before
  <2>3. \A u \in Threads :
           \A n \in {"type", "drop type", "drop subjects", "clear types",
                     "namespace", "drop id", "clear namespaces"} :
              /\ Stands(u, n)' <=> Stands(u, n)
              /\ Stands(u, n) => call'[u] = call[u] /\ found'[u] = found[u]
    BY <1>2, <2>2, BeginPlaces
  <2>4. ASSUME NEW k \in Keys \ tangled, k[1] = "types"
        PROVE  TypesInv(k[2])'
    <3>1. TypesInv(k[2])
      BY <2>4 DEF MirrorInv
    <3> QED BY <2>1, <2>3, <3>1, TypesElsewhere
  <2>5. ASSUME NEW k \in Keys \ tangled, k[1] = "namespace", k[2] \notin moved
        PROVE  NamespacesInv(k[2])'
    <3>1. NamespacesInv(k[2])
      BY <2>5 DEF MirrorInv
    <3> QED BY <2>1, <2>3, <3>1, NamespacesElsewhere
  <2> QED BY <2>1, <2>4, <2>5 DEF MirrorInv
<1>3. CASE UNCHANGED vars
  <2>1. /\ tangled' = tangled /\ moved' = moved /\ SameTypes /\ SameNamespaces
        /\ \A u \in Threads : \A n : /\ Stands(u, n)' <=> Stands(u, n)
                                     /\ call'[u] = call[u] /\ found'[u] = found[u]
    BY <1>3 DEF vars, history, SameTypes, SameNamespaces, Stands, Running
  <2>2. \A k \in Keys \ tangled : k[1] = "types" => TypesInv(k[2])'
    BY <2>1, TypesElsewhere DEF MirrorInv
  <2>3. \A k \in Keys \ tangled : k[1] = "namespace" /\ k[2] \notin moved => NamespacesInv(k[2])'
    BY <2>1, NamespacesElsewhere DEF MirrorInv
  <2> QED BY <2>1, <2>2, <2>3 DEF MirrorInv
<1> QED BY <1>1, <1>2, <1>3 DEF Next

LEMMA MirrorInvMirrors ==
  ASSUME PhaseInv, ShapeInv, MirrorInv
  PROVE  MapsMirror
<1>1. ASSUME NEW k \in Keys \ tangled, k[1] = "types"
      PROVE  LET types == {e \in index.types_by_subject : e[1] = k[2]}
                 subjects == {e \in index.subjects_by_type : e[2] = k[2]}
             IN /\ ~Removed(k) => Pairs(types, index.subjects_by_type)
                /\ ~Touched(k) => Pairs(subjects, index.types_by_subject)
  <2> DEFINE s == k[2]
  <2>1. k = <<"types", s>> /\ k \in Keys
    BY <1>1 DEF Keys
  <2>2. TypesLead(s) /\ SubjectsLead(s)
    BY <1>1 DEF MirrorInv, TypesInv
  <2>3. ASSUME NEW t \in Threads, NEW type, LosesType(t, s, type)
        PROVE  Removed(k)
    <3>1. Running(t)
      BY <2>3 DEF LosesType, Stands
    <3>2. k \in Removes(call[t])
      BY <2>1, <2>3, <3>1, PlacesAddAndRemove DEF LosesType, Stands, TypeRemovers, Clearers
    <3> QED BY <3>1, <3>2 DEF Removed
  <2>4. ASSUME NEW t \in Threads, NEW type, GetsTypeOrLosesSubject(t, s, type)
        PROVE  Touched(k)
    <3>1. Running(t)
      BY <2>4 DEF GetsTypeOrLosesSubject, Stands
    <3>2. k \in Adds(call[t]) \cup Removes(call[t])
      BY <2>1, <2>4, <3>1, PlacesAddAndRemove
         DEF GetsTypeOrLosesSubject, Stands, TypeAdders, TypeRemovers
    <3> QED BY <3>1, <3>2 DEF Touched
  <2>5. ~Removed(k) => \A e \in index.types_by_subject :
                          e[1] = s => <<e[2], s>> \in index.subjects_by_type
    BY <2>2, <2>3 DEF TypesLead
  <2>6. ~Touched(k) => \A e \in index.subjects_by_type :
                          e[2] = s => <<s, e[1]>> \in index.types_by_subject
    BY <2>2, <2>4 DEF SubjectsLead
  <2> QED BY <2>5, <2>6 DEF Pairs
<1>2. ASSUME NEW k \in Keys \ tangled, k[1] = "namespace", k[2] \notin moved, ~Touched(k)
      PROVE  {e[1] : e \in {x \in index.ids_by_namespace : x[2] = k[2]}}
             = {index.namespace_of[n] : n \in {k[2]} \cap DOMAIN index.namespace_of}
  <2> DEFINE s == k[2]
  <2>1. k = <<"namespace", s>> /\ k \in Keys
    BY <1>2 DEF Keys
  <2>2. NamespaceLeads(s) /\ NodesLead(s)
    BY <1>2 DEF MirrorInv, NamespacesInv
  <2>3. ASSUME NEW t \in Threads, Stands(t, "clear namespaces")
        PROVE  FALSE
    <3>1. Running(t) /\ Head(todo[t]) \in Clearers
      BY <2>3 DEF Stands, Clearers
    <3>2. k \in Removes(call[t])
      BY <2>1, <3>1, PlacesAddAndRemove
    <3> QED BY <1>2, <3>1, <3>2 DEF Touched
  <2>4. ASSUME NEW t \in Threads, NEW namespace, GetsOrLosesNamespace(t, s, namespace)
        PROVE  FALSE
    <3>1. Running(t)
      BY <2>4 DEF GetsOrLosesNamespace, Stands
    <3>2. k \in Adds(call[t]) \cup Removes(call[t])
      BY <2>1, <2>4, <3>1, PlacesAddAndRemove
         DEF GetsOrLosesNamespace, Stands, NamespaceAdders, NamespaceRemovers
    <3> QED BY <1>2, <3>1, <3>2 DEF Touched
  <2>5. s \in DOMAIN index.namespace_of => <<index.namespace_of[s], s>> \in index.ids_by_namespace
    BY <2>2, <2>3 DEF NamespaceLeads
  <2>6. \A e \in index.ids_by_namespace :
           e[2] = s => s \in DOMAIN index.namespace_of /\ index.namespace_of[s] = e[1]
    BY <2>2, <2>4 DEF NodesLead
  <2> HIDE DEF s
  <2>7. {e[1] : e \in {x \in index.ids_by_namespace : x[2] = s}}
        = {index.namespace_of[n] : n \in {s} \cap DOMAIN index.namespace_of}
    <3>1. ASSUME NEW x \in {index.namespace_of[n] : n \in {s} \cap DOMAIN index.namespace_of}
          PROVE  x \in {e[1] : e \in {y \in index.ids_by_namespace : y[2] = s}}
      <4>1. <<x, s>> \in index.ids_by_namespace
        BY <2>5
      <4>2. <<x, s>>[1] = x /\ <<x, s>>[2] = s
        OBVIOUS
      <4>3. <<x, s>> \in {y \in index.ids_by_namespace : y[2] = s}
        BY <4>1, <4>2
      <4> QED BY <4>2, <4>3
    <3>2. ASSUME NEW x \in {e[1] : e \in {y \in index.ids_by_namespace : y[2] = s}}
          PROVE  x \in {index.namespace_of[n] : n \in {s} \cap DOMAIN index.namespace_of}
      BY <2>6
    <3> QED BY <3>1, <3>2
  <2> QED BY <2>7 DEF s
<1> QED BY <1>1, <1>2 DEF MapsMirror, TypesMirror, NamespacesMirror

-----------------------------------------------------------------------------
(* Types *)

LEMMA CallsHaveKeys ==
  ASSUME NEW c \in Calls
  PROVE  Adds(c) \subseteq Keys /\ Removes(c) \subseteq Keys
<1>1. c.op \in {"index_triple", "add_namespace", "add_type", "remove_namespace", "remove_type",
                "remove_subject"} => "s" \in DOMAIN c
  BY CallsAssumption
<1>2. c.op \in {"index_triple", "remove_edge"} => "p" \in DOMAIN c
  BY CallsAssumption
<1>3. "s" \in DOMAIN c => <<"types", c.s>> \in Keys /\ <<"namespace", c.s>> \in Keys
  BY DEF Keys
<1>4. "p" \in DOMAIN c => <<"edges", c.p>> \in Keys
  BY DEF Keys
<1> QED BY <1>1, <1>2, <1>3, <1>4 DEF Adds, Removes

LEMMA TypeAndShapeKept ==
  ASSUME TypeOK, PhaseInv, ShapeInv, [Next]_vars
  PROVE  TypeOK' /\ ShapeInv'
<1>1. ASSUME NEW t \in Threads, Step(t)
      PROVE  TypeOK' /\ ShapeInv'
  <2>1. /\ Running(t) /\ call' = call /\ tangled' = tangled
        /\ DOMAIN index' = DOMAIN index
        /\ \A u \in Threads : Running(u)' => Running(u)
    BY <1>1, StepMovesOrEnds, StepPlaces DEF Moves, Ends
  <2>2. /\ \A n \in DOMAIN index'.namespace_of : <<"namespace", n>> \in Keys
        /\ \A e \in index'.ids_by_namespace : e = <<e[1], e[2]>>
    <3>1. Head(todo[t]) = "namespace" => <<"namespace", call[t].s>> \in Keys
      <4>1. Head(todo[t]) = "namespace" => <<"namespace", call[t].s>> \in Adds(call[t])
        BY <2>1, PlacesAddAndRemove DEF NamespaceAdders
      <4>2. call[t] \in Calls
        BY <2>1 DEF PhaseInv
      <4> QED BY <4>1, <4>2, CallsHaveKeys
    <3>2. \A n \in DOMAIN index'.namespace_of :
             n \in DOMAIN index.namespace_of \/ (Head(todo[t]) = "namespace" /\ n = call[t].s)
      <4>1. \/ index'.namespace_of = index.namespace_of
            \/ /\ index'.namespace_of = Put(index.namespace_of, call[t].s, call[t].namespace)
               /\ Head(todo[t]) = "namespace"
            \/ index'.namespace_of = Without(index.namespace_of, call[t].s)
            \/ index'.namespace_of = Empty
        BY <1>1, NamespaceSections DEF SameNamespaces
      <4>2. DOMAIN Empty = {}
        BY DEF Empty
      <4> QED BY <4>1, <4>2 DEF Put, Without
    <3>3. \A e \in index'.ids_by_namespace :
             e \in index.ids_by_namespace \/ e = <<call[t].namespace, call[t].s>>
      BY <1>1, NamespaceSections DEF SameNamespaces
    <3> QED BY <3>1, <3>2, <3>3 DEF TypeOK, ShapeInv
  <2>3. /\ \A e \in index'.subjects_by_type : e = <<e[1], e[2]>>
        /\ \A e \in index'.types_by_subject : e = <<e[1], e[2]>>
    <3>1. /\ \A e \in index'.subjects_by_type :
                e \in index.subjects_by_type \/ e = <<Type(call[t]), call[t].s>>
          /\ \A e \in index'.types_by_subject :
                e \in index.types_by_subject \/ e = <<call[t].s, Type(call[t])>>
      BY <1>1, TypeSections DEF SameTypes
    <3> QED BY <3>1 DEF ShapeInv
  <2>4. IsFiniteSet(index'.edges)
    <3>1. \/ index'.edges \subseteq index.edges
          \/ \E e : index'.edges = index.edges \cup {e}
      BY <1>1, EdgeSections DEF SameEdges, Ends
    <3> QED BY <3>1, FS_Subset, FS_AddElement DEF ShapeInv
  <2>5. /\ IsFiniteSet(DOMAIN index'.counts)
        /\ \A p \in DOMAIN index'.counts : index'.counts[p] \in Nat \ {0}
        /\ \A p \in DOMAIN index'.counts : <<"edges", p>> \in Keys
    <3>1. CASE index'.counts = index.counts
      BY <3>1 DEF ShapeInv, TypeOK
    <3>2. CASE /\ index'.counts = Put(index.counts, call[t].p, CountOf(call[t].p) + 1)
               /\ Head(todo[t]) = "count"
      <4>5. <<"edges", call[t].p>> \in Keys
        <5>1. <<"edges", call[t].p>> \in Adds(call[t])
          BY <2>1, <3>2, PlacesAddAndRemove DEF EdgeAdders
        <5>2. call[t] \in Calls
          BY <2>1 DEF PhaseInv
        <5> QED BY <5>1, <5>2, CallsHaveKeys
      <4>1. DOMAIN index'.counts = DOMAIN index.counts \cup {call[t].p}
        BY <3>2 DEF Put
      <4>2. CountOf(call[t].p) \in Nat
        BY DEF CountOf, TypeOK
      <4>3. IsFiniteSet(DOMAIN index'.counts)
        BY <4>1, FS_AddElement DEF ShapeInv
      <4> QED BY <3>2, <4>1, <4>2, <4>3, <4>5 DEF Put, TypeOK, ShapeInv
    <3>3. CASE index'.counts = CountedDown(index.counts, call[t].p)
      <4>1. DOMAIN index'.counts \subseteq DOMAIN index.counts
        BY <3>3 DEF CountedDown, Put, Without
      <4>2. IsFiniteSet(DOMAIN index'.counts)
        BY <4>1, FS_Subset DEF ShapeInv
      <4>3. \A p \in DOMAIN index'.counts : <<"edges", p>> \in Keys
        BY <4>1 DEF ShapeInv
      <4> QED BY <3>3, <4>1, <4>2, <4>3 DEF CountedDown, Put, Without, TypeOK
    <3>4. CASE index'.counts = Empty
      <4>1. DOMAIN Empty = {}
        BY DEF Empty
      <4> QED BY <3>4, <4>1, FS_EmptySet
    <3> QED BY <1>1, <3>1, <3>2, <3>3, <3>4, EdgeSections DEF SameEdges, Ends
  <2>6. index'.total \in Nat
    <3>1. \/ index'.total = index.total
          \/ index'.total = index.total + 1
          \/ index'.total = IF index.total = 0 THEN 0 ELSE index.total - 1
          \/ index'.total = 0
      BY <1>1, EdgeSections DEF SameEdges, Ends
    <3> QED BY <3>1 DEF TypeOK
  <2>7. ShapeInv'
    BY <2>1, <2>2, <2>3, <2>4, <2>5 DEF ShapeInv
  <2>8. TypeOK'
    BY <2>1, <2>2, <2>5, <2>6 DEF TypeOK
  <2> QED BY <2>7, <2>8
<1>2. ASSUME NEW t \in Threads, NEW c \in Calls, Begin(t, c)
      PROVE  TypeOK' /\ ShapeInv'
  <2>1. index' = index /\ tangled' = tangled \cup Overlaps(t, c)
    BY <1>2 DEF Begin
  <2>2. ShapeInv'
    BY <2>1 DEF ShapeInv
  <2>3. Overlaps(t, c) \subseteq Keys
    BY CallsHaveKeys DEF Overlaps
  <2>4. /\ call'[t] \in Calls
        /\ \A u \in Threads \ {t} : call'[u] = call[u] /\ (Running(u)' <=> Running(u))
    BY <1>2, BeginPlaces
  <2>5. \A u \in Threads : call'[u] \in Calls \cup {None} /\ (Running(u)' => call'[u] # None)
    BY <2>4, CallsAssumption DEF TypeOK
  <2>6. tangled' \subseteq Keys
    BY <2>1, <2>3 DEF TypeOK
  <2> QED BY <2>1, <2>2, <2>5, <2>6 DEF TypeOK
<1>3. CASE UNCHANGED vars
  BY <1>3 DEF vars, history, TypeOK, ShapeInv, Running
<1> QED BY <1>1, <1>2, <1>3 DEF Next
-----------------------------------------------------------------------------
(* What the sum of a function over a finite set is *)

(* Induction over the subsets of a finite set: good has a set as soon as   *)
(* it has all that are smaller.                                            *)
LEMMA SubsetInduction ==
  ASSUME NEW S, IsFiniteSet(S), NEW good,
         \A T \in SUBSET S : (\A s \in SUBSET T : s # T => s \in good) => T \in good
  PROVE  \A T \in SUBSET S : T \in good
<1> DEFINE bad == {T \in SUBSET S : T \notin good}
<1>1. SUFFICES ASSUME bad # {} PROVE FALSE
  OBVIOUS
<1>2. FiniteSubsetsOf(S) = SUBSET S
  BY FS_FiniteSubsetsOfFinite
<1>3. IsWellFoundedOn(StrictSubsetOrdering(S), SUBSET S)
  BY <1>2, FS_StrictSubsetOrderingWellFounded
<1>4. PICK T \in bad : \A s \in bad : ~(<<s, T>> \in StrictSubsetOrdering(S))
  <2>1. bad \subseteq SUBSET S
    OBVIOUS
  <2> HIDE DEF bad
  <2> QED BY <1>1, <1>3, <2>1, WFMin
<1>5. \A s \in SUBSET T : s # T => s \in good
  BY <1>4 DEF StrictSubsetOrdering
<1> QED BY <1>4, <1>5

(* The recursion behind SumOf: iter has the sum over every subset of S.    *)
Pick(s) == CHOOSE x \in s : TRUE
SumsOver(f, S, iter) ==
    iter = [s \in SUBSET S |-> IF s = {} THEN 0 ELSE f[Pick(s)] + iter[s \ {Pick(s)}]]

LEMMA SumIsChosen ==
  ASSUME NEW f, NEW S
  PROVE  SumOf(f, S) = (CHOOSE iter : SumsOver(f, S, iter))[S]
BY DEF SumOf, FoldFunctionOnSet, MapThenFoldSet, SumsOver, Pick

LEMMA PickIn == ASSUME NEW s, s # {} PROVE Pick(s) \in s
BY DEF Pick

(* The recursion has a solution over T, and all solutions agree on T.      *)
Solved(f, T) ==
    /\ \E iter : SumsOver(f, T, iter)
    /\ \A iter : SumsOver(f, T, iter) => iter[T] = SumOf(f, T)

LEMMA PartOfSolution ==
  ASSUME NEW f, NEW T, NEW iter, SumsOver(f, T, iter), NEW s \in SUBSET T
  PROVE  SumsOver(f, s, [r \in SUBSET s |-> iter[r]])
BY PickIn DEF SumsOver

LEMMA SolvedStep ==
  ASSUME NEW f, NEW T, \A s \in SUBSET T : s # T => Solved(f, s)
  PROVE  Solved(f, T)
<1>1. ASSUME NEW iter, SumsOver(f, T, iter), NEW s \in SUBSET T, s # T
      PROVE  iter[s] = SumOf(f, s)
  <2>1. SumsOver(f, s, [r \in SUBSET s |-> iter[r]])
    BY <1>1, PartOfSolution
  <2>2. [r \in SUBSET s |-> iter[r]][s] = SumOf(f, s)
    BY <1>1, <2>1 DEF Solved
  <2> QED BY <2>2
<1> DEFINE value(s) == IF s = {} THEN 0 ELSE f[Pick(s)] + SumOf(f, s \ {Pick(s)})
           sums == [s \in SUBSET T |-> value(s)]
<1>2. ASSUME NEW s \in SUBSET T, s # T
      PROVE  SumOf(f, s) = value(s)
  <2>1. PICK iter : SumsOver(f, s, iter)
    BY <1>2 DEF Solved
  <2>2. iter[s] = SumOf(f, s)
    BY <1>2, <2>1 DEF Solved
  <2>3. CASE s = {}
    BY <2>1, <2>2, <2>3 DEF SumsOver
  <2>4. CASE s # {}
    <3> DEFINE r == s \ {Pick(s)}
    <3>1. r \in SUBSET s /\ r # s /\ r \in SUBSET T /\ r # T
      BY <2>4, <1>2, PickIn
    <3>2. SumsOver(f, r, [q \in SUBSET r |-> iter[q]])
      BY <2>1, <3>1, PartOfSolution
    <3>3. [q \in SUBSET r |-> iter[q]][r] = SumOf(f, r)
      BY <3>1, <3>2 DEF Solved
    <3>4. iter[r] = SumOf(f, r)
      BY <3>3
    <3>5. iter[s] = f[Pick(s)] + iter[r]
      BY <2>1, <2>4 DEF SumsOver
    <3> QED BY <2>2, <2>4, <3>4, <3>5
  <2> QED BY <2>3, <2>4
<1>3. SumsOver(f, T, sums)
  <2>1. ASSUME NEW s \in SUBSET T
        PROVE  sums[s] = IF s = {} THEN 0 ELSE f[Pick(s)] + sums[s \ {Pick(s)}]
    <3>1. CASE s = {}
      BY <3>1
    <3>2. CASE s # {}
      <4> DEFINE r == s \ {Pick(s)}
      <4>1. r \in SUBSET T /\ r # T
        BY <3>2, PickIn
      <4>2. SumOf(f, r) = value(r)
        BY <4>1, <1>2
      <4>3. sums[r] = value(r) /\ sums[s] = value(s)
        BY <4>1
      <4>4. value(s) = f[Pick(s)] + SumOf(f, r)
        BY <3>2
      <4> HIDE DEF value, sums
      <4> QED BY <3>2, <4>2, <4>3, <4>4
    <3> QED BY <3>1, <3>2
  <2>2. sums = [s \in SUBSET T |-> IF s = {} THEN 0 ELSE f[Pick(s)] + sums[s \ {Pick(s)}]]
    <3>1. DOMAIN sums = SUBSET T
      OBVIOUS
    <3>2. sums = [s \in SUBSET T |-> sums[s]]
      OBVIOUS
    <3> HIDE DEF sums
    <3> QED BY <2>1, <3>2
  <2> QED BY <2>2 DEF SumsOver
<1> HIDE DEF sums
<1>4. SumOf(f, T) = (CHOOSE iter : SumsOver(f, T, iter))[T]
  BY SumIsChosen
<1>5. SumsOver(f, T, CHOOSE iter : SumsOver(f, T, iter))
  BY <1>3
<1>6. ASSUME NEW iter, SumsOver(f, T, iter)
      PROVE  iter[T] = value(T)
  <2>1. CASE T = {}
    BY <1>6, <2>1 DEF SumsOver
  <2>2. CASE T # {}
    <3> DEFINE r == T \ {Pick(T)}
    <3>1. r \in SUBSET T /\ r # T
      BY <2>2, PickIn
    <3>2. iter[r] = SumOf(f, r)
      BY <3>1, <1>1, <1>6
    <3>3. iter[T] = f[Pick(T)] + iter[r]
      BY <1>6, <2>2 DEF SumsOver
    <3> QED BY <2>2, <3>2, <3>3
  <2> QED BY <2>1, <2>2
<1>7. SumOf(f, T) = value(T)
  BY <1>4, <1>5, <1>6
<1> HIDE DEF value
<1> QED BY <1>3, <1>6, <1>7 DEF Solved

LEMMA AllSolved ==
  ASSUME NEW f, NEW S, IsFiniteSet(S)
  PROVE  \A T \in SUBSET S : Solved(f, T)
<1> DEFINE good == {T \in SUBSET S : Solved(f, T)}
<1>1. \A T \in SUBSET S : (\A s \in SUBSET T : s # T => s \in good) => T \in good
  BY SolvedStep
<1>2. \A T \in SUBSET S : T \in good
  <2> HIDE DEF good
  <2> QED BY <1>1, SubsetInduction
<1> QED BY <1>2

(* A finite set has the sum of one of its elements and of the others.      *)
LEMMA SumRecursion ==
  ASSUME NEW f, NEW S, IsFiniteSet(S)
  PROVE  /\ SumOf(f, {}) = 0
         /\ S # {} => SumOf(f, S) = f[Pick(S)] + SumOf(f, S \ {Pick(S)})
<1>1. Solved(f, S) /\ Solved(f, {})
  BY AllSolved
<1>2. SumOf(f, {}) = 0
  BY <1>1 DEF Solved, SumsOver
<1>3. ASSUME S # {}
      PROVE  SumOf(f, S) = f[Pick(S)] + SumOf(f, S \ {Pick(S)})
  <2> DEFINE r == S \ {Pick(S)}
  <2>1. PICK iter : SumsOver(f, S, iter)
    BY <1>1 DEF Solved
  <2>2. iter[S] = SumOf(f, S)
    BY <1>1, <2>1 DEF Solved
  <2>3. r \in SUBSET S /\ Solved(f, r)
    BY AllSolved
  <2>4. SumsOver(f, r, [q \in SUBSET r |-> iter[q]])
    BY <2>1, <2>3, PartOfSolution
  <2>5. [q \in SUBSET r |-> iter[q]][r] = SumOf(f, r)
    BY <2>3, <2>4 DEF Solved
  <2>6. iter[S] = f[Pick(S)] + iter[r]
    BY <1>3, <2>1 DEF SumsOver
  <2> QED BY <2>2, <2>5, <2>6
<1> QED BY <1>2, <1>3

LEMMA SumIsNat ==
  ASSUME NEW f, NEW S, IsFiniteSet(S), \A x \in S : f[x] \in Nat
  PROVE  SumOf(f, S) \in Nat
<1> DEFINE good == {T \in SUBSET S : SumOf(f, T) \in Nat}
<1>1. ASSUME NEW T \in SUBSET S, \A s \in SUBSET T : s # T => s \in good
      PROVE  T \in good
  <2>1. IsFiniteSet(T)
    BY FS_Subset
  <2>2. CASE T = {}
    <3>1. SumOf(f, {}) = 0
      BY <2>1, SumRecursion
    <3> QED BY <2>2, <3>1
  <2>3. CASE T # {}
    <3>1. Pick(T) \in T
      BY <2>3, PickIn
    <3>2. T \ {Pick(T)} \in good
      BY <1>1, <3>1
    <3> QED BY <2>1, <2>3, <3>1, <3>2, SumRecursion
  <2> QED BY <2>2, <2>3
<1>2. S \in good
  <2> HIDE DEF good
  <2> QED BY <1>1, SubsetInduction
<1> QED BY <1>2

(* Any element may be taken first. *)
LEMMA SumWithout ==
  ASSUME NEW f, NEW S, IsFiniteSet(S), \A x \in S : f[x] \in Nat, NEW x \in S
  PROVE  SumOf(f, S) = f[x] + SumOf(f, S \ {x})
<1> DEFINE good == {T \in SUBSET S : \A z \in T : SumOf(f, T) = f[z] + SumOf(f, T \ {z})}
<1>1. ASSUME NEW T \in SUBSET S, \A s \in SUBSET T : s # T => s \in good
      PROVE  T \in good
  <2> SUFFICES ASSUME NEW z \in T
               PROVE  SumOf(f, T) = f[z] + SumOf(f, T \ {z})
    OBVIOUS
  <2> DEFINE y == Pick(T)
             rest == T \ {y, z}
  <2>1. y \in T /\ IsFiniteSet(T) /\ IsFiniteSet(rest)
    BY PickIn, FS_Subset
  <2>2. SumOf(f, T) = f[y] + SumOf(f, T \ {y})
    BY <2>1, SumRecursion
  <2>3. CASE z = y
    BY <2>2, <2>3
  <2>4. CASE z # y
    <3>1. /\ T \ {y} \in good /\ z \in T \ {y} /\ (T \ {y}) \ {z} = rest
          /\ T \ {z} \in good /\ y \in T \ {z} /\ (T \ {z}) \ {y} = rest
      BY <1>1, <2>1, <2>4
    <3>2. /\ SumOf(f, T \ {y}) = f[z] + SumOf(f, rest)
          /\ SumOf(f, T \ {z}) = f[y] + SumOf(f, rest)
      BY <3>1
    <3>3. f[y] \in Nat /\ f[z] \in Nat /\ SumOf(f, rest) \in Nat
      BY <2>1, SumIsNat
    <3> HIDE DEF y, rest, good
    <3> QED BY <2>2, <3>2, <3>3
  <2> QED BY <2>3, <2>4
<1>2. S \in good
  <2> HIDE DEF good
  <2> QED BY <1>1, SubsetInduction
<1> QED BY <1>2

(* Sums of functions that agree on the set are equal.                      *)
LEMMA SumOfEquals ==
  ASSUME NEW f, NEW g, NEW S, IsFiniteSet(S), \A x \in S : f[x] = g[x]
  PROVE  SumOf(f, S) = SumOf(g, S)
<1> DEFINE good == {T \in SUBSET S : SumOf(f, T) = SumOf(g, T)}
<1>1. ASSUME NEW T \in SUBSET S, \A s \in SUBSET T : s # T => s \in good
      PROVE  T \in good
  <2>1. IsFiniteSet(T)
    BY FS_Subset
  <2>2. CASE T = {}
    <3>1. SumOf(f, {}) = 0 /\ SumOf(g, {}) = 0
      BY <2>1, SumRecursion
    <3> QED BY <2>2, <3>1
  <2>3. CASE T # {}
    <3> DEFINE y == Pick(T)
    <3>1. y \in T /\ T \ {y} \in good
      BY <1>1, <2>3, PickIn
    <3>2. SumOf(f, T) = f[y] + SumOf(f, T \ {y}) /\ SumOf(g, T) = g[y] + SumOf(g, T \ {y})
      BY <2>1, <2>3, SumRecursion
    <3> QED BY <3>1, <3>2
  <2> QED BY <2>2, <2>3
<1>2. S \in good
  <2> HIDE DEF good
  <2> QED BY <1>1, SubsetInduction
<1> QED BY <1>2

(* An element of a sum is a part of it.                                    *)
LEMMA SumAtLeast ==
  ASSUME NEW f, NEW S, IsFiniteSet(S), \A x \in S : f[x] \in Nat, NEW x \in S
  PROVE  f[x] <= SumOf(f, S)
<1>1. SumOf(f, S) = f[x] + SumOf(f, S \ {x})
  BY SumWithout
<1>2. SumOf(f, S \ {x}) \in Nat
  BY SumIsNat, FS_Subset
<1> QED BY <1>1, <1>2

(* Sums that differ at one element. *)
LEMMA SumChanged ==
  ASSUME NEW f, NEW g, NEW S, IsFiniteSet(S), NEW x \in S,
         \A y \in S : f[y] \in Nat /\ g[y] \in Nat, \A y \in S \ {x} : f[y] = g[y]
  PROVE  SumOf(g, S) + f[x] = SumOf(f, S) + g[x]
<1>1. IsFiniteSet(S \ {x})
  BY FS_Subset
<1>2. SumOf(f, S) = f[x] + SumOf(f, S \ {x}) /\ SumOf(g, S) = g[x] + SumOf(g, S \ {x})
  BY SumWithout
<1>3. SumOf(f, S \ {x}) = SumOf(g, S \ {x})
  BY <1>1, SumOfEquals
<1>4. SumOf(f, S \ {x}) \in Nat
  BY <1>1, SumIsNat
<1> QED BY <1>2, <1>3, <1>4

LEMMA SumExtended ==
  ASSUME NEW f, NEW g, NEW S, IsFiniteSet(S), NEW x, x \notin S, g[x] \in Nat,
         \A y \in S : f[y] \in Nat /\ f[y] = g[y]
  PROVE  SumOf(g, S \cup {x}) = SumOf(f, S) + g[x]
<1> DEFINE T == S \cup {x}
<1>1. IsFiniteSet(T) /\ x \in T /\ T \ {x} = S /\ \A y \in T : g[y] \in Nat
  BY FS_AddElement
<1>2. SumOf(g, T) = g[x] + SumOf(g, T \ {x})
  <2> HIDE DEF T
  <2> QED BY <1>1, SumWithout
<1>3. SumOf(f, S) = SumOf(g, S) /\ SumOf(f, S) \in Nat
  BY SumOfEquals, SumIsNat
<1> QED BY <1>1, <1>2, <1>3

-----------------------------------------------------------------------------
(* The counts of the predicates *)

LEMMA EdgesApart ==
  ASSUME PhaseInv, OverlapInv, NEW p, <<"edges", p>> \in Keys \ tangled,
         NEW t \in Threads, NEW u \in Threads \ {t}, Running(t), Running(u)
  PROVE  LET name == Head(todo[t])
             other == Head(todo[u])
             adds == other \in EdgeAdders /\ call[u].p = p
             removes == other \in EdgeRemovers /\ call[u].p = p
         IN  /\ name \in EdgeAdders /\ call[t].p = p => ~removes /\ other \notin Clearers
             /\ name \in EdgeRemovers /\ call[t].p = p => ~adds /\ other \notin Clearers
             /\ name \in Clearers => ~adds /\ ~removes /\ other \notin Clearers
<1> DEFINE k == <<"edges", p>>
<1>1. k \in Keys /\ k \notin tangled
  OBVIOUS
<1>2. /\ k \in Adds(call[t]) => k \notin Removes(call[u])
      /\ k \in Removes(call[t]) => k \notin Adds(call[u])
  BY <1>1, Apart
<1>3. /\ Head(todo[t]) \in EdgeAdders /\ call[t].p = p => k \in Adds(call[t])
      /\ Head(todo[t]) \in EdgeRemovers /\ call[t].p = p => k \in Removes(call[t])
      /\ Head(todo[t]) \in Clearers => Adds(call[t]) = Keys /\ Removes(call[t]) = Keys
  BY PlacesAddAndRemove
<1>4. /\ Head(todo[u]) \in EdgeAdders /\ call[u].p = p => k \in Adds(call[u])
      /\ Head(todo[u]) \in EdgeRemovers /\ call[u].p = p => k \in Removes(call[u])
      /\ Head(todo[u]) \in Clearers => Adds(call[u]) = Keys /\ Removes(call[u]) = Keys
  BY PlacesAddAndRemove
<1> HIDE DEF k
<1> QED BY <1>1, <1>2, <1>3, <1>4

(* One element comes or goes. *)
LEMMA OneMore ==
  ASSUME NEW S, IsFiniteSet(S), NEW T, NEW x, S \ {x} = T \ {x}
  PROVE  /\ IsFiniteSet(T) /\ Cardinality(S) \in Nat /\ Cardinality(T) \in Nat
         /\ (x \in S <=> x \in T) => T = S
         /\ x \notin S /\ x \in T => Cardinality(T) = Cardinality(S) + 1
         /\ x \in S /\ x \notin T => Cardinality(T) = Cardinality(S) - 1
<1>1. (x \in S <=> x \in T) => T = S
  OBVIOUS
<1>2. CASE x \notin S /\ x \in T
  <2>1. T = S \cup {x}
    BY <1>2
  <2> QED BY <1>2, <2>1, FS_AddElement, FS_CardinalityType
<1>3. CASE x \in S /\ x \notin T
  <2>1. T = S \ {x}
    BY <1>3
  <2> QED BY <1>3, <2>1, FS_RemoveElement, FS_CardinalityType
<1> QED BY <1>1, <1>2, <1>3, FS_CardinalityType

LEMMA StandingMoves ==
  ASSUME PhaseInv, ShapeInv, NEW t \in Threads, Step(t), NEW n, NEW p
  PROVE  /\ IsFiniteSet(Standing(n)) /\ IsFiniteSet(StandingAt(n, p))
         /\ Standing(n)' \ {t} = Standing(n) \ {t}
         /\ StandingAt(n, p)' \ {t} = StandingAt(n, p) \ {t}
         /\ t \in Standing(n) <=> Stands(t, n)
         /\ t \in Standing(n)' <=> Stands(t, n)'
         /\ t \in StandingAt(n, p) <=> Stands(t, n) /\ call[t].p = p
         /\ t \in StandingAt(n, p)' <=> Stands(t, n)' /\ call[t].p = p
<1>1. call' = call /\ \A u \in Threads \ {t} : Stands(u, n)' <=> Stands(u, n)
  BY StepMovesOrEnds, StepPlaces DEF Moves, Ends
<1>2. Standing(n) \subseteq Threads /\ StandingAt(n, p) \subseteq Threads
  BY DEF Standing, StandingAt
<1>3. IsFiniteSet(Standing(n)) /\ IsFiniteSet(StandingAt(n, p))
  BY <1>2, ThreadsAssumption, FS_Subset
<1> QED BY <1>1, <1>3 DEF Standing, StandingAt

(* The numbers of threads at a place after a step of t. *)
LEMMA StandingCounts ==
  ASSUME PhaseInv, ShapeInv, NEW t \in Threads, Step(t), NEW n, NEW p
  PROVE  LET all == Standing(n)
             some == StandingAt(n, p)
         IN
         /\ Cardinality(all) \in Nat /\ Cardinality(some) \in Nat
         /\ Cardinality(all') \in Nat /\ Cardinality(some') \in Nat
         /\ (Stands(t, n) <=> Stands(t, n)') => all' = all /\ some' = some
         /\ call[t].p # p => some' = some
         /\ ~Stands(t, n) /\ Stands(t, n)' =>
              /\ Cardinality(all') = Cardinality(all) + 1
              /\ call[t].p = p => Cardinality(some') = Cardinality(some) + 1
         /\ Stands(t, n) /\ ~Stands(t, n)' =>
              /\ Cardinality(all') = Cardinality(all) - 1
              /\ call[t].p = p => Cardinality(some') = Cardinality(some) - 1
<1> DEFINE all == Standing(n)
           some == StandingAt(n, p)
           all2 == Standing(n)'
           some2 == StandingAt(n, p)'
<1>1. /\ IsFiniteSet(all) /\ all2 \ {t} = all \ {t}
      /\ t \in all <=> Stands(t, n)
      /\ t \in all2 <=> Stands(t, n)'
  BY StandingMoves
<1>2. /\ IsFiniteSet(some) /\ some2 \ {t} = some \ {t}
      /\ t \in some <=> Stands(t, n) /\ call[t].p = p
      /\ t \in some2 <=> Stands(t, n)' /\ call[t].p = p
  BY StandingMoves
<1> HIDE DEF all, some, all2, some2
<1>3. /\ Cardinality(all) \in Nat /\ Cardinality(all2) \in Nat
      /\ (t \in all <=> t \in all2) => all2 = all
      /\ t \notin all /\ t \in all2 => Cardinality(all2) = Cardinality(all) + 1
      /\ t \in all /\ t \notin all2 => Cardinality(all2) = Cardinality(all) - 1
  BY <1>1, OneMore
<1>4. /\ Cardinality(some) \in Nat /\ Cardinality(some2) \in Nat
      /\ (t \in some <=> t \in some2) => some2 = some
      /\ t \notin some /\ t \in some2 => Cardinality(some2) = Cardinality(some) + 1
      /\ t \in some /\ t \notin some2 => Cardinality(some2) = Cardinality(some) - 1
  BY <1>2, OneMore
<1>5. /\ Cardinality(all) \in Nat /\ Cardinality(some) \in Nat
      /\ Cardinality(all2) \in Nat /\ Cardinality(some2) \in Nat
      /\ (Stands(t, n) <=> Stands(t, n)') => all2 = all /\ some2 = some
      /\ call[t].p # p => some2 = some
      /\ ~Stands(t, n) /\ Stands(t, n)' =>
              /\ Cardinality(all2) = Cardinality(all) + 1
              /\ call[t].p = p => Cardinality(some2) = Cardinality(some) + 1
      /\ Stands(t, n) /\ ~Stands(t, n)' =>
              /\ Cardinality(all2) = Cardinality(all) - 1
              /\ call[t].p = p => Cardinality(some2) = Cardinality(some) - 1
  BY <1>1, <1>2, <1>3, <1>4
<1> QED BY <1>5 DEF all, some, all2, some2

(* Where t stands before and after a step, of the places that the sums     *)
(* look at.                                                                *)
SumPlaces == {"count", "total", "count down", "total down", "clear counts", "clear total",
              "read count"}

LEMMA SumPlacesMove ==
  ASSUME PhaseInv, ShapeInv, NEW t \in Threads, Step(t)
  PROVE  LET name == Head(todo[t]) IN
         /\ \A n : Stands(t, n) <=> n = name
         /\ \A n \in SumPlaces : Stands(t, n)' => n = Then(name)
         /\ Moves(t) => \A n \in SumPlaces : n = Then(name) => Stands(t, n)'
         /\ Ends(t) => \A n : ~Stands(t, n)'
<1>1. \A n \in SumPlaces : Before(n) # "any"
  BY DEF SumPlaces, Before
<1>2. Running(t)
  BY StepMovesOrEnds DEF Moves, Ends
<1>3. Ends(t) => todo'[t] = << >>
  BY DEF Ends, PhaseInv
<1> QED BY <1>1, <1>2, <1>3, StepPlaces DEF Stands, Running

(* The edges of p and their count after a step of t. *)
LEMMA EdgesAndCounts ==
  ASSUME TypeOK, ShapeInv, NEW c, NEW p
  PROVE  LET edge == <<c.p, c.s, c.o>>
             some == EdgesOf(p)
             some2 == EdgesOf(p)'
             count == CountOf(p)
             count2 == CountOf(p)'
         IN
         /\ Cardinality(some) \in Nat /\ count \in Nat /\ IsFiniteSet(some)
         /\ index'.edges = index.edges => some2 = some
         /\ index'.edges = {} => some2 = {}
         /\ index'.edges = index.edges \cup {edge} =>
              /\ edge \in index.edges \/ c.p # p => some2 = some
              /\ edge \notin index.edges /\ c.p = p => Cardinality(some2) = Cardinality(some) + 1
         /\ index'.edges = index.edges \ {edge} =>
              /\ edge \notin index.edges \/ c.p # p => some2 = some
              /\ edge \in index.edges /\ c.p = p => Cardinality(some2) = Cardinality(some) - 1
         /\ index'.counts = index.counts => count2 = count
         /\ index'.counts = Empty => count2 = 0
         /\ index'.counts = Put(index.counts, c.p, CountOf(c.p) + 1) =>
              count2 = IF c.p = p THEN count + 1 ELSE count
         /\ index'.counts = CountedDown(index.counts, c.p) =>
              count2 = IF c.p = p /\ count > 0 THEN count - 1 ELSE count
<1> DEFINE edge == <<c.p, c.s, c.o>>
           some == EdgesOf(p)
           some2 == EdgesOf(p)'
           count == CountOf(p)
           count2 == CountOf(p)'
<1>1. IsFiniteSet(some)
  <2>1. some \subseteq index.edges
    BY DEF EdgesOf
  <2> QED BY <2>1, FS_Subset DEF ShapeInv
<1>2. Cardinality(some) \in Nat
  BY <1>1, FS_CardinalityType
<1>3. count \in Nat
  BY DEF CountOf, TypeOK
<1>4. /\ index'.edges = index.edges => some2 = some
      /\ index'.edges = {} => some2 = {}
  BY DEF EdgesOf
<1>5. edge[1] = c.p
  OBVIOUS
<1>6. edge \in index.edges /\ c.p = p <=> edge \in some /\ c.p = p
  BY <1>5 DEF EdgesOf
<1>7. ASSUME index'.edges = index.edges \cup {edge}
      PROVE  /\ edge \in index.edges \/ c.p # p => some2 = some
             /\ edge \notin index.edges /\ c.p = p => Cardinality(some2) = Cardinality(some) + 1
  <2> HIDE DEF edge
  <2>1. edge \in index.edges \/ c.p # p => some2 = some
    BY <1>5, <1>7 DEF EdgesOf
  <2>2. ASSUME edge \notin index.edges, c.p = p
        PROVE  Cardinality(some2) = Cardinality(some) + 1
    <3>1. some2 = some \cup {edge}
      BY <1>5, <1>7, <2>2 DEF EdgesOf
    <3>2. edge \notin some
      BY <1>6, <2>2
    <3> QED BY <1>1, <3>1, <3>2, FS_AddElement
  <2> QED BY <2>1, <2>2
<1>8. ASSUME index'.edges = index.edges \ {edge}
      PROVE  /\ edge \notin index.edges \/ c.p # p => some2 = some
             /\ edge \in index.edges /\ c.p = p => Cardinality(some2) = Cardinality(some) - 1
  <2> HIDE DEF edge
  <2>1. edge \notin index.edges \/ c.p # p => some2 = some
    BY <1>5, <1>8 DEF EdgesOf
  <2>2. ASSUME edge \in index.edges, c.p = p
        PROVE  Cardinality(some2) = Cardinality(some) - 1
    <3>1. some2 = some \ {edge}
      BY <1>5, <1>8, <2>2 DEF EdgesOf
    <3>2. edge \in some
      BY <1>6, <2>2
    <3> QED BY <1>1, <3>1, <3>2, FS_RemoveElement
  <2> QED BY <2>1, <2>2
<1>9. index'.counts = index.counts => count2 = count
  BY DEF CountOf
<1>10. index'.counts = Empty => count2 = 0
  <2>1. DOMAIN Empty = {}
    BY DEF Empty
  <2> QED BY <2>1 DEF CountOf
<1>11. ASSUME index'.counts = Put(index.counts, c.p, CountOf(c.p) + 1)
       PROVE  count2 = IF c.p = p THEN count + 1 ELSE count
  BY <1>11 DEF CountOf, Put
<1>12. ASSUME index'.counts = CountedDown(index.counts, c.p)
       PROVE  count2 = IF c.p = p /\ count > 0 THEN count - 1 ELSE count
  <2>1. \A q \in DOMAIN index.counts : index.counts[q] \in Nat \ {0}
    BY DEF TypeOK
  <2>2. CASE c.p \notin DOMAIN index.counts
    BY <1>12, <2>2 DEF CountOf, CountedDown
  <2>3. CASE c.p \in DOMAIN index.counts /\ index.counts[c.p] <= 1
    BY <1>12, <2>1, <2>3 DEF CountOf, CountedDown, Without
  <2>4. CASE c.p \in DOMAIN index.counts /\ ~(index.counts[c.p] <= 1)
    BY <1>12, <2>1, <2>4 DEF CountOf, CountedDown, Put
  <2> QED BY <2>2, <2>3, <2>4
<1> QED BY <1>1, <1>2, <1>3, <1>4, <1>7, <1>8, <1>9, <1>10, <1>11, <1>12

LEMMA CountsStep ==
  ASSUME TypeOK, PhaseInv, ShapeInv, OverlapInv, NEW t \in Threads, Step(t),
         NEW p, <<"edges", p>> \in Keys \ tangled, CountsInv(p)
  PROVE  CountsInv(p)'
<1> DEFINE name == Head(todo[t])
           counting == StandingAt("count", p)
           totalling == StandingAt("total", p)
           dropping == StandingAt("count down", p)
           clearing == Standing("clear counts")
           counting2 == StandingAt("count", p)'
           totalling2 == StandingAt("total", p)'
           dropping2 == StandingAt("count down", p)'
           clearing2 == Standing("clear counts")'
           edges == EdgesOf(p)
           edges2 == EdgesOf(p)'
           count == CountOf(p)
           count2 == CountOf(p)'
           edge == <<call[t].p, call[t].s, call[t].o>>
<1>1. call' = call /\ Running(t)
  BY StepMovesOrEnds DEF Moves, Ends
<1>2. /\ Then("edge") = "count" /\ Then("count") = "total" /\ Then("drop edge") = "count down"
      /\ Then("clear edges") = "clear counts" /\ Then("clear counts") = "clear total"
      /\ Then("count down") = "total down" /\ Then("total") = "any" /\ Then("total down") = "any"
      /\ Then("clear total") = "any" /\ Then("read count") = "any"
      /\ Then("read total") = "read count"
  BY DEF Then
<1>3. Before("count") = "edge" /\ Before("total") = "count" /\ Before("count down") = "drop edge"
      /\ Before("clear counts") = "clear edges"
  BY DEF Before
<1>4. Then(name) # "any" => Before(Then(name)) = name
  BY ThenBefore
<1>5. {"count", "total", "count down", "clear counts"} \subseteq SumPlaces
  BY DEF SumPlaces
<1>6. /\ \A n : Stands(t, n) <=> n = name
      /\ \A n \in SumPlaces : Stands(t, n)' => n = Then(name)
      /\ Moves(t) => \A n \in SumPlaces : n = Then(name) => Stands(t, n)'
      /\ Ends(t) => \A n : ~Stands(t, n)'
  BY SumPlacesMove
<1>7. /\ Stands(t, "count")' => name = "edge"
      /\ Stands(t, "total")' => name = "count"
      /\ Stands(t, "count down")' => name = "drop edge"
      /\ Stands(t, "clear counts")' => name = "clear edges"
  BY <1>3, <1>4, <1>5, <1>6
<1>8. Moves(t) => /\ name = "edge" => Stands(t, "count")'
                  /\ name = "count" => Stands(t, "total")'
                  /\ name = "drop edge" => Stands(t, "count down")'
                  /\ name = "clear edges" => Stands(t, "clear counts")'
  BY <1>2, <1>5, <1>6
(* Beside one that adds to p, removes from p or clears. *)
<1>9. /\ name \in EdgeAdders /\ call[t].p = p => dropping = {} /\ clearing = {}
      /\ name \in EdgeRemovers /\ call[t].p = p =>
           counting = {} /\ totalling = {} /\ clearing = {}
      /\ name \in Clearers => counting = {} /\ totalling = {} /\ dropping = {}
                              /\ clearing \subseteq {t}
  <2>1. /\ {"count", "total"} \subseteq EdgeAdders /\ "count down" \in EdgeRemovers
        /\ "clear counts" \in Clearers
        /\ EdgeAdders \cap EdgeRemovers = {} /\ EdgeAdders \cap Clearers = {}
        /\ EdgeRemovers \cap Clearers = {}
    BY DEF EdgeAdders, EdgeRemovers, Clearers
  <2>2. \A u \in Threads : Stands(u, Head(todo[u])) <=> Running(u)
    BY DEF Stands
  <2>3. ASSUME NEW u \in Threads \ {t}, Running(u)
        PROVE  LET other == Head(todo[u])
                   adds == other \in EdgeAdders /\ call[u].p = p
                   removes == other \in EdgeRemovers /\ call[u].p = p
               IN  /\ name \in EdgeAdders /\ call[t].p = p => ~removes /\ other \notin Clearers
                   /\ name \in EdgeRemovers /\ call[t].p = p => ~adds /\ other \notin Clearers
                   /\ name \in Clearers => ~adds /\ ~removes /\ other \notin Clearers
    BY <1>1, <2>3, EdgesApart
  <2> HIDE DEF name
  <2>4. /\ \A u \in counting \cup totalling :
             Running(u) /\ Head(todo[u]) \in EdgeAdders /\ call[u].p = p /\ u \in Threads
        /\ \A u \in dropping :
             Running(u) /\ Head(todo[u]) \in EdgeRemovers /\ call[u].p = p /\ u \in Threads
        /\ \A u \in clearing : Running(u) /\ Head(todo[u]) \in Clearers /\ u \in Threads
    BY <2>1 DEF StandingAt, Standing, Stands
  <2> QED BY <2>1, <2>3, <2>4 DEF name
<1>10. /\ Cardinality(edges) \in Nat /\ count \in Nat /\ IsFiniteSet(edges)
       /\ index'.edges = index.edges => edges2 = edges
       /\ index'.edges = {} => edges2 = {}
       /\ index'.edges = index.edges \cup {edge} =>
            /\ edge \in index.edges \/ call[t].p # p => edges2 = edges
            /\ edge \notin index.edges /\ call[t].p = p =>
                 Cardinality(edges2) = Cardinality(edges) + 1
       /\ index'.edges = index.edges \ {edge} =>
            /\ edge \notin index.edges \/ call[t].p # p => edges2 = edges
            /\ edge \in index.edges /\ call[t].p = p =>
                 Cardinality(edges2) = Cardinality(edges) - 1
       /\ index'.counts = index.counts => count2 = count
       /\ index'.counts = Empty => count2 = 0
       /\ index'.counts = Put(index.counts, call[t].p, CountOf(call[t].p) + 1) =>
            count2 = IF call[t].p = p THEN count + 1 ELSE count
       /\ index'.counts = CountedDown(index.counts, call[t].p) =>
            count2 = IF call[t].p = p /\ count > 0 THEN count - 1 ELSE count
  BY EdgesAndCounts
<1>11. ASSUME NEW n
       PROVE  /\ Cardinality(Standing(n)) \in Nat /\ Cardinality(StandingAt(n, p)) \in Nat
              /\ (Stands(t, n) <=> Stands(t, n)') =>
                   Standing(n)' = Standing(n) /\ StandingAt(n, p)' = StandingAt(n, p)
              /\ call[t].p # p => StandingAt(n, p)' = StandingAt(n, p)
              /\ ~Stands(t, n) /\ Stands(t, n)' /\ call[t].p = p =>
                   Cardinality(StandingAt(n, p)') = Cardinality(StandingAt(n, p)) + 1
              /\ Stands(t, n) /\ ~Stands(t, n)' /\ call[t].p = p =>
                   Cardinality(StandingAt(n, p)') = Cardinality(StandingAt(n, p)) - 1
  BY StandingCounts
<1>12. /\ count + Cardinality(counting) >= Cardinality(edges) + Cardinality(dropping)
       /\ p \notin repeated /\ clearing = {} =>
            count + Cardinality(counting) = Cardinality(edges) + Cardinality(dropping)
       /\ clearing # {} => edges = {}
       /\ count >= Cardinality(totalling)
  BY DEF CountsInv
<1>13. SUFFICES
         /\ count2 + Cardinality(counting2) >= Cardinality(edges2) + Cardinality(dropping2)
         /\ p \notin repeated' /\ clearing2 = {} =>
              count2 + Cardinality(counting2) = Cardinality(edges2) + Cardinality(dropping2)
         /\ clearing2 # {} => edges2 = {}
         /\ count2 >= Cardinality(totalling2)
  BY DEF CountsInv
<1>14. /\ EdgeAdders = {"edge", "count", "total"}
       /\ EdgeRemovers = {"drop edge", "count down", "total down"}
       /\ {"clear edges", "clear counts", "clear total"} \subseteq Clearers
       /\ EdgePlaces = EdgeAdders \cup EdgeRemovers \cup {"clear edges", "clear counts", "clear total"}
  BY DEF EdgeAdders, EdgeRemovers, Clearers, EdgePlaces
<1>15. Cardinality({}) = 0
  BY FS_EmptySet
(* The places of the calls on p that t leaves or comes to. *)
<1>16. /\ name \notin {"edge", "count"} => counting2 = counting
       /\ name \notin {"count", "total"} => totalling2 = totalling
       /\ name \notin {"drop edge", "count down"} => dropping2 = dropping
       /\ name \notin {"clear edges", "clear counts"} => clearing2 = clearing
  BY <1>6, <1>7, <1>11
<1>17. call[t].p # p => counting2 = counting /\ totalling2 = totalling /\ dropping2 = dropping
  BY <1>11
<1>18. Moves(t) /\ call[t].p = p =>
         /\ name = "edge" => Cardinality(counting2) = Cardinality(counting) + 1
         /\ name = "count" => /\ Cardinality(counting2) = Cardinality(counting) - 1
                              /\ Cardinality(totalling2) = Cardinality(totalling) + 1
         /\ name = "total" => Cardinality(totalling2) = Cardinality(totalling) - 1
         /\ name = "drop edge" => Cardinality(dropping2) = Cardinality(dropping) + 1
         /\ name = "count down" => Cardinality(dropping2) = Cardinality(dropping) - 1
  BY <1>6, <1>7, <1>8, <1>11
<1>19. /\ Cardinality(counting) \in Nat /\ Cardinality(totalling) \in Nat
       /\ Cardinality(dropping) \in Nat
  BY <1>11
<1>20. repeated \subseteq repeated'
  BY StepMovesOrEnds
<1>21. \/ /\ name \notin EdgePlaces \/ name = "total down" \/ name = "clear total"
          /\ index'.edges = index.edges /\ index'.counts = index.counts
       \/ /\ name = "drop edge" /\ Ends(t)
          /\ index'.edges = index.edges /\ index'.counts = index.counts
       \/ /\ Moves(t) /\ name = "edge" /\ index'.edges = index.edges \cup {edge}
          /\ index'.counts = index.counts
          /\ edge \in index.edges => call[t].p \in repeated'
       \/ /\ Moves(t) /\ name = "count" /\ index'.edges = index.edges
          /\ index'.counts = Put(index.counts, call[t].p, CountOf(call[t].p) + 1)
       \/ /\ Moves(t) /\ name = "total" /\ index'.edges = index.edges
          /\ index'.counts = index.counts
       \/ /\ Moves(t) /\ name = "drop edge" /\ index'.edges = index.edges \ {edge}
          /\ edge \in index.edges /\ index'.counts = index.counts
       \/ /\ Moves(t) /\ name = "count down" /\ index'.edges = index.edges
          /\ index'.counts = CountedDown(index.counts, call[t].p)
       \/ /\ Moves(t) /\ name = "clear edges" /\ index'.edges = {}
          /\ index'.counts = index.counts
       \/ /\ Moves(t) /\ name = "clear counts" /\ index'.edges = index.edges
          /\ index'.counts = Empty
  <2>1. CASE name \notin EdgePlaces
    BY <1>14, <2>1, EdgeSections DEF SameEdges
  <2>2. CASE name = "edge"
    BY <1>14, <2>2, EdgeSections DEF Moves
  <2>3. CASE name = "count"
    BY <1>14, <2>3, EdgeSections DEF Moves
  <2>4. CASE name = "total"
    BY <1>14, <2>4, EdgeSections DEF Moves
  <2>5. CASE name = "drop edge"
    BY <1>14, <2>5, EdgeSections DEF Ends, SameEdges
  <2>6. CASE name = "count down"
    BY <1>14, <2>6, EdgeSections DEF Moves
  <2>7. CASE name = "total down"
    BY <1>14, <2>7, EdgeSections DEF Moves
  <2>8. CASE name = "clear edges"
    BY <1>14, <2>8, EdgeSections DEF Moves
  <2>9. CASE name = "clear counts"
    BY <1>14, <2>9, EdgeSections DEF Moves
  <2>10. CASE name = "clear total"
    BY <1>14, <2>10, EdgeSections DEF Moves
  <2> QED BY <1>14, <2>1, <2>2, <2>3, <2>4, <2>5, <2>6, <2>7, <2>8, <2>9, <2>10
<1>22. Ends(t) => dropping2 = dropping \/ name = "count down"
  BY <1>6, <1>11
<1> HIDE DEF name, counting, totalling, dropping, clearing, counting2, totalling2, dropping2,
             clearing2, edges, edges2, count, count2, edge
<1>23. CASE /\ name \notin EdgePlaces \/ name = "total down" \/ name = "clear total"
            /\ index'.edges = index.edges /\ index'.counts = index.counts
  BY <1>10, <1>12, <1>14, <1>16, <1>20, <1>23
<1>24. CASE /\ name = "drop edge" /\ Ends(t)
            /\ index'.edges = index.edges /\ index'.counts = index.counts
  BY <1>10, <1>12, <1>16, <1>20, <1>22, <1>24
<1>25. CASE /\ Moves(t) /\ name = "edge" /\ index'.edges = index.edges \cup {edge}
            /\ index'.counts = index.counts
            /\ edge \in index.edges => call[t].p \in repeated'
  <2>1. CASE call[t].p = p
    <3>1. /\ clearing2 = {} /\ count2 = count /\ totalling2 = totalling /\ dropping2 = dropping
          /\ clearing = {} /\ Cardinality(counting2) = Cardinality(counting) + 1
      BY <1>9, <1>10, <1>14, <1>16, <1>18, <1>25, <2>1
    <3>2. CASE edge \in index.edges
      <4>1. edges2 = edges /\ p \in repeated'
        BY <1>10, <1>25, <2>1, <3>2
      <4> QED BY <1>10, <1>12, <1>19, <3>1, <4>1
    <3>3. CASE edge \notin index.edges
      <4>1. Cardinality(edges2) = Cardinality(edges) + 1
        BY <1>10, <1>25, <2>1, <3>3
      <4> QED BY <1>10, <1>12, <1>19, <1>20, <3>1, <4>1
    <3> QED BY <3>2, <3>3
  <2>2. CASE call[t].p # p
    BY <1>10, <1>12, <1>16, <1>17, <1>20, <1>25, <2>2
  <2> QED BY <2>1, <2>2
<1>26. CASE /\ Moves(t) /\ name = "count" /\ index'.edges = index.edges
            /\ index'.counts = Put(index.counts, call[t].p, CountOf(call[t].p) + 1)
  <2>1. CASE call[t].p = p
    BY <1>10, <1>12, <1>16, <1>18, <1>19, <1>20, <1>26, <2>1
  <2>2. CASE call[t].p # p
    BY <1>10, <1>12, <1>16, <1>17, <1>20, <1>26, <2>2
  <2> QED BY <2>1, <2>2
<1>27. CASE /\ Moves(t) /\ name = "total" /\ index'.edges = index.edges
            /\ index'.counts = index.counts
  <2>1. CASE call[t].p = p
    BY <1>10, <1>12, <1>16, <1>18, <1>19, <1>20, <1>27, <2>1
  <2>2. CASE call[t].p # p
    BY <1>10, <1>12, <1>16, <1>17, <1>20, <1>27, <2>2
  <2> QED BY <2>1, <2>2
<1>28. CASE /\ Moves(t) /\ name = "drop edge" /\ index'.edges = index.edges \ {edge}
            /\ edge \in index.edges /\ index'.counts = index.counts
  <2>1. CASE call[t].p = p
    <3>1. /\ count2 = count /\ totalling2 = totalling /\ counting2 = counting
          /\ clearing2 = {} /\ clearing = {}
          /\ Cardinality(dropping2) = Cardinality(dropping) + 1
          /\ Cardinality(edges2) = Cardinality(edges) - 1
      BY <1>9, <1>10, <1>14, <1>16, <1>18, <1>28, <2>1
    <3> QED BY <1>10, <1>12, <1>19, <1>20, <3>1
  <2>2. CASE call[t].p # p
    BY <1>10, <1>12, <1>16, <1>17, <1>20, <1>28, <2>2
  <2> QED BY <2>1, <2>2
<1>29. CASE /\ Moves(t) /\ name = "count down" /\ index'.edges = index.edges
            /\ index'.counts = CountedDown(index.counts, call[t].p)
  <2>1. CASE call[t].p = p
    <3>1. counting = {} /\ totalling = {} /\ clearing = {}
      BY <1>9, <1>14, <1>29, <2>1
    <3>2. Cardinality(dropping) >= 1
      <4>1. t \in dropping
        BY <1>6, <1>29, <2>1 DEF dropping, StandingAt, Standing
      <4>2. IsFiniteSet(dropping)
        BY StandingMoves DEF dropping
      <4> QED BY <1>19, <4>1, <4>2, FS_EmptySet
    <3>3. count > 0
      BY <1>10, <1>12, <1>15, <1>19, <3>1, <3>2
    <3>4. /\ count2 = count - 1 /\ totalling2 = totalling /\ counting2 = counting
          /\ clearing2 = {} /\ edges2 = edges
          /\ Cardinality(dropping2) = Cardinality(dropping) - 1
      BY <1>10, <1>16, <1>18, <1>29, <2>1, <3>1, <3>3
    <3> QED BY <1>10, <1>12, <1>15, <1>19, <1>20, <3>1, <3>3, <3>4
  <2>2. CASE call[t].p # p
    BY <1>10, <1>12, <1>16, <1>17, <1>20, <1>29, <2>2
  <2> QED BY <2>1, <2>2
<1>30. CASE /\ Moves(t) /\ name = "clear edges" /\ index'.edges = {}
            /\ index'.counts = index.counts
  <2>1. clearing2 # {}
    BY <1>8, <1>30 DEF clearing2, Standing
  <2>2. /\ counting = {} /\ totalling = {} /\ dropping = {}
        /\ counting2 = {} /\ totalling2 = {} /\ dropping2 = {}
        /\ edges2 = {} /\ count2 = count
    BY <1>9, <1>10, <1>14, <1>16, <1>30
  <2> QED BY <1>10, <1>15, <2>1, <2>2
<1>31. CASE /\ Moves(t) /\ name = "clear counts" /\ index'.edges = index.edges
            /\ index'.counts = Empty
  <2>1. clearing # {}
    BY <1>6, <1>31 DEF clearing, Standing
  <2>2. /\ counting2 = {} /\ totalling2 = {} /\ dropping2 = {}
        /\ edges2 = {} /\ count2 = 0
    BY <1>9, <1>10, <1>12, <1>14, <1>16, <1>31, <2>1
  <2> QED BY <1>15, <2>2
<1> QED BY <1>21, <1>23, <1>24, <1>25, <1>26, <1>27, <1>28, <1>29, <1>30, <1>31

-----------------------------------------------------------------------------
(* The total *)

(* What is settled of the counts, while all predicates are untangled.      *)
AllCounted ==
    /\ PredicateKeys \cap tangled = {}
    /\ \A k \in PredicateKeys \ tangled : CountsInv(k[2])

Late(p) == Cardinality(StandingAt("total", p))

SettledFacts ==
    /\ DOMAIN Settled = DOMAIN index.counts /\ IsFiniteSet(DOMAIN index.counts)
    /\ \A p \in DOMAIN index.counts :
         /\ index.counts[p] \in Nat /\ Late(p) \in Nat /\ Late(p) <= index.counts[p]
         /\ Settled[p] = index.counts[p] - Late(p) /\ Settled[p] \in Nat
    /\ \A p : <<"edges", p>> \in Keys => CountsInv(p)

LEMMA SettledIs ==
  TypeOK /\ ShapeInv /\ AllCounted => SettledFacts
<1> SUFFICES ASSUME TypeOK, ShapeInv, AllCounted
             PROVE  SettledFacts
  OBVIOUS
<1>1. DOMAIN Settled = DOMAIN index.counts /\ IsFiniteSet(DOMAIN index.counts)
  BY DEF Settled, ShapeInv
<1>2. ASSUME NEW p, <<"edges", p>> \in Keys
      PROVE  CountsInv(p)
  <2> DEFINE k == <<"edges", p>>
  <2>1. k[1] = "edges" /\ k[2] = p
    OBVIOUS
  <2>2. k \in PredicateKeys \ tangled
    BY <1>2, <2>1 DEF PredicateKeys, AllCounted
  <2>3. CountsInv(k[2])
    BY <2>2 DEF AllCounted
  <2> QED BY <2>1, <2>3
<1>3. ASSUME NEW p \in DOMAIN index.counts
      PROVE  /\ index.counts[p] \in Nat /\ Late(p) \in Nat /\ Late(p) <= index.counts[p]
             /\ Settled[p] = index.counts[p] - Late(p) /\ Settled[p] \in Nat
  <2>1. index.counts[p] \in Nat /\ CountsInv(p)
    BY <1>2 DEF TypeOK, ShapeInv
  <2>2. StandingAt("total", p) \subseteq Threads
    BY DEF StandingAt, Standing
  <2>3. Late(p) \in Nat
    BY <2>2, ThreadsAssumption, FS_Subset, FS_CardinalityType DEF Late
  <2>4. Late(p) <= index.counts[p]
    BY <2>1, <2>3 DEF CountsInv, CountOf, Late
  <2>5. Settled[p] = index.counts[p] - Late(p)
    BY DEF Settled, Late
  <2> QED BY <2>1, <2>3, <2>4, <2>5
<1> QED BY <1>1, <1>2, <1>3 DEF SettledFacts

(* While predicates are untangled, who clears works alone on the edges.    *)
LEMMA ClearsAlone ==
  ASSUME PhaseInv, OverlapInv, ShapeInv, PredicateKeys \cap tangled = {},
         NEW t \in Threads, NEW u \in Threads \ {t}, Running(t), Running(u),
         Head(todo[t]) \in EdgeAdders \cup EdgeRemovers
  PROVE  Head(todo[u]) \notin Clearers
<1> DEFINE k == <<"edges", call[t].p>>
<1>1. k \in Adds(call[t]) \cup Removes(call[t])
  BY PlacesAddAndRemove
<1>2. call[t] \in Calls
  BY DEF PhaseInv
<1>3. k \in Keys
  BY <1>1, <1>2, CallsHaveKeys
<1>4. k[1] = "edges"
  OBVIOUS
<1>5. k \in Keys \ tangled
  BY <1>3, <1>4 DEF PredicateKeys
<1>6. SUFFICES ASSUME Head(todo[u]) \in Clearers
               PROVE  FALSE
  OBVIOUS
<1>7. Adds(call[u]) = Keys /\ Removes(call[u]) = Keys
  BY <1>6, PlacesAddAndRemove
<1>8. k \notin tangled
  BY <1>5
<1>9. /\ k \in Adds(call[t]) => k \notin Removes(call[u])
      /\ k \in Removes(call[t]) => k \notin Adds(call[u])
  BY <1>8, Apart
<1> QED BY <1>1, <1>3, <1>7, <1>9

LEMMA NotNone ==
  ASSUME NEW count \in Nat, NEW some \in Nat, NEW gone \in Nat, gone # 0, count + 0 >= some + gone
  PROVE  count # 0
OBVIOUS

(* Who counts a predicate down finds a count of it. *)
LEMMA CountingDownCounts ==
  ASSUME TypeOK, PhaseInv, ShapeInv, OverlapInv, AllCounted,
         NEW t \in Threads, Running(t), Head(todo[t]) = "count down"
  PROVE  /\ call[t].p \in DOMAIN index.counts
         /\ Cardinality(StandingAt("total", call[t].p)) = 0
<1> DEFINE p == call[t].p
           counting == StandingAt("count", p)
           totalling == StandingAt("total", p)
           dropping == StandingAt("count down", p)
<1>1. <<"edges", p>> \in Keys
  <2>1. <<"edges", p>> \in Removes(call[t])
    BY PlacesAddAndRemove DEF EdgeRemovers
  <2>2. call[t] \in Calls
    BY DEF PhaseInv
  <2> QED BY <2>1, <2>2, CallsHaveKeys
<1>2. <<"edges", p>> \in Keys \ tangled /\ CountsInv(p)
  <2> DEFINE k == <<"edges", p>>
  <2>1. k[1] = "edges" /\ k[2] = p
    OBVIOUS
  <2>2. k \in PredicateKeys \ tangled
    BY <1>1, <2>1 DEF PredicateKeys, AllCounted
  <2>3. CountsInv(k[2])
    BY <2>2 DEF AllCounted
  <2> QED BY <2>1, <2>2, <2>3 DEF PredicateKeys
<1>3. \A u \in Threads \ {t} : Running(u) => ~(Head(todo[u]) \in EdgeAdders /\ call[u].p = p)
  BY <1>2, EdgesApart DEF EdgeRemovers
<1>4. counting = {} /\ totalling = {}
  BY <1>3 DEF EdgeAdders, StandingAt, Standing, Stands
<1>5. Cardinality(counting) = 0 /\ Cardinality(totalling) = 0
  BY <1>4, FS_EmptySet
<1>6. /\ Cardinality(dropping) \in Nat /\ Cardinality(dropping) # 0
      /\ Cardinality(EdgesOf(p)) \in Nat
  <2>1. t \in dropping /\ dropping \subseteq Threads
    BY DEF StandingAt, Standing, Stands
  <2>2. IsFiniteSet(dropping)
    BY <2>1, ThreadsAssumption, FS_Subset
  <2>3. EdgesOf(p) \subseteq index.edges
    BY DEF EdgesOf
  <2>4. IsFiniteSet(EdgesOf(p))
    BY <2>3, FS_Subset DEF ShapeInv
  <2> QED BY <2>1, <2>2, <2>4, FS_EmptySet, FS_CardinalityType
<1>7. CountOf(p) + Cardinality(counting) >= Cardinality(EdgesOf(p)) + Cardinality(dropping)
  BY <1>2 DEF CountsInv
<1>8. CountOf(p) \in Nat
  BY DEF CountOf, TypeOK
<1>9. CountOf(p) # 0
  <2>1. CountOf(p) + 0 >= Cardinality(EdgesOf(p)) + Cardinality(dropping)
    BY <1>5, <1>7
  <2> QED BY <1>6, <1>8, <2>1, NotNone
<1> QED BY <1>5, <1>9 DEF CountOf

LEMMA TotalStep ==
  ASSUME TypeOK, PhaseInv, ShapeInv, OverlapInv, AllCounted, TotalInv,
         NEW t \in Threads, Step(t), TypeOK', ShapeInv', AllCounted'
  PROVE  TotalInv'
<1> DEFINE name == Head(todo[t])
           f == Settled
           g == Settled'
           S == DOMAIN index.counts
           T == DOMAIN index'.counts
           sum == SumOf(f, S)
           sum2 == SumOf(g, T)
           down == Cardinality(Standing("total down"))
           down2 == Cardinality(Standing("total down")')
           clearing == Standing("clear total")
           clearing2 == Standing("clear total")'
<1>0. PICK p : call[t].p = p
  OBVIOUS
<1> USE <1>0
<1>1. call' = call /\ Running(t)
  BY StepMovesOrEnds DEF Moves, Ends
<1>2. SettledFacts
  BY SettledIs
<1>3. SettledFacts'
  BY SettledIs, PTL
<1>4. /\ DOMAIN f = S /\ IsFiniteSet(S) /\ \A q \in S : f[q] \in Nat
      /\ \A q \in S : /\ index.counts[q] \in Nat /\ Late(q) \in Nat /\ Late(q) <= index.counts[q]
                      /\ f[q] = index.counts[q] - Late(q)
  BY <1>2 DEF SettledFacts
<1>5. /\ DOMAIN g = T /\ IsFiniteSet(T) /\ \A q \in T : g[q] \in Nat
      /\ \A q \in T : /\ index'.counts[q] \in Nat /\ Late(q)' \in Nat /\ Late(q)' <= index'.counts[q]
                      /\ g[q] = index'.counts[q] - Late(q)'
  BY <1>3 DEF SettledFacts
<1>6. sum \in Nat /\ sum2 \in Nat
  <2> HIDE DEF f, g, S, T
  <2> QED BY <1>4, <1>5, SumIsNat
<1>7. /\ Then("count") = "total" /\ Then("count down") = "total down"
      /\ Then("clear counts") = "clear total"
      /\ Before("total") = "count" /\ Before("total down") = "count down"
      /\ Before("clear total") = "clear counts"
  BY DEF Then, Before
<1>8. Then(name) # "any" => Before(Then(name)) = name
  BY ThenBefore
<1>9. {"total", "total down", "clear total"} \subseteq SumPlaces
  BY DEF SumPlaces
<1>10. /\ \A n : Stands(t, n) <=> n = name
       /\ \A n \in SumPlaces : Stands(t, n)' => n = Then(name)
       /\ Moves(t) => \A n \in SumPlaces : n = Then(name) => Stands(t, n)'
  BY SumPlacesMove
<1>11. /\ Stands(t, "total")' => name = "count"
       /\ Stands(t, "total down")' => name = "count down"
       /\ Stands(t, "clear total")' => name = "clear counts"
  BY <1>7, <1>8, <1>9, <1>10
<1>12. Moves(t) => /\ name = "count" => Stands(t, "total")'
                   /\ name = "count down" => Stands(t, "total down")'
                   /\ name = "clear counts" => Stands(t, "clear total")'
  BY <1>7, <1>9, <1>10
<1>13. /\ name \notin {"count", "total"} => \A q : Late(q)' = Late(q)
       /\ \A q : q # p => Late(q)' = Late(q)
       /\ Moves(t) /\ name = "count" => Late(p)' = Late(p) + 1
       /\ Moves(t) /\ name = "total" => Late(p)' = Late(p) - 1
       /\ \A q : Late(q) \in Nat
  <2>1. ASSUME NEW q
        PROVE  LET late == Cardinality(StandingAt("total", q))
                   late2 == Cardinality(StandingAt("total", q)')
               IN  /\ late \in Nat
                   /\ (Stands(t, "total") <=> Stands(t, "total")') => late2 = late
                   /\ p # q => late2 = late
                   /\ ~Stands(t, "total") /\ Stands(t, "total")' /\ p = q => late2 = late + 1
                   /\ Stands(t, "total") /\ ~Stands(t, "total")' /\ p = q => late2 = late - 1
    BY StandingCounts
  <2>2. ASSUME NEW q
        PROVE  /\ Late(q) \in Nat
               /\ (Stands(t, "total") <=> Stands(t, "total")') => Late(q)' = Late(q)
               /\ p # q => Late(q)' = Late(q)
               /\ ~Stands(t, "total") /\ Stands(t, "total")' /\ p = q => Late(q)' = Late(q) + 1
               /\ Stands(t, "total") /\ ~Stands(t, "total")' /\ p = q => Late(q)' = Late(q) - 1
    BY <2>1 DEF Late
  <2>3. Stands(t, "total") <=> name = "total"
    BY <1>10
  <2> HIDE DEF name
  <2> QED BY <1>11, <1>12, <2>2, <2>3
<1>14. /\ name \notin {"count down", "total down"} => down2 = down
       /\ Moves(t) /\ name = "count down" => down2 = down + 1
       /\ Moves(t) /\ name = "total down" => down2 = down - 1
       /\ down \in Nat /\ down2 \in Nat
       /\ name \notin {"clear counts", "clear total"} => clearing2 = clearing
  BY <1>10, <1>11, <1>12, StandingCounts
<1>15. /\ EdgeAdders = {"edge", "count", "total"}
       /\ EdgeRemovers = {"drop edge", "count down", "total down"}
       /\ {"clear edges", "clear counts", "clear total"} \subseteq Clearers
       /\ Clearers \cap (EdgeAdders \cup EdgeRemovers) = {}
       /\ EdgePlaces = EdgeAdders \cup EdgeRemovers \cup {"clear edges", "clear counts", "clear total"}
  BY DEF EdgeAdders, EdgeRemovers, Clearers, EdgePlaces
<1>16. name \in EdgeAdders \cup EdgeRemovers => clearing = {} /\ clearing2 = {}
  <2> SUFFICES ASSUME name \in EdgeAdders \cup EdgeRemovers
               PROVE  clearing = {}
    BY <1>14, <1>15
  <2>1. \A u \in Threads \ {t} : Running(u) => Head(todo[u]) \notin Clearers
    BY <1>1, ClearsAlone DEF AllCounted
  <2> QED BY <1>10, <1>15, <2>1 DEF Standing, Stands
<1>17. /\ clearing = {} => index.total = sum + down
       /\ clearing # {} => S = {}
  BY <1>4 DEF TotalInv
<1>18. SUFFICES /\ clearing2 = {} => index'.total = sum2 + down2
                /\ clearing2 # {} => T = {}
  BY <1>5 DEF TotalInv
(* A step that leaves the counts alone and what is late in them. *)
<1>19. ASSUME index'.counts = index.counts, \A q : Late(q)' = Late(q)
       PROVE  sum2 = sum
  <2>1. S = T /\ \A q \in S : f[q] = g[q]
    BY <1>4, <1>5, <1>19
  <2>2. SumOf(f, S) = SumOf(g, S)
    <3> HIDE DEF f, g, S
    <3> QED BY <1>4, <2>1, SumOfEquals
  <2> QED BY <2>1, <2>2
<1>20. CASE name \notin EdgePlaces \/ name \in {"edge", "drop edge", "clear edges"}
  <2>1. index'.counts = index.counts /\ index'.total = index.total
    BY <1>15, <1>20, EdgeSections DEF SameEdges, Ends
  <2>2. \A q : Late(q)' = Late(q)
    BY <1>13, <1>15, <1>20
  <2>3. clearing2 = clearing /\ down2 = down
    BY <1>14, <1>15, <1>20
  <2>4. S = T
    BY <2>1
  <2> QED BY <1>17, <1>19, <2>1, <2>2, <2>3, <2>4
<1>21. CASE name = "count"
  <2>1. /\ Moves(t) /\ index'.total = index.total
        /\ index'.counts = Put(index.counts, p, CountOf(p) + 1)
    BY <1>15, <1>21, EdgeSections
  <2>2. clearing = {} /\ clearing2 = {} /\ down2 = down
    BY <1>14, <1>15, <1>16, <1>21
  <2>3. T = S \cup {p} /\ \A q \in S : g[q] = f[q]
    <3>1. T = S \cup {p}
      BY <2>1 DEF Put
    <3>2. ASSUME NEW q \in S
          PROVE  g[q] = f[q]
      <4>1. /\ q \in T /\ g[q] = index'.counts[q] - Late(q)'
            /\ f[q] = index.counts[q] - Late(q)
            /\ index.counts[q] \in Nat /\ Late(q) \in Nat
        BY <1>4, <1>5, <3>1
      <4>2. CASE q = p
        <5>1. index'.counts[q] = index.counts[q] + 1
          BY <2>1, <4>2 DEF Put, CountOf
        <5>2. Late(q)' = Late(q) + 1
          BY <1>13, <1>21, <2>1, <4>2
        <5> HIDE DEF f, g
        <5> QED BY <4>1, <5>1, <5>2
      <4>3. CASE q # p
        <5>1. index'.counts[q] = index.counts[q] /\ Late(q)' = Late(q)
          BY <1>13, <2>1, <4>3 DEF Put
        <5> QED BY <4>1, <5>1
      <4> QED BY <4>2, <4>3
    <3> QED BY <3>1, <3>2
  <2>4. CASE p \in S
    <3>1. T = S
      BY <2>3, <2>4
    <3>2. sum2 = sum
      <4>1. \A q \in S : f[q] = g[q]
        BY <2>3
      <4>2. SumOf(f, S) = SumOf(g, S)
        <5> HIDE DEF f, g, S
        <5> QED BY <1>4, <4>1, SumOfEquals
      <4> QED BY <3>1, <4>2
    <3> QED BY <1>17, <2>1, <2>2, <3>2
  <2>5. CASE p \notin S
    <3>1. g[p] = 0
      <4>1. CountOf(p) = 0
        BY <2>5 DEF CountOf
      <4>2. index'.counts[p] = 1
        BY <2>1, <4>1 DEF Put
      <4>3. p \in T
        BY <2>3
      <4>4. g[p] = index'.counts[p] - Late(p)' /\ g[p] \in Nat
        BY <1>5, <4>3
      <4>5. Late(p)' = Late(p) + 1 /\ Late(p) \in Nat
        BY <1>13, <1>21, <2>1
      <4> HIDE DEF g
      <4> QED BY <4>2, <4>4, <4>5
    <3>2. sum2 = sum + g[p]
      <4>1. sum2 = SumOf(g, S \cup {p})
        BY <2>3
      <4>2. \A q \in S : f[q] \in Nat /\ f[q] = g[q]
        BY <1>4, <2>3
      <4>3. g[p] \in Nat
        BY <3>1
      <4>4. SumOf(g, S \cup {p}) = SumOf(f, S) + g[p]
        <5> HIDE DEF f, g, S
        <5> QED BY <1>4, <2>5, <4>2, <4>3, SumExtended
      <4> QED BY <4>1, <4>4
    <3>3. sum2 = sum
      <4> HIDE DEF sum, sum2, g
      <4> QED BY <1>6, <3>1, <3>2
    <3> QED BY <1>17, <2>1, <2>2, <3>3
  <2> QED BY <2>4, <2>5
<1>22. CASE name = "total"
  <2>1. Moves(t) /\ index'.total = index.total + 1 /\ index'.counts = index.counts
    BY <1>15, <1>22, EdgeSections
  <2>2. clearing = {} /\ clearing2 = {} /\ down2 = down
    BY <1>14, <1>15, <1>16, <1>22
  <2>3. p \in S
    <3>1. t \in StandingAt("total", p)
      BY <1>10, <1>22 DEF StandingAt, Standing
    <3>2. IsFiniteSet(StandingAt("total", p))
      BY StandingMoves
    <3>3. Late(p) # 0 /\ Late(p) \in Nat
      BY <3>1, <3>2, FS_EmptySet, FS_CardinalityType DEF Late
    <3>4. CountsInv(p)
      <4>1. <<"edges", p>> \in Adds(call[t])
        BY <1>1, <1>15, <1>22, PlacesAddAndRemove
      <4>2. call[t] \in Calls
        BY <1>1 DEF PhaseInv
      <4>3. <<"edges", p>> \in Keys
        BY <4>1, <4>2, CallsHaveKeys
      <4> QED BY <1>2, <4>3 DEF SettledFacts
    <3>5. CountOf(p) >= Late(p)
      BY <3>4 DEF CountsInv, Late
    <3>6. CountOf(p) # 0
      BY <3>3, <3>5
    <3> QED BY <3>6 DEF CountOf
  <2>4. T = S /\ g[p] = f[p] + 1 /\ \A q \in S \ {p} : f[q] = g[q]
    <3>1. T = S
      BY <2>1
    <3>2. g[p] = f[p] + 1
      <4>1. /\ g[p] = index'.counts[p] - Late(p)' /\ f[p] = index.counts[p] - Late(p)
            /\ index.counts[p] \in Nat /\ Late(p) \in Nat
        BY <1>4, <1>5, <2>3, <3>1
      <4>2. Late(p)' = Late(p) - 1
        BY <1>13, <1>22, <2>1
      <4> HIDE DEF f, g
      <4> QED BY <2>1, <4>1, <4>2
    <3>3. \A q \in S \ {p} : f[q] = g[q]
      BY <1>4, <1>5, <1>13, <2>1, <3>1
    <3> QED BY <3>1, <3>2, <3>3
  <2>5. sum2 + f[p] = sum + g[p]
    <3>1. \A q \in S : f[q] \in Nat /\ g[q] \in Nat
      BY <1>4, <1>5, <2>4
    <3>2. \A q \in S \ {p} : f[q] = g[q]
      BY <2>4
    <3>3. SumOf(g, S) + f[p] = SumOf(f, S) + g[p]
      <4> HIDE DEF f, g, S
      <4> QED BY <1>4, <2>3, <3>1, <3>2, SumChanged
    <3> QED BY <2>4, <3>3
  <2>6. f[p] \in Nat /\ g[p] = f[p] + 1
    BY <1>4, <2>3, <2>4
  <2> HIDE DEF f, g, sum, sum2, down, down2, clearing, clearing2
  <2>7. sum2 = sum + 1
    BY <1>6, <2>5, <2>6
  <2>8. index.total = sum + down /\ index'.total = index.total + 1 /\ down2 = down /\ down \in Nat
    BY <1>14, <1>17, <2>1, <2>2
  <2>9. index'.total = sum2 + down2
    BY <1>6, <2>7, <2>8
  <2> QED BY <2>2, <2>9
<1>23. CASE name = "count down"
  <2>1. /\ Moves(t) /\ index'.total = index.total
        /\ index'.counts = CountedDown(index.counts, p)
    BY <1>15, <1>23, EdgeSections
  <2>2. clearing = {} /\ clearing2 = {} /\ down2 = down + 1
    BY <1>14, <1>15, <1>16, <1>23, <2>1
  <2>3. p \in S /\ Late(p) = 0
    <3>1. p \in DOMAIN index.counts /\ Cardinality(StandingAt("total", p)) = 0
      BY <1>1, <1>23, CountingDownCounts
    <3> QED BY <3>1 DEF Late
  <2>4. index.counts[p] \in Nat \ {0}
    BY <2>3 DEF TypeOK
  <2>5. \A q : Late(q)' = Late(q)
    BY <1>13, <1>23
  <2>6. CASE index.counts[p] <= 1
    <3>1. T = S \ {p} /\ \A q \in T : g[q] = f[q]
      <4>1. T = S \ {p} /\ \A q \in T : index'.counts[q] = index.counts[q]
        BY <2>1, <2>3, <2>6 DEF CountedDown, Without
      <4>2. \A q \in T : q \in S /\ f[q] = index.counts[q] - Late(q)
                         /\ g[q] = index'.counts[q] - Late(q)'
        BY <1>4, <1>5, <4>1
      <4> HIDE DEF f, g, S, T
      <4> QED BY <2>5, <4>1, <4>2
    <3>2. f[p] = 1
      <4>1. f[p] = index.counts[p] - Late(p)
        BY <1>4, <2>3
      <4> HIDE DEF f
      <4> QED BY <2>3, <2>4, <2>6, <4>1
    <3>3. sum = f[p] + sum2
      <4>1. SumOf(f, S) = f[p] + SumOf(f, S \ {p})
        <5> HIDE DEF f, S
        <5> QED BY <1>4, <2>3, SumWithout
      <4>2. \A q \in T : f[q] = g[q]
        BY <3>1
      <4>3. SumOf(f, T) = SumOf(g, T)
        <5> HIDE DEF f, g, T
        <5> QED BY <1>5, <4>2, SumOfEquals
      <4> QED BY <3>1, <4>1, <4>3
    <3> HIDE DEF f, g, sum, sum2, down, down2, clearing, clearing2
    <3>4. index.total = sum + down /\ index'.total = index.total /\ down2 = down + 1 /\ down \in Nat
      BY <1>14, <1>17, <2>1, <2>2
    <3>5. index'.total = sum2 + down2
      BY <1>6, <3>2, <3>3, <3>4
    <3> QED BY <2>2, <3>5
  <2>7. CASE ~(index.counts[p] <= 1)
    <3>1. T = S /\ g[p] = f[p] - 1 /\ \A q \in S \ {p} : f[q] = g[q]
      <4>1. /\ T = S /\ index'.counts[p] = index.counts[p] - 1
            /\ \A q \in S \ {p} : index'.counts[q] = index.counts[q]
        BY <2>1, <2>3, <2>7 DEF CountedDown, Put
      <4>2. /\ f[p] = index.counts[p] - Late(p) /\ g[p] = index'.counts[p] - Late(p)'
            /\ \A q \in S : f[q] = index.counts[q] - Late(q) /\ g[q] = index'.counts[q] - Late(q)'
        BY <1>4, <1>5, <2>3, <4>1
      <4> HIDE DEF f, g, S, T
      <4>3. g[p] = f[p] - 1
        BY <2>3, <2>4, <2>5, <4>1, <4>2
      <4>4. \A q \in S \ {p} : f[q] = g[q]
        BY <2>5, <4>1, <4>2
      <4> QED BY <4>1, <4>3, <4>4
    <3>2. sum2 + f[p] = sum + g[p]
      <4>1. \A q \in S : f[q] \in Nat /\ g[q] \in Nat
        BY <1>4, <1>5, <3>1
      <4>2. \A q \in S \ {p} : f[q] = g[q]
        BY <3>1
      <4>3. SumOf(g, S) + f[p] = SumOf(f, S) + g[p]
        <5> HIDE DEF f, g, S
        <5> QED BY <1>4, <2>3, <4>1, <4>2, SumChanged
      <4> QED BY <3>1, <4>3
    <3>3. f[p] \in Nat /\ g[p] = f[p] - 1
      BY <1>4, <2>3, <3>1
    <3> HIDE DEF f, g, sum, sum2, down, down2, clearing, clearing2
    <3>4. sum2 = sum - 1
      BY <1>6, <3>2, <3>3
    <3>5. index.total = sum + down /\ index'.total = index.total /\ down2 = down + 1 /\ down \in Nat
      BY <1>14, <1>17, <2>1, <2>2
    <3>6. index'.total = sum2 + down2
      BY <1>6, <3>4, <3>5
    <3> QED BY <2>2, <3>6
  <2> QED BY <2>6, <2>7
<1>24. CASE name = "total down"
  <2>1. /\ Moves(t) /\ index'.counts = index.counts
        /\ index'.total = IF index.total = 0 THEN 0 ELSE index.total - 1
    BY <1>15, <1>24, EdgeSections
  <2>2. clearing = {} /\ clearing2 = {} /\ down2 = down - 1
    BY <1>14, <1>15, <1>16, <1>24, <2>1
  <2>3. sum2 = sum
    BY <1>13, <1>19, <1>24, <2>1
  <2>4. down2 \in Nat /\ down \in Nat
    BY <1>14
  <2> HIDE DEF sum, sum2, down, down2, clearing, clearing2
  <2> QED BY <1>6, <1>17, <2>1, <2>2, <2>3, <2>4
<1>25. CASE name = "clear counts"
  <2>1. Moves(t) /\ index'.counts = Empty
    BY <1>15, <1>25, EdgeSections
  <2>2. t \in clearing2
    BY <1>12, <1>25, <2>1 DEF Standing
  <2>3. DOMAIN Empty = {}
    BY DEF Empty
  <2>4. T = {}
    BY <2>1, <2>3
  <2>5. clearing2 # {}
    BY <2>2
  <2> QED BY <2>4, <2>5
<1>26. CASE name = "clear total"
  <2>1. Moves(t) /\ index'.counts = index.counts /\ index'.total = 0
    BY <1>15, <1>26, EdgeSections
  <2>2. t \in clearing
    BY <1>10, <1>26 DEF Standing
  <2>3. T = {}
    BY <1>17, <2>1, <2>2
  <2>4. sum2 = 0
    <3> HIDE DEF g, T
    <3> QED BY <1>5, <2>3, SumRecursion
  <2>5. down2 = 0
    <3>1. \A u \in Threads \ {t} : Running(u) => Head(todo[u]) \notin EdgeRemovers
      BY <1>1, <1>15, <1>26, ClearsAlone DEF AllCounted
    <3>2. Standing("total down") = {}
      BY <1>10, <1>15, <1>26, <3>1 DEF Standing, Stands
    <3>3. down2 = down
      BY <1>14, <1>26
    <3> QED BY <3>2, <3>3, FS_EmptySet
  <2> HIDE DEF sum2, down2, clearing2, T
  <2> QED BY <2>1, <2>3, <2>4, <2>5
<1> QED BY <1>15, <1>20, <1>21, <1>22, <1>23, <1>24, <1>25, <1>26

-----------------------------------------------------------------------------
(* The selectivity *)

ReadsTotal(t) == Stands(t, "read total")

(* Who reads the total undisturbed reads at least the count.               *)
LEMMA TotalIsEnough ==
  ASSUME TypeOK, PhaseInv, ShapeInv, DisturbInv, AllCounted, TotalInv,
         NEW t \in Threads \ disturbed, ReadsTotal(t),
         NEW p, call[t].p = p
  PROVE  CountOf(p) <= index.total
<1> DEFINE S == DOMAIN index.counts
           f == Settled
           down == Cardinality(Standing("total down"))
<1>1. call[t] \in Calls /\ call[t].op = "selectivity"
  <2>1. call[t] \in Calls /\ Belongs(call[t], "read total")
    BY StandsBelong DEF Stands, ReadsTotal
  <2> QED BY <2>1 DEF Belongs
<1>2. <<"edges", p>> \in Keys
  <2>1. "p" \in DOMAIN call[t]
    BY <1>1, CallsAssumption
  <2> QED BY <1>1, <2>1 DEF Keys
<1>3. \A u \in Threads : Running(u) => Head(todo[u]) \notin EdgeAdders \cup Clearers
  <2>1. ASSUME NEW u \in Threads \ {t}, Running(u), Head(todo[u]) \in EdgeAdders \cup Clearers
        PROVE  FALSE
    <3>1. Adds(call[u]) # {}
      BY <1>2, <2>1, PlacesAddAndRemove
    <3> QED BY <1>1, <2>1, <3>1 DEF DisturbInv, Stands, ReadsTotal
  <2> QED BY <2>1 DEF EdgeAdders, Clearers, Stands, ReadsTotal
<1>4. StandingAt("total", p) = {} /\ Standing("clear total") = {}
  BY <1>3 DEF StandingAt, Standing, Stands, EdgeAdders, Clearers
<1>5. SettledFacts
  BY SettledIs
<1>6. /\ DOMAIN f = S /\ IsFiniteSet(S) /\ \A q \in S : f[q] \in Nat
      /\ p \in S => index.counts[p] \in Nat /\ f[p] = index.counts[p] - Late(p)
  BY <1>5 DEF SettledFacts
<1>7. Late(p) = 0
  BY <1>4, FS_EmptySet DEF Late
<1>8. p \in S => f[p] = index.counts[p]
  BY <1>6, <1>7
<1>9. index.total = SumOf(f, S) + down
  BY <1>4, <1>6 DEF TotalInv
<1>10. down \in Nat
  <2>1. Standing("total down") \subseteq Threads
    BY DEF Standing
  <2> QED BY <2>1, ThreadsAssumption, FS_Subset, FS_CardinalityType
<1>11. SumOf(f, S) \in Nat /\ \A q \in S : f[q] <= SumOf(f, S)
  <2> HIDE DEF f, S
  <2> QED BY <1>6, SumIsNat, SumAtLeast
<1>12. CASE p \in S
  <2>1. CountOf(p) = f[p] /\ f[p] \in Nat /\ f[p] <= SumOf(f, S)
    BY <1>6, <1>8, <1>11, <1>12 DEF CountOf
  <2> HIDE DEF f, S, down
  <2> QED BY <1>9, <1>10, <1>11, <2>1
<1>13. CASE p \notin S
  <2>1. CountOf(p) = 0
    BY <1>13 DEF CountOf
  <2>2. index.total \in Nat
    BY DEF TypeOK
  <2> QED BY <2>1, <2>2
<1> QED BY <1>12, <1>13

LEMMA SelectivityStep ==
  ASSUME TypeOK, PhaseInv, ShapeInv, DisturbInv, AllCounted, TotalInv, SelectivityInv,
         NEW t \in Threads, Step(t)
  PROVE  /\ SelectivityInv'
         /\ SelectivityIsAFraction => SelectivityIsAFraction'
<1>1. /\ call' = call /\ Running(t) /\ tangled' = tangled /\ disturbed' = disturbed
      /\ \A u \in Threads \ {t} : found'[u] = found[u] /\ answer'[u] = answer[u]
      /\ DOMAIN answer = Threads
  BY StepMovesOrEnds DEF Moves, Ends, Elsewhere, PhaseInv
<1>2. /\ Before("read count") = "read total" /\ Then("read total") = "read count"
      /\ "read count" \in SumPlaces
  BY DEF Before, Then, SumPlaces
<1>3. /\ Stands(t, "read count")' => Head(todo[t]) = "read total" /\ ~Ends(t)
      /\ Stands(t, "read count") <=> Head(todo[t]) = "read count"
      /\ \A u \in Threads \ {t} : Stands(u, "read count")' <=> Stands(u, "read count")
  <2>1. Then(Head(todo[t])) # "any" => Before(Then(Head(todo[t]))) = Head(todo[t])
    BY ThenBefore
  <2> QED BY <1>2, <2>1, SumPlacesMove, StepPlaces
<1>4. {"read total", "read count"} \cap EdgePlaces = {}
  BY DEF EdgePlaces, EdgeAdders, EdgeRemovers
<1>5. ASSUME NEW v \in Threads \ disturbed, Stands(v, "read count")'
      PROVE  found'[v] \in Nat /\ CountOf(call[v].p)' <= found'[v]
  <2>1. PICK p : call[v].p = p
    OBVIOUS
  <2>2. CASE v = t
    <3>1. Head(todo[t]) = "read total" /\ ~Ends(t)
      BY <1>3, <1>5, <2>2
    <3>2. found'[t] = index.total /\ index'.counts = index.counts
      BY <1>4, <3>1, EdgeSections DEF SameEdges
    <3>3. CountOf(p) <= index.total /\ index.total \in Nat
      BY <1>1, <1>5, <2>1, <2>2, <3>1, TotalIsEnough DEF TypeOK, Stands, ReadsTotal
    <3>4. CountOf(p)' = CountOf(p)
      BY <3>2 DEF CountOf
    <3> QED BY <1>1, <2>1, <2>2, <3>2, <3>3, <3>4
  <2>3. CASE v # t
    <3>1. Stands(v, "read count") /\ found'[v] = found[v]
      BY <1>1, <1>3, <1>5, <2>3
    <3>2. found[v] \in Nat /\ CountOf(p) <= found[v]
      BY <1>5, <2>1, <3>1 DEF SelectivityInv
    <3>3. call[v].op = "selectivity" /\ Running(v)
      <4>1. Belongs(call[v], "read count")
        BY <3>1, StandsBelong DEF Stands
      <4> QED BY <3>1, <4>1 DEF Belongs, Stands
    <3>4. Head(todo[t]) \notin EdgeAdders
      <4>1. Adds(call[t]) = {}
        BY <1>1, <1>5, <2>3, <3>3 DEF DisturbInv
      <4> QED BY <1>1, <4>1, PlacesAddAndRemove
    <3>5. \/ index'.counts = index.counts
          \/ index'.counts = CountedDown(index.counts, call[t].p)
          \/ index'.counts = Empty
      BY <3>4, EdgeSections DEF SameEdges, EdgeAdders, Ends
    <3>6. CountOf(p) \in Nat /\ CountOf(p)' \in {CountOf(p), CountOf(p) - 1, 0}
          /\ (CountOf(p) = 0 => CountOf(p)' = 0)
      <4>1. /\ CountOf(p) \in Nat
            /\ index'.counts = index.counts => CountOf(p)' = CountOf(p)
            /\ index'.counts = Empty => CountOf(p)' = 0
            /\ index'.counts = CountedDown(index.counts, call[t].p) =>
                 CountOf(p)' = IF call[t].p = p /\ CountOf(p) > 0 THEN CountOf(p) - 1 ELSE CountOf(p)
        BY EdgesAndCounts
      <4> QED BY <3>5, <4>1
    <3>7. CountOf(p)' <= found[v]
      BY <3>2, <3>6
    <3> QED BY <1>1, <2>1, <3>1, <3>2, <3>7
  <2> QED BY <2>2, <2>3
<1>6. ASSUME SelectivityIsAFraction, NEW v \in Threads \ disturbed, answer'[v] # None,
             PredicateKeys \cap tangled = {}
      PROVE  answer'[v][1] <= answer'[v][2]
  <2>1. CASE answer'[v] = answer[v]
    BY <1>6, <2>1 DEF SelectivityIsAFraction
  <2>2. CASE answer'[v] # answer[v]
    <3>1. v = t
      BY <1>1, <2>2
    <3>2. \/ answer'[t] = <<1, 1>>
          \/ Head(todo[t]) = "read count" /\ answer'[t] = <<CountOf(call[t].p), found[t]>>
      BY <1>1, <2>2, <3>1, EdgeSections
    <3>3. Head(todo[t]) = "read count" => CountOf(call[t].p) <= found[t]
      BY <1>3, <1>6, <3>1 DEF SelectivityInv
    <3>4. CASE answer'[t] = <<1, 1>>
      BY <3>1, <3>4
    <3>5. CASE Head(todo[t]) = "read count" /\ answer'[t] = <<CountOf(call[t].p), found[t]>>
      <4>1. CountOf(call[t].p) <= found[t]
        BY <3>3, <3>5
      <4>2. answer'[t][1] = CountOf(call[t].p) /\ answer'[t][2] = found[t]
        <5>1. answer'[t] = <<CountOf(call[t].p), found[t]>>
          BY <3>5
        <5> QED BY <5>1
      <4> QED BY <3>1, <4>1, <4>2
    <3> QED BY <3>2, <3>4, <3>5
  <2> QED BY <2>1, <2>2
<1>7. SelectivityInv'
  BY <1>1, <1>5 DEF SelectivityInv
<1>8. SelectivityIsAFraction => SelectivityIsAFraction'
  <2> SUFFICES ASSUME SelectivityIsAFraction
               PROVE  SelectivityIsAFraction'
    OBVIOUS
  <2>1. PredicateKeys' = PredicateKeys
    BY DEF PredicateKeys, Keys
  <2> QED BY <1>1, <1>6, <2>1 DEF SelectivityIsAFraction
<1> QED BY <1>7, <1>8

-----------------------------------------------------------------------------
(* The invariant is kept *)

(* What threads do elsewhere leaves the sums alone.                        *)
LEMMA SumsElsewhere ==
  ASSUME index' = index, repeated \subseteq repeated', tangled \subseteq tangled', SumsInv,
         \A u \in Threads : \A n \in SumPlaces :
            /\ Stands(u, n)' <=> Stands(u, n)
            /\ Stands(u, n) => /\ call'[u] = call[u] /\ found'[u] = found[u]
                               /\ u \notin disturbed' => u \notin disturbed
  PROVE  SumsInv'
<1>1. \A n \in SumPlaces : Standing(n)' = Standing(n)
  BY DEF Standing
<1>2. \A n \in SumPlaces : \A p : StandingAt(n, p)' = StandingAt(n, p)
  BY <1>1 DEF StandingAt, Standing
<1>3. SumPlaces = {"count", "total", "count down", "total down", "clear counts", "clear total",
                   "read count"}
  BY DEF SumPlaces
<1>4. \A p : CountOf(p)' = CountOf(p) /\ EdgesOf(p)' = EdgesOf(p)
  BY DEF CountOf, EdgesOf
<1>5. /\ Standing("clear counts")' = Standing("clear counts")
      /\ Standing("clear total")' = Standing("clear total")
      /\ Standing("total down")' = Standing("total down")
  BY <1>1, <1>3
<1>6. \A p : /\ StandingAt("count", p)' = StandingAt("count", p)
             /\ StandingAt("total", p)' = StandingAt("total", p)
             /\ StandingAt("count down", p)' = StandingAt("count down", p)
  BY <1>2, <1>3
<1>7. ASSUME NEW p, CountsInv(p)
      PROVE  CountsInv(p)'
  BY <1>4, <1>5, <1>6, <1>7 DEF CountsInv
<1>8. Settled' = Settled
  BY <1>6 DEF Settled
<1>9. TotalInv => TotalInv'
  <2>1. SumOf(Settled, DOMAIN Settled)' = SumOf(Settled, DOMAIN Settled)
    BY <1>8
  <2> QED BY <1>5, <2>1 DEF TotalInv
<1>10. SelectivityInv => SelectivityInv'
  <2> SUFFICES ASSUME SelectivityInv, NEW v \in Threads, Stands(v, "read count")', v \notin disturbed'
               PROVE  found'[v] \in Nat /\ CountOf(call[v].p)' <= found'[v]
    BY DEF SelectivityInv
  <2>1. Stands(v, "read count") /\ call'[v] = call[v] /\ found'[v] = found[v] /\ v \notin disturbed
    BY <1>3
  <2>2. found[v] \in Nat /\ CountOf(call[v].p) <= found[v]
    BY <2>1 DEF SelectivityInv
  <2>3. CountOf(call[v].p)' = CountOf(call[v].p)
    BY <2>1 DEF CountOf
  <2> QED BY <2>1, <2>2, <2>3
<1>11. PredicateKeys' = PredicateKeys
  BY DEF PredicateKeys, Keys
<1>12. \A k \in PredicateKeys \ tangled' : CountsInv(k[2])'
  BY <1>7 DEF SumsInv
<1>13. PredicateKeys \cap tangled' = {} => TotalInv' /\ SelectivityInv'
  BY <1>9, <1>10 DEF SumsInv
<1> QED BY <1>11, <1>12, <1>13 DEF SumsInv

LEMMA SumsKept ==
  ASSUME TypeOK, PhaseInv, ShapeInv, OverlapInv, DisturbInv, SumsInv, SelectivityIsAFraction,
         [Next]_vars, TypeOK', ShapeInv'
  PROVE  SumsInv' /\ SelectivityIsAFraction'
<1>1. PredicateKeys' = PredicateKeys
  BY DEF PredicateKeys, Keys
<1>2. ASSUME NEW t \in Threads, Step(t)
      PROVE  SumsInv' /\ SelectivityIsAFraction'
  <2>1. tangled' = tangled
    BY <1>2, StepMovesOrEnds DEF Moves, Ends
  <2>2. ASSUME NEW k \in PredicateKeys \ tangled
        PROVE  CountsInv(k[2])'
    <3>1. <<"edges", k[2]>> \in Keys \ tangled
      BY DEF PredicateKeys, Keys
    <3>2. CountsInv(k[2])
      BY DEF SumsInv
    <3> QED BY <1>2, <3>1, <3>2, CountsStep
  <2>3. ASSUME PredicateKeys \cap tangled = {}
        PROVE  TotalInv' /\ SelectivityInv' /\ SelectivityIsAFraction'
    <3>1. AllCounted /\ TotalInv /\ SelectivityInv
      BY <2>3 DEF AllCounted, SumsInv
    <3>2. AllCounted'
      BY <1>1, <2>1, <2>2, <2>3 DEF AllCounted
    <3> QED BY <1>2, <3>1, <3>2, TotalStep, SelectivityStep
  <2>4. SumsInv'
    BY <1>1, <2>1, <2>2, <2>3 DEF SumsInv
  <2>5. SelectivityIsAFraction'
    <3>1. PredicateKeys \cap tangled # {} => SelectivityIsAFraction'
      BY <1>1, <2>1 DEF SelectivityIsAFraction
    <3> QED BY <2>3, <3>1
  <2> QED BY <2>4, <2>5
<1>3. ASSUME NEW t \in Threads, NEW c \in Calls, Begin(t, c)
      PROVE  SumsInv' /\ SelectivityIsAFraction'
  <2>1. /\ index' = index /\ repeated' = repeated /\ tangled \subseteq tangled'
        /\ disturbed \subseteq disturbed' \cup {t}
        /\ answer'[t] = None
    BY <1>3 DEF Begin, PhaseInv
  <2>2. \A u \in Threads \ {t} : /\ call'[u] = call[u] /\ found'[u] = found[u]
                                  /\ answer'[u] = answer[u]
                                  /\ \A n : Stands(u, n)' <=> Stands(u, n)
    BY <1>3, BeginPlaces
  <2>3. \A n \in SumPlaces : ~Stands(t, n) /\ ~Stands(t, n)'
    <3>1. \A n \in SumPlaces : Before(n) # "any"
      BY DEF SumPlaces, Before
    <3> QED BY <1>3, <3>1, BeginPlaces
  <2>4. SumsInv'
    <3>1. \A u \in Threads : \A n \in SumPlaces :
            /\ Stands(u, n)' <=> Stands(u, n)
            /\ Stands(u, n) => /\ call'[u] = call[u] /\ found'[u] = found[u]
                               /\ u \notin disturbed' => u \notin disturbed
      BY <2>1, <2>2, <2>3
    <3> QED BY <2>1, <3>1, SumsElsewhere
  <2>5. SelectivityIsAFraction'
    <3> SUFFICES ASSUME NEW u \in Threads, answer'[u] # None, u \notin disturbed',
                        PredicateKeys \cap tangled' = {}
                 PROVE  answer'[u][1] <= answer'[u][2]
      BY <1>1 DEF SelectivityIsAFraction
    <3>1. u # t /\ answer'[u] = answer[u] /\ u \notin disturbed /\ PredicateKeys \cap tangled = {}
      BY <2>1, <2>2
    <3> QED BY <3>1 DEF SelectivityIsAFraction
  <2> QED BY <2>4, <2>5
<1>4. CASE UNCHANGED vars
  <2>1. /\ index' = index /\ repeated' = repeated /\ tangled' = tangled /\ disturbed' = disturbed
        /\ call' = call /\ found' = found /\ todo' = todo /\ answer' = answer
    BY <1>4 DEF vars, history
  <2>2. \A u \in Threads : \A n \in SumPlaces :
            /\ Stands(u, n)' <=> Stands(u, n)
            /\ Stands(u, n) => /\ call'[u] = call[u] /\ found'[u] = found[u]
                               /\ u \notin disturbed' => u \notin disturbed
    BY <2>1 DEF Stands, Running
  <2>3. SumsInv'
    BY <2>1, <2>2, SumsElsewhere
  <2>4. SelectivityIsAFraction'
    BY <1>1, <2>1 DEF SelectivityIsAFraction
  <2> QED BY <2>3, <2>4
<1> QED BY <1>2, <1>3, <1>4 DEF Next

(* Where no call has a predicate nothing is counted. *)
LEMMA NothingCountedKept ==
  ASSUME PhaseInv, ShapeInv, NothingCounted, [Next]_vars
  PROVE  NothingCounted'
<1>1. PredicateKeys' = PredicateKeys
  BY DEF PredicateKeys, Keys
<1>2. SUFFICES ASSUME PredicateKeys = {}
               PROVE  index'.total = 0
  BY <1>1 DEF NothingCounted
<1>3. index.total = 0
  BY <1>2 DEF NothingCounted
<1>4. ASSUME NEW t \in Threads, Step(t)
      PROVE  index'.total = 0
  <2>1. Running(t)
    BY <1>4, StepMovesOrEnds DEF Moves, Ends
  <2>2. Head(todo[t]) \notin EdgeAdders
    <3> SUFFICES ASSUME Head(todo[t]) \in EdgeAdders
                 PROVE  FALSE
      OBVIOUS
    <3> DEFINE k == <<"edges", call[t].p>>
    <3>1. k \in Adds(call[t])
      BY <2>1, PlacesAddAndRemove
    <3>2. k \in Keys
      BY <2>1, <3>1, StandsBelong, CallsHaveKeys
    <3>3. k[1] = "edges"
      OBVIOUS
    <3> QED BY <1>2, <3>2, <3>3 DEF PredicateKeys
  <2>3. index'.total \in {index.total, 0, IF index.total = 0 THEN 0 ELSE index.total - 1}
    BY <1>4, <2>2, EdgeSections DEF SameEdges, Ends, EdgeAdders
  <2> QED BY <1>3, <2>3
<1>5. ASSUME NEW t \in Threads, NEW c \in Calls, Begin(t, c)
      PROVE  index'.total = 0
  BY <1>3, <1>5 DEF Begin
<1>6. CASE UNCHANGED vars
  BY <1>3, <1>6 DEF vars
<1> QED BY <1>4, <1>5, <1>6 DEF Next

(***************************************************************************)
(* The theorems                                                            *)
(***************************************************************************)

LEMMA InvInit == Init => IInv /\ SelectivityIsAFraction
<1> SUFFICES ASSUME Init
             PROVE  IInv /\ SelectivityIsAFraction
  OBVIOUS
<1>1. DOMAIN Empty = {}
  BY DEF Empty
<1>2. /\ DOMAIN index.counts = {} /\ DOMAIN index.namespace_of = {} /\ index.total = 0
      /\ index.ids_by_namespace = {} /\ index.subjects_by_type = {}
      /\ index.types_by_subject = {} /\ index.edges = {}
      /\ DOMAIN index = {"ids_by_namespace", "namespace_of", "ids_by_local", "subjects_by_type",
                         "types_by_subject", "edges", "counts", "total"}
  BY <1>1 DEF Init, EmptyIndex
<1>3. /\ \A t \in Threads : ~Running(t) /\ call[t] = None /\ answer[t] = None /\ todo[t] = << >>
      /\ tangled = {}
  BY DEF Init, Running
<1>4. TypeOK
  BY <1>2, <1>3 DEF TypeOK
<1>5. PhaseInv
  <2>1. << >> \in Seq(SectionNames) /\ DOMAIN << >> = {}
    OBVIOUS
  <2>2. DOMAIN call = Threads /\ DOMAIN todo = Threads /\ DOMAIN found = Threads
        /\ DOMAIN answer = Threads
    BY DEF Init
  <2> QED BY <1>3, <2>1, <2>2 DEF PhaseInv, Linked
<1>6. ShapeInv
  BY <1>2, FS_EmptySet DEF ShapeInv
<1>7. OverlapInv /\ DisturbInv
  BY <1>3 DEF OverlapInv, DisturbInv
<1>8. \A n : \A t \in Threads : ~Stands(t, n)
  BY <1>3 DEF Stands
<1>9. MirrorInv
  BY <1>2, <1>8 DEF MirrorInv, TypesInv, TypesLead, SubjectsLead, TypesUnderway,
        NamespacesInv, OneNamespace, NamespaceLeads, NodesLead, NamespacesUnderway
<1>10. \A n : Standing(n) = {} /\ \A p : StandingAt(n, p) = {}
  BY <1>8 DEF Standing, StandingAt
<1>11. \A p : CountOf(p) = 0 /\ EdgesOf(p) = {}
  BY <1>2 DEF CountOf, EdgesOf
<1>12. Cardinality({}) = 0
  BY FS_EmptySet
<1>13. ASSUME NEW p
       PROVE  CountsInv(p)
  <2> DEFINE counting == StandingAt("count", p)
             totalling == StandingAt("total", p)
             dropping == StandingAt("count down", p)
             clearing == Standing("clear counts")
             edges == EdgesOf(p)
             count == CountOf(p)
  <2>1. counting = {} /\ totalling = {} /\ dropping = {} /\ clearing = {} /\ edges = {} /\ count = 0
    BY <1>10, <1>11
  <2>2. SUFFICES
          /\ count + Cardinality(counting) >= Cardinality(edges) + Cardinality(dropping)
          /\ p \notin repeated /\ clearing = {} =>
               count + Cardinality(counting) = Cardinality(edges) + Cardinality(dropping)
          /\ clearing # {} => edges = {}
          /\ count >= Cardinality(totalling)
    BY DEF CountsInv
  <2> HIDE DEF counting, totalling, dropping, clearing, edges, count
  <2> QED BY <1>12, <2>1
<1>14. TotalInv
  <2>1. DOMAIN Settled = {}
    BY <1>2 DEF Settled
  <2>2. SumOf(Settled, {}) = 0
    BY FS_EmptySet, SumRecursion
  <2>3. index.total = SumOf(Settled, DOMAIN Settled) + Cardinality(Standing("total down"))
    <3> DEFINE sum == SumOf(Settled, DOMAIN Settled)
               down == Cardinality(Standing("total down"))
    <3>1. sum = 0 /\ down = 0
      BY <1>10, <1>12, <2>1, <2>2
    <3> HIDE DEF sum, down
    <3>2. index.total = sum + down
      BY <1>2, <3>1
    <3> QED BY <3>2 DEF sum, down
  <2> QED BY <1>2, <2>3 DEF TotalInv
<1>15. SelectivityInv
  BY <1>8 DEF SelectivityInv
<1>16. NothingCounted
  BY <1>2 DEF NothingCounted
<1>17. SelectivityIsAFraction
  BY <1>3 DEF SelectivityIsAFraction
<1> QED BY <1>4, <1>5, <1>6, <1>7, <1>9, <1>13, <1>14, <1>15, <1>16, <1>17 DEF IInv, SumsInv

LEMMA InvNext == IInv /\ SelectivityIsAFraction /\ [Next]_vars => IInv' /\ SelectivityIsAFraction'
<1> SUFFICES ASSUME IInv, SelectivityIsAFraction, [Next]_vars
             PROVE  IInv' /\ SelectivityIsAFraction'
  OBVIOUS
<1>1. PhaseInv'
  <2>1. ASSUME NEW t \in Threads, Step(t)
        PROVE  PhaseInv'
    BY <2>1, StepPlaces DEF IInv
  <2>2. ASSUME NEW t \in Threads, NEW c \in Calls, Begin(t, c)
        PROVE  PhaseInv'
    BY <2>2, BeginPlaces DEF IInv
  <2>3. CASE UNCHANGED vars
    BY <2>3 DEF IInv, PhaseInv, vars, Running
  <2> QED BY <2>1, <2>2, <2>3 DEF Next
<1>2. TypeOK' /\ ShapeInv'
  BY TypeAndShapeKept DEF IInv
<1>3. OverlapInv' /\ DisturbInv' /\ MirrorInv' /\ NothingCounted'
  BY OverlapKept, DisturbKept, MirrorKept, NothingCountedKept DEF IInv
<1>4. SumsInv' /\ SelectivityIsAFraction'
  BY <1>2, SumsKept DEF IInv
<1> QED BY <1>1, <1>2, <1>3, <1>4 DEF IInv

LEMMA InvCounts == IInv => CountsMatchEdges
<1> SUFFICES ASSUME IInv
             PROVE  CountsMatchEdges
  OBVIOUS
<1>1. TypeOK /\ PhaseInv /\ ShapeInv /\ SumsInv /\ NothingCounted
  BY DEF IInv
(* Nobody stands where he works on the edges of a predicate that no call   *)
(* is working on.                                                          *)
<1>2. ASSUME NEW p, <<"edges", p>> \in Keys, ~Touched(<<"edges", p>>)
      PROVE  /\ StandingAt("count", p) = {} /\ StandingAt("total", p) = {}
             /\ StandingAt("count down", p) = {} /\ StandingAt("total down", p) = {}
             /\ Standing("clear counts") = {} /\ Standing("clear total") = {}
  <2>1. ASSUME NEW u \in Threads, Running(u)
        PROVE  /\ Head(todo[u]) \in EdgeAdders \cup EdgeRemovers => call[u].p # p
               /\ Head(todo[u]) \notin Clearers
    <3>1. <<"edges", p>> \notin Adds(call[u]) \cup Removes(call[u])
      BY <1>2, <2>1 DEF Touched
    <3> QED BY <1>1, <1>2, <2>1, <3>1, PlacesAddAndRemove
  <2> QED BY <2>1 DEF StandingAt, Standing, Stands, EdgeAdders, EdgeRemovers, Clearers
<1>3. Cardinality({}) = 0
  BY FS_EmptySet
<1>4. ASSUME NEW p
      PROVE  Cardinality(EdgesOf(p)) \in Nat /\ CountOf(p) \in Nat
  <2>1. EdgesOf(p) \subseteq index.edges
    BY DEF EdgesOf
  <2>2. Cardinality(EdgesOf(p)) \in Nat
    BY <1>1, <2>1, FS_Subset, FS_CardinalityType DEF ShapeInv
  <2> QED BY <1>1, <2>2 DEF CountOf, TypeOK
<1>5. CountsCount
  <2> SUFFICES ASSUME NEW k \in PredicateKeys \ tangled, ~Touched(k)
               PROVE  /\ CountOf(k[2]) >= Cardinality(EdgesOf(k[2]))
                      /\ k[2] \notin repeated => CountOf(k[2]) = Cardinality(EdgesOf(k[2]))
    BY DEF CountsCount
  <2>1. PICK p : k[2] = p
    OBVIOUS
  <2>2. k = <<"edges", p>> /\ k \in Keys
    BY <2>1 DEF PredicateKeys, Keys
  <2>3. CountsInv(p)
    BY <1>1, <2>1 DEF SumsInv
  <2>4. /\ CountOf(p) + 0 >= Cardinality(EdgesOf(p)) + 0
        /\ p \notin repeated => CountOf(p) + 0 = Cardinality(EdgesOf(p)) + 0
    BY <1>2, <1>3, <2>2, <2>3 DEF CountsInv
  <2> QED BY <1>4, <2>1, <2>4
<1>6. TotalIsTheSum
  <2> SUFFICES ASSUME PredicateKeys \cap tangled = {}, \A k \in PredicateKeys : ~Touched(k)
               PROVE  index.total = FoldFunction(+, 0, index.counts)
    BY DEF TotalIsTheSum
  <2> DEFINE counts == index.counts
             S == DOMAIN index.counts
             f == Settled
  <2>1. FoldFunction(+, 0, index.counts) = SumOf(counts, S)
    BY DEF FoldFunction, SumOf
  <2>2. AllCounted
    BY <1>1 DEF AllCounted, SumsInv
  <2>3. SettledFacts
    BY <1>1, <2>2, SettledIs
  <2>4. ASSUME NEW p, <<"edges", p>> \in Keys
        PROVE  ~Touched(<<"edges", p>>)
    <3>1. <<"edges", p>>[1] = "edges"
      OBVIOUS
    <3> QED BY <2>4, <3>1 DEF PredicateKeys
  <2>5. DOMAIN f = S /\ IsFiniteSet(S)
    BY <2>3 DEF SettledFacts
  <2>6. ASSUME NEW p \in S
        PROVE  counts[p] = f[p] /\ counts[p] \in Nat
    <3>1. <<"edges", p>> \in Keys
      BY <1>1 DEF ShapeInv
    <3>2. Late(p) = 0
      BY <1>2, <1>3, <2>4, <3>1 DEF Late
    <3>3. f[p] = counts[p] - Late(p) /\ counts[p] \in Nat
      BY <2>3 DEF SettledFacts
    <3> QED BY <3>2, <3>3
  <2>7. SumOf(counts, S) = SumOf(f, S) /\ SumOf(counts, S) \in Nat
    <3> HIDE DEF counts, f, S
    <3> QED BY <2>5, <2>6, SumOfEquals, SumIsNat
  <2>8. CASE PredicateKeys = {}
    <3>1. index.total = 0
      BY <1>1, <2>8 DEF NothingCounted
    <3>2. S = {}
      <4> SUFFICES ASSUME NEW p \in S
                   PROVE  FALSE
        OBVIOUS
      <4>1. <<"edges", p>> \in Keys /\ <<"edges", p>>[1] = "edges"
        BY <1>1 DEF ShapeInv
      <4> QED BY <2>8, <4>1 DEF PredicateKeys
    <3>3. SumOf(counts, {}) = 0
      BY FS_EmptySet, SumRecursion
    <3> QED BY <2>1, <3>1, <3>2, <3>3
  <2>9. CASE PredicateKeys # {}
    <3>1. PICK p : <<"edges", p>> \in Keys
      BY <2>9 DEF PredicateKeys, Keys
    <3>2. Standing("clear total") = {}
      BY <1>2, <2>4, <3>1
    <3>3. Standing("total down") = {}
      <4> SUFFICES ASSUME NEW u \in Standing("total down")
                   PROVE  FALSE
        OBVIOUS
      <4>1. u \in Threads /\ Running(u) /\ Head(todo[u]) \in EdgeRemovers
        BY DEF Standing, Stands, EdgeRemovers
      <4>2. <<"edges", call[u].p>> \in Removes(call[u])
        BY <1>1, <4>1, PlacesAddAndRemove
      <4>3. <<"edges", call[u].p>> \in Keys
        BY <1>1, <4>1, <4>2, StandsBelong, CallsHaveKeys
      <4> QED BY <2>4, <4>1, <4>2, <4>3 DEF Touched
    <3>4. index.total = SumOf(f, S) + 0
      BY <1>1, <1>3, <2>5, <3>2, <3>3 DEF SumsInv, TotalInv
    <3> DEFINE sum == SumOf(f, S)
    <3>5. sum \in Nat /\ SumOf(counts, S) = sum
      BY <2>7
    <3> HIDE DEF sum
    <3>6. index.total = sum
      BY <3>4, <3>5 DEF sum
    <3> QED BY <2>1, <3>5, <3>6
  <2> QED BY <2>8, <2>9
<1> QED BY <1>5, <1>6 DEF CountsMatchEdges

THEOREM TypeCorrect == Spec => []TypeOK
<1>1. IInv => TypeOK
  BY DEF IInv
<1> QED BY InvInit, InvNext, <1>1, PTL DEF Spec

THEOREM MapsKept == Spec => []MapsMirror
<1>1. IInv => MapsMirror
  BY MirrorInvMirrors DEF IInv
<1> QED BY InvInit, InvNext, <1>1, PTL DEF Spec

THEOREM CountsKept == Spec => []CountsMatchEdges
BY InvInit, InvNext, InvCounts, PTL DEF Spec

THEOREM SelectivityKept == Spec => []SelectivityIsAFraction
BY InvInit, InvNext, PTL DEF Spec
=============================================================================
