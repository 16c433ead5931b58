# FalkorSemantic in TLA+

FalkorSemantic is a Redis module, written in Rust, that gives FalkorDB (a
property graph queried with Cypher) the interface of an RDF store: commands that
create graphs, insert and delete triples, load files, keep prefixes and answer
SPARQL. This directory holds TLA+ models of it, the TLC configurations that check
them on small instances and proofs about them that TLAPS checks.

    tlc -workers 2 -config MCRdfInsert_retries.cfg MCRdfInsert.tla
    tlapm RdfInsertProofs.tla

Paths below are relative to the repository's root, and the crates are `storage`,
`parser`, `mapper` and `module`. `PROJECT.json` maps every definition to the lines it
translates and lists the runs, the hazards and the theorems.

1. [The system](#1-the-system)
2. [Modules: state, actions and the code](#2-modules-state-actions-and-the-code)
3. [Runs: what is checked and what it shows](#3-runs)
4. [Proofs: what holds for every value of the constants](#4-proofs)
5. [Disagreements between code and documentation](#5-disagreements)
6. [What is not modelled](#6-what-is-not-modelled)
7. [Plan](#7-plan)

## 1. The system

A command arrives on Redis's one thread and runs there to its end. It parses its
argument, maps RDF to Cypher and calls FalkorDB by `GRAPH.QUERY`; each of those
calls may fail on its own, and no transaction spans two of them. Three places keep
state: FalkorDB's graphs, keys in Redis (`rdf:graphs`, `rdf:ns:<graph>:<prefix>`)
and one process-wide counter (`GLOBAL_COUNTER`, the scopes of blank nodes). The
`storage` crate is a library of structures for concurrent use (dictionary,
indexes, caches, statistics) that the optimizer reads and no command writes yet;
the writers of RDF, JSON-LD and the optimizer are libraries too.

        RDF.INSERT, RDF.BULK_INSERT --> readers --> CypherGenerator --+
        RDF.DELETE ---- prefixes (rdf:ns:*) ---- its own queries -----+-> GRAPH.QUERY
        RDF.GRAPH, RDF.NAMESPACES --- rdf:graphs, rdf:ns:* -----------+
        RDF.QUERY --> spargebra --> translator ---> executor ---------+
                                                       |
                                                       +-> result formats
        threads --> StatisticsCollector --> JoinOrderOptimizer        (library)
        quads --> serializers, exporters --> text --> readers --> quads (library)

### Inventory

| Component | State | Operations | What is hard | What makes it correct |
|---|---|---|---|---|
| IRI dictionary, `storage/src/dictionary.rs` | two maps, an RwLock each; an atomic counter | get_or_insert, lookups, import, export, clear | double-checked locking, two locks, ids that wrap | one id per IRI, the maps inverse whenever both can be seen, every call returns, linearizable |
| Triple indexes, `storage/src/index.rs` | eight maps and counters, an RwLock each | add, remove, remove_subject, selectivity, index_triple, clear | operations that take their locks one after the other | maps that mirror one another, counts that count, a selectivity that is a fraction |
| RDF.BULK_INSERT, `module/src/commands/rdf_bulk_insert.rs` | line number, batch, statistics | two loading loops, a closure that maps and sends a batch | a query of many fails; limits; resuming; a batch that is never mapped | nothing lost at a batch's boundary, honest counters, a clean reply means loaded; a reply |
| RDF.GRAPH, RDF.NAMESPACES, `rdf_graph.rs`, `rdf_namespaces.rs`, `utils.rs` | `rdf:graphs`, prefix keys, FalkorDB's graphs | CREATE, DROP, CLEAR, LIST; ADD, REMOVE, LIST | several calls to two stores, any of them failing | no name tracked without its graph unseen; an error leaves the catalogue as it was; a catalogue |
| RDF.INSERT, `rdf_insert.rs`, `parser/src/rdf/blank_node.rs` | the graph, GLOBAL_COUNTER | guess a format, parse, map, one call per statement or one for all | partial failure in a HashMap's order, retries, restarts | no triple lost, retries complete, blank nodes of two documents never meet, no format taken for another |
| CypherGenerator, `mapper/src/graph/cypher.rs` | none | generate_batch, generate_triple | collections become arrays and their cells go | nothing else goes with them; grouping changes nothing; it ends |
| RDF.DELETE, `rdf_delete.rs` | the graph, prefixes | two queries | patterns that are read otherwise than they are written; the second query fails | the edges meant go and no others; retries complete |
| RDF.QUERY, translator and executor, `rdf_query.rs`, `mapper/src/query/{translator,executor}.rs` | clauses under construction | arguments, patterns to clauses, one call, conversion | the order of clauses decides what they mean; what is dropped; names that are made up | solutions are those of SPARQL |
| LRU, namespace and plan caches, `storage/src/cache.rs` | entries with times of creation and access, one lock per cache | get, insert, evict, invalidate, clear | capacity, expiry, two queries with one key | an answer is the last stored; room is made by the least recently used |
| Statistics, `storage/src/statistics.rs` | six fields, a lock each | add, clear, build | clear and build are not atomic | numbers between what was there before and after |
| Join order optimizer, `mapper/src/query/optimizer.rs` | none | greedy choice | statistics looked up by another key than they are kept under | an order of all patterns, the rarest first, without products |
| Turtle reader, `parser/src/formats/turtle/`, `parser/src/rdf/{namespace,iri}.rs` | tokens, prefixes, base, depth | statements to triples | lexer and parser disagree on dots; nesting; labels | the triples the document says |
| N-Triples, N-Quads, TriG readers, `parser/src/formats/` | pending quads, finished flag | parse_all, iterators | quads of a step that fails | each quad once and in order, one error |
| Serializers and exporters, `parser/src/{rdf/serializer,export}/` | prefixes, the subject and graph a statement is open in | headers, one quad at a time, finish | statements left open, escapes | what is written is read back |
| JSON-LD, `parser/src/rdf/jsonld/`, two writers | contexts | expansion, compaction, frames, conversion, writing | recursion over contexts and nodes | the triples the document says, in every version of it |
| SPARQL result formats, `parser/src/results/` | none | SELECT as CSV, TSV, JSON, XML; CONSTRUCT as Turtle, RDF/JSON | escapes, unbound variables | a client gets every solution |
| SPARQL parser, `parser/src/sparql/` | none | spargebra, modifiers, validator | | |
| Namespace store, DeleteGenerator, RDF terms, module loading, RDF.PARSE | | | nothing: sequential or unused | |

## 2. Modules: state, actions and the code

Definitions whose comment begins with *Faulty*, or that stand directly before the
definition they resemble and are used by no other, are plausible mistakes in that
definition: replacing it by them must break the property `PROJECT.json` names.

### IriDictionary, AtomicDictionary

`iri_to_id`, `id_to_iri`, `next_id` are the fields of the struct; `writer` and
`readers` are the two RwLocks; `pc`, `op`, `arg`, `ret` are a thread's place in its
call. An action is what a thread does between two lock operations: `FastLock`,
`FastHit`, `FastMiss` are get_or_insert's fast path, `LockForward`, `LockReverse`,
`DoubleCheckHit`, `Assign`, `InsertReverse` its slow one, `UnlockReverse` and
`UnlockForward` the guards going out of scope. The one-lock readers are `ReadLock`,
`Lookup`, `ReadReturn`; get_id stands for those of `iri_to_id`, get_iri for those of
`id_to_iri`. `ImportEntries` is import's loop in closed form; the assumption
`NextAfterIsTheLoop` in MCIriDictionary compares its counter with the loop, entry by
entry, on all lists of up to three ids, those that wrap included. `Succ` wraps at
`MaxId` as u64 does.

`AtomicDictionary` promises that each call takes effect at one instant on one
injective map. The refinement takes `iri_to_id` as that map and counts a call as
answered once its answer is fixed.

`RestoreOnly` says that import is called only on a dictionary that is empty and
used by nobody else, with a list that export made, as the tests do
(dictionary.rs:252). Without that one id may name two IRIs (section 5).

### TripleIndexes

`index` is a record of the maps; maps to sets are sets of pairs, since the code
removes a key whose set has become empty. `Sections(c)` lists the lock sections of
a call in their order, and each disjunct of an action is one section; what an
operation carries from one section to the next (the types remove_subject took, the
total selectivity read) is `found`. The history variables say where the code makes
no promise: `tangled` (an adding and a removing call of one key overlapped),
`repeated` (an edge was added twice), `moved` (a node was added under a second
namespace), `disturbed` (a selectivity was overlapped by an add).

### BulkInsert, BatchedLoad (on GraphMapping)

A file is a sequence of lines: a triple, blank, one that does not parse, one that
cannot be read. `SkipLine`, `UnreadableLine`, `BlankLine`, `BadLine`, `TripleLine`
are the ways around stream_ntriples' loop, `LastBatch` and `EndOfFile` its end.
`ParseFails`, `ParseFile`, `NextChunk`, `ChunksDone` are load_complete_file.
`QuerySucceeds` and `QueryFails` are GRAPH.QUERY with process_batch, the handler's
closure (`Processed`, `Rejected`, the limits) and what the loop makes of its result.
A batch of triples (`BatchData`) becomes one query with a statement for each of the subjects that GraphMapping leaves of
it, lists taken out (`Statements`). A batch with the whole of a list that leads back to one of its cells is never mapped
(`Endless`): process_batch stays in the mapper's loop (`WalkForEver`).
The batch is a set of line numbers, for its order does not matter to a query and
line numbers tell repeated triples apart.

`BatchedLoad` promises batches in the file's order, all full but the last, each
applied whole or not at all, and nothing left over when the load is done.

### GraphRegistry, GraphCatalog

`tracked` is `rdf:graphs`, `stored` and `data` are FalkorDB, `bindings` the prefix
keys. A command is one step, since Redis runs it to its end before the next one;
its disjuncts are the calls inside that may fail, those to FalkorDB (`QueryMayFail`, `DeleteGraph`) and those to
Redis: SADD after the graph was made, SREM after it was deleted, SCAN and DEL, which pass over their failures
(`DeleteKeys`). `Covers[g]` abstracts the glob
`rdf:ns:<g>:*`, unescaped in the code, by the names whose keys it matches. INSERT and
DELETE are here as far as they touch the same state. `careful` ends when GRAPH.DELETE, SCAN or
DEL failed in a DROP that answered OK all the same, when DROP's glob matched other keys than those of its graph, or when
an INSERT went to a graph that is not tracked. It does not end with a DROP that answers an error.

`GraphCatalog` is the catalogue of named graphs the documentation describes; the commands
implement it as long as `careful` holds. A DROP that answers an error may have emptied its graph, there as here.

### GraphMapping

How triples become a graph: pure operators. `TripleGraph` is generate_triple, and
`TripleByTriple` the reference for triples outside of lists. generate_batch takes
collections out first: `LastObjects` and `Heads` are the maps of the first pass,
`Cell` and `ListLength` the walk along rdf:rest, `Lists`, `ListCells`, `Remaining`
the pass that takes cells out, `SubjectGraph` generate_subject_query with the effect
of its Cypher (MERGE makes sets, SET makes a function), and `Batches` the statements
in every way the HashMaps allow. Walks are recursive functions. `WalksEnd` is what
decides whether the code's loop ends; the code has no such test.

`Kept` says how a triple is read back from the graph: as a label, as an edge, as a property with that very value, or as an
element of an array. Every triple of a document that is `WellMapped` can be: its lists are `WellFormed` (one first and one rest
per cell and one reference to it, types that are IRIs, no name that stands for two lists or for a list and a literal), and it has
`OneLiteralPerName`. Of several values the code keeps the last (section 5).

### RdfInsert (extends GraphMapping)

`Reject` and `Call` begin a command and take a scope for blank nodes (`TakeScope`);
`Map` chooses one of `Batches`; `Walk` is the walk that does not end;
`Execute`, `Fail` are the calls of a command without ATOMIC, in any order;
`ExecuteAll`, `FailAll` the one call with it; `Finish` answers. `Restart` keeps the
graph and sets the counter to 0. A client may send its document again, and `origin`
keeps the graph from before its first try.

### RdfDelete (extends GraphMapping)

`DeleteEdges` is the first query (`Matching`, `LiteralNodes`, `Deleted`), `CleanUp` the
second (`Isolated`, `Cleaned`), `QueryFails` either failing. `Expand` is
expand_prefix, asked for full IRIs too. The graph is what the queries make it;
`asserted` is what it should say by the meaning of the commands. `plain` ends when
a pattern was sent whose text and whose query mean different triples
(`ReadAsMeant`; section 5): from there on the two are not compared. `Shows` says how a triple is found in the graph, whether it
became an edge, a property or a label.

### SparqlQuery, SparqlToCypher, BasicPatterns, QueryEvaluation, CypherRows, SparqlAlgebra (on GraphMapping)

`SparqlAlgebra` is the reference: the algebra spargebra hands over and its solutions over a
set of triples, as SPARQL 1.1 defines them. It models no code. `SparqlToCypher` is the
translator, pattern by pattern: `Process` is process_pattern with its accumulator (the parts
of MATCH, the conditions, the variables, the counter of made-up names), `TranslateExpression`
the expressions, `TranslateSelect` and `TranslateAsk` the two kinds of query;
`ExtractModifiers` takes the solution modifiers off as the parser does. `CypherRows` is
FalkorDB as far as those clauses go, external and modelled after openCypher: rows are sets,
relationships need not be different, EXISTS takes a pattern, a MATCH behind an OPTIONAL MATCH
needs a WITH between them, and a type mismatch ends a query (`Breaks`).

What translates triple patterns, and OPTIONAL and MINUS of them, stands apart in `BasicPatterns`, without recursion, so that
it can be proved about. `SparqlToCypher` uses it inside of its recursive `Process`. The definitions of `CypherRows` and
`SparqlAlgebra` are not recursive either: those on expressions take what evaluates the expressions inside (`ValueIn`, `ExprOkIn`,
`BodyRowsBy`, `BodyOkBy`), and `QueryEvaluation` closes the recursion (`Value`, `ExprOk`, `BodyRows`, `BodyOk`), for expressions of any depth.
`BasicPatterns` unrolls it as deep as the conditions of triple patterns go (`ShallowValue`, `ShallowOk`).

`SparqlQuery` is the command: `Insert` fills the graph (statement by statement; `BatchAgreesWithTriples`
is that grouping changes nothing), `Request` reads the arguments and the query,
`TranslateQuery`, `Execute` (with the time limit and every failure of the database),
`FormatReply` and `Return` are what follows. It runs with either of two executors: the module's, where
every value arrives as Redis has it, and one that hands maps over as they are, which is what
`to_term` is written for. `Validates` is the validator, which users of the library can turn on.

`Faithful` says which queries the translation is meant for: triple patterns with constant predicates,
VALUES of IRIs, BINDs of variables, then FILTERs about bound variables and MINUS, or OPTIONALs that come last,
and UNIONs of those; one of each solution modifier.

### StatisticsCollector, JoinOrderOptimizer

The collector's fields have a lock each: a call is a sequence of sections (`todo`), with other
threads in between, and build reads field after field into `building`. `torn` is set by a clear
that overlaps another call. The optimizer is a library function, so `Optimize` is one step
that reads the `stats` built last; both orderings are there, with and without an IndexManager. Its
floats are fractions. The loop that takes pattern after pattern out of the list is an order of the positions
(`GreedyOrder`), each the best of those the earlier ones leave; the stable sort is one too (`SortedOrder`). `HashIri` gives the ids it asks for, `Triples` those the collector was given.

### LruCache, RecencyOrder

Three caches as the crate has them: plans under the hash of a normalized query, prefixes to
namespaces and back. An operation holds its cache's write lock all the time and is one step;
`NamespaceCache::clear` is two. What is stored is the time it was stored at, so that two stores never
store the same. Every operation sees a later `Instant` than the one before.
`RecencyOrder` is the promise: keys with their values and the order of their last use; only the key
used least recently makes room, and only in a full cache.

### RdfDocuments and the modules it is made of

A document from its writing to its reading. Texts are sequences of atoms (`TurtleText`): one
character of punctuation, or a run of letters, a run of digits or a namespace that no operation looks into.

* `TurtleLexer` and `RdfReaders` are the Turtle reader, every production, with what the code
  threads through its calls (position, triples, reader) as one record; its NamespaceRegistry, the
  prefixes and the base, is in `TurtleText`. The lexer with `Rio` set reads as rio's does.
* `RdfReaders` is also the converter, parse_all and the iterators of N-Triples, N-Quads and TriG;
  rio_turtle is external, modelled as the steps it takes.
* `RdfWriters` is the streaming serializers, whose state is an open subject and an open graph, the exporters,
  and the two writers of JSON-LD.
* `JsonLdProcessor` is JSON-LD: contexts, expansion, compaction,
  frames, conversion to triples. serde_json is external, with members in the
  order of their keys, as its `Map` is a BTreeMap.
* `SparqlResults` is the result formats and, external, a client that reads them.
* `DocumentAuthors` writes documents by hand, Turtle step by step and JSON-LD by combination,
  and knows what those say. It is a reference and models no code.

`Open`, `AddPrefix`, `WriteHeader`, `Serialize` and `Finish` are a writer's calls, `Author` is one step by
hand, `WriteJson` a JSON-LD document by hand. `CutShort` cuts a finished document at white space; `StartReading`
and `ReadNext` are an iterator. `detect` and `parse_rdf` are what RDF.INSERT does with a document that comes without
a FORMAT. `WellWritten` names the documents that come back at all; what it leaves out is in section 5.

## 3. Runs

Every passing run explores its whole state space. Bounds are constants, and each is
named in the module.

| Run | States | What it shows |
|---|---|---|
| dictionary | 60,683 | Two threads, every operation, clear and restoring imports included: who holds a lock sees inverse maps (`MapsAgreeWhenObserved`), no id names two IRIs, the counter stays ahead (`NextIdIsFresh`), no interleaving strands a call (`EveryCallReturns`), and the dictionary is linearizable (`ImplementsAtomicMap`) |
| indexes | 1,346,769 | Two threads, every operation: mirrors (`MapsMirror`), counts and selectivities, where the history variables promise them |
| bulk_loads | 164,303 | Every format and option on eight files, of which one holds a list and one a list that leads back to itself, two commands in a row, any query failing: nothing lost between batches, honest counters, a syntax error in a whole file sends nothing, both loops implement `BatchedLoad`, every command replies but for a batch with the whole of that list (`CommandReplies`) |
| registry | 659,452 | Any call failing, to FalkorDB or to Redis, names that cover one another, inserts into graphs nobody created: only a DROP that answers an error leaves a tracked name without its graph (`TrackedGraphsExist`), an error leaves the list of graphs, the prefixes and, a DROP apart, the triples as they were (`RefusalsKeepTheCatalogue`); while `careful`, the commands implement `GraphCatalog` |
| insert_retries | 53,643 | All pairs of eight triples, eight documents with lists and two without an end, in Turtle and N-Triples, any statement failing, a retry or another document after it, a restart anywhere between: seven properties of RDF.INSERT |
| insert_endless | violated | `EveryCommandReplies`: a list that comes back to one of its cells keeps the command running |
| delete_patterns | 967,673 | Forty-two patterns on a graph that grows and prefixes that change: the edges meant go and no others (`EdgesAreTriples`), no literal or type goes that was not meant (`OnlyMeantTriplesGo`), retries complete, and after ORPHANS a node that had an edge is there exactly if it still has one (`OrphansAreCleanedUp`) |
| query | 562,233 | A thousand queries of one to three operators on what five documents become, both executors, every error: within `Faithful` an answer is what SPARQL says over the data's edges (`AnswersAreSolutions`), and what the translator writes is accepted (`FaithfulQueriesAreAccepted`) |
| query_types | violated | `TypedSubjectsAreFound`: the documented query by rdf:type finds nothing |
| planner | 1,263,523 | Two threads fill, clear and read one collector: `BuiltStatisticsFit`; eight basic graph patterns ordered by any statistics that come of it: `PlansStartWithTheRarest`, `PlansAvoidProducts` |
| caches | 127,335 | Five operations on three caches: `AnswersAreCurrent`, `ImplementsRecencyOrder` |
| documents | 596,843 | Eighteen ways of writing up to three of eight quads, read back by the reader of the format and by RDF.INSERT's guess (`WrittenIsReadBack`); every Turtle document of eight steps by hand, 3,024 JSON-LD documents under five contexts, read as they are, compacted and framed (`DocumentsSayWhatTheyMean`); every document cut short, read item by item (`IteratorsDeliverAllThereIs`) |

### Bounds, and why they are enough

* *Dictionary.* A race in get_or_insert needs two threads with one IRI; two IRIs are needed to
  mix ids up. `MaxId` 6 leaves room for the restored ids and `MaxCalls` 5 lets both threads
  call, clear and call again.
* *Indexes.* Every hazard is two overlapping calls on one subject or predicate after
  a third has filled the map; four calls add one observer (a selectivity, a removal).
* *Bulk.* Batch sizes 1, 2 and 3 against files of up to five lines put a boundary in
  the middle, between the triples of a list and behind them, at the last triple and before trailing lines without triples; 0 is
  refused. MAXERRORS 0, 2 and 99 are below, at and above the errors of a file. A second
  command is what SKIP is for.
* *Registry.* One name that covers another and one that is refused; two URIs for one
  prefix, two triples to tell a lost one from a kept one. The state space is finite
  without a bound on the number of commands.
* *Insert.* Pairs of triples cover every interaction of two (same name, same edge,
  type and edge). Lists of one and two cells cover first, middle and last cell. Two calls are
  a retry; three scopes and one restart are the least that let a name come again.
* *Delete.* Three triples of five, two deletes, one new binding: enough for a pattern
  sent, failed, and sent again, and for a prefix bound to something else in between.
* *Query.* Two of five documents give graphs with cycles, a blank node, a literal and a type.
  Queries are every pair of basic patterns under every operator, and pairs of operators
  where one is in the other's way (a condition before and after MINUS, OPTIONAL in OPTIONAL).
* *Planner.* Two threads with four calls: a build beside an add and a clear, after another add.
  Up to four patterns, among them chains that have to be regrouped and two that are apart. Nothing is added
  while a plan stands, for it says nothing of later data.
* *Caches.* Room for two, one and none; a time to live of two against five ticks; two queries with one hash
  and two with one normal form.
* *Documents.* Three quads put a subject that comes back, a switch of graphs and back, and one statement behind
  another. The eight quads have a literal of every kind a writer treats in its own way. Eight steps by hand are a
  list in a property list with something behind it; the limit on nesting is 2 (128 in the code), so that
  there are documents at it and above it.

`CHECK_DEADLOCK FALSE` is where a bound is reached and the model stops
(inserts, deletes, indexes, caches, documents); the others have steps for that
(`Finished`, `Terminating`, `Return`, `Forget`), so there TLC does look for deadlocks.

### Fairness

* IriDictionary: weak fairness of `Step(t)` for every thread. A thread inside a call
  goes on running, and std's RwLock grants a lock that stays free. No thread
  has to make another call. Weak fairness suffices since calls are bounded, so that no
  thread can be overtaken for ever.
* BulkInsert, RdfInsert: weak fairness of the command's own steps. The handler runs on
  Redis's thread to its end, and a call to FalkorDB answers or fails. Clients may stop.
* The others: none, and no liveness is claimed. Their steps are functions that end or
  calls whose locks are held one at a time.

## 4. Proofs

All theorems are about the specifications as TLC runs them, for any sets of threads,
names, files, documents, patterns and any bounds, under the named assumptions of the
modules (types of constants; that reserved values are not data, and that the IRIs of rdf:type, rdf:first and
rdf:rest are three). Where something is counted or summed
up, sets are assumed to be finite: the threads of TripleIndexes and StatisticsCollector, and the triples of
the latter. A process has finitely many threads, and ids are 64 bits wide. `CallsAssumption` says what
TripleIndexes' calls are: records of one of nine operations, each with its arguments. `LimitsAssumption` gives the caches
a natural number as their capacity and another, or none, as their time to live, and the clock a bound that is a number.
`BgpsAssumption` says that the patterns are sequences whose IRIs have hashes (hash_iri is total), `IndexedAssumption` that an
IndexManager answers fractions.

| Theorem | Statement |
|---|---|
| IriDictionaryProofs!TypeCorrect | types |
| ...!ObserversAgree | `MapsAgreeWhenObserved` |
| ...!OwnIds, FreshIds | `EveryIriHasItsOwnId`, `NextIdIsFresh` where imports only restore |
| ...!Linearizable | refinement of AtomicDictionary where imports only restore |
| BulkInsertProofs!TypeCorrect | types |
| ...!NothingLost, LastLineSent | nothing lost or repeated at a batch's boundary; nothing waits behind the reported line |
| ...!CleanReplyMeansLoaded | a reply without errors means that every triple asked for was in a batch that FalkorDB accepted |
| ...!HonestCounts | counters never above what was done, errors never below what failed, for any triples, lists among them |
| ...!NothingSentOfABadFile | `SyntaxErrorsSendNothing` |
| ...!LoadsInBatches | refinement of BatchedLoad, by both loops |
| GraphRegistryProofs!TypeCorrect | types |
| ...!TrackingNeverRunsAhead | `TrackedGraphsExist` |
| ...!RefusalsAreAtomic | `RefusalsKeepTheCatalogue` |
| ...!CatalogImplemented | refinement of GraphCatalog while `careful` holds |
| RdfInsertProofs!NoDanglingEdges | `GraphIsClosed` |
| ...!ScopesNeverMeet | `ScopesAreNotReused` |
| ...!CountsAreExact | `RepliesAddUp` |
| ...!RetriesComplete | `RetryCompletes`: failures, repetitions and the order of statements leave no trace |
| ...!TriplesKept | `EveryTripleIsKept`: from the graph of a document that is `WellMapped` every triple can be read back, with the value it has |
| ...!BatchesAgree | `BatchAgreesWithTriples`: grouped by subject or one by one, the same graph |
| DeleteAndQueryProofs!EdgesFollowTriples | `EdgesAreTriples` |
| ...!OthersStay | `OnlyMeantTriplesGo` |
| ...!NoOrphansLeft | `OrphansAreCleanedUp` |
| ...!RetriesComplete | `RetryCompletes` |
| ...!BasicQueriesAnswered | triple patterns, any number of them, over any set of triples: the translated query finds the solutions SPARQL defines |
| ...!OptionalQueriesAnswered | the same for OPTIONAL of such patterns between variables |
| ...!MinusQueriesAnswered | the same for MINUS, if the two sides share a variable |
| ...!QueriesAreAllowed | in these queries no name is out of scope and no clause where FalkorDB refuses it |
| ...!QueriesFollowCommands | while `plain` holds, what these queries find after any history of RDF.INSERT and RDF.DELETE is what SPARQL says of the asserted triples |
| TripleIndexesProofs!TypeCorrect | types |
| ...!MapsKept | `MapsMirror`: both directions of each index agree when no call is under way |
| ...!CountsKept | `CountsMatchEdges` |
| ...!SelectivityKept | `SelectivityIsAFraction` |
| LruCacheProofs!AnswersCurrent | `AnswersAreCurrent` |
| ...!CapacityKept | no cache ever holds more than its capacity (one, if that is 0) |
| ...!RecencyOrdered | refinement of RecencyOrder, by each of the three caches |
| JoinOrderOptimizerProofs!StatisticsFit | `BuiltStatisticsFit` |
| ...!RarestFirst | `PlansStartWithTheRarest` |
| ...!NoProducts | `PlansAvoidProducts` |

### The inductive invariants

* **Dictionary**: `IInv`. The maps are inverse only between insertions, so `MapInv` allows
  one exception, the pair of a thread that stands between its two inserts
  (`HalfInserted`). That there is at most one such thread, and that nobody can be
  looking, comes from `LockInv`: each lock's words say exactly who is at which place.
  `PhaseInv` says which operation may be at which place, and `RestoreInv` that a running
  import is alone and, until its entries are in, finds empty maps.
* **Bulk**: `PhaseInv` (a batch is full only while its query is out), `ReadInv` (sent and
  waiting lines are the ones passed; `last_successful_line` is not past the reading) and
  `LoadInv` (no errors means that what was sent is in the graph; a reply of statistics
  means that all was sent). `CountsAreHonest` strengthens them, for a rejected batch is
  counted by its triples, and those are at least as many as its statements (`BatchFacts`): what has a statement
  is the subject of a triple, also when all that is left of a list is the array (`SubjectsOfData`).
* **Registry**: `IInv`. The refinement needs that untracked names have no triples as long as every step was careful
  (`UntrackedIsEmpty`), that a graph that is not there has none (`TriplesAreStored`), and one URI per prefix (`OneUri`). The two action properties go call by call: each call that fails stops its command, and what the
  calls before it did is all that an error may have changed.
* **Insert**: `PlanIsClosed` with `GraphIsClosed` (every statement still to be executed is
  closed in itself); `SeenInv` (every scope seen is below the counter); `CountInv`
  (executed + errors + statements left = subjects), which rests on the sets being finite.
  For what becomes of the data, `KeptInv`: what is left of the plan is of one of the `Batches`, and without errors
  the rest of that batch is in the graph (`PlanInv`, `AnswerInv`); the graph is what it was before the first try and some of
  what the statements make, nothing else (`GrownInv`), for a document without blank nodes of its own is parsed
  to the same triples again (`ParsedAnew`). That statements do not undo each other is because each sets properties of its own
  subject only (`OthersHold`). `TriplesKept` then follows the passes over the data: `HeadsAreStarts` (no triple
  but those of a list leads into its middle), `ArrayWritten` (two lists never meet in one name), `AllKept` case by case.
  `TripleByTripleMerges` gives the fold over a document in closed form, `FlatAgrees` the same for the batch.
* **Delete**: `GraphInv` and `EdgeInv`, of which the step that matters is
  `MatchingMeant`: for a pattern read as meant, the edges its query matches are those of
  the triples it means. `CleanInv` says that no node is isolated after the clean-up.
  `RetryInv` says where a command that failed stands (before its first query, or after
  it), and `DeletingTwice` that the first query repeated does nothing more.

* **Dictionary, refinement**: a call has no answer until the section that fixes it (`AskedInv`), and that
  section is the instant at which the abstract call takes effect: the lookup, for a call that finds its IRI
  or only reads; the first of the two inserts, for one that adds; what import and clear write, for them. The lemmas go through the operations one
  by one; `MapInv` is what makes the map injective.
* **Bulk, refinement**: `QueryInv` (a batch at GRAPH.QUERY is full or the file is read) and `ParseInv` (of a file
  that is parsed whole, nothing is sent before all of it is parsed, and nothing at all if it does not parse).
* **Indexes**: `PhaseInv` says in which sections a thread can stand and which comes next, `OverlapInv` and
  `DisturbInv` that calls which overlap have been recorded in `tangled` and `disturbed`. `MirrorInv` then explains
  every difference of two maps by a thread that stands between its two sections (`GetsTypeOrLosesSubject`,
  `LosesType`), and `TypesUnderway` keeps these threads' promises from each other. `SumsInv` is the same for numbers: an edge
  count and the threads about to raise it are at least the edges and the threads about to lower it (equal
  without a repeated edge), and the total is the sum of what is `Settled` of each count, plus the
  threads that still have to lower it. From the last of these a selectivity's count is never above its total.
* **Caches**: `EntriesAreCurrent`, each entry is what was stored last under the text it carries. `CapacityKept`
  rests on the least recently used entry being in the map (`LeastRank`). The refinement adds `RankInv`: no two entries
  of a cache were used last at the same time, and none later than now. So the entry `evict_lru` finds is the one that is last in
  the order (`EvictOrders`), whichever the search takes first. `Becomes` says for a single map what a step may make of it;
  operation by operation every step is that for its cache, and for the two other caches nothing.
* **Collector**: `ClearInv` (a clear that tears nothing runs alone, and every field it has passed is empty); otherwise
  `EdgeInv` (a triple's calls begun are those ended and those running, its edges those ended and those running past
  their edge, the count the sum of those ended), `NodeInv` (the nodes of an edge are in the sets) and `BuildInv`:
  each number read so far lies between what was ended when the build began and what is begun now, and
  the count, read first, is covered by everything read after it. The order of the sections in
  add_triple (count last) and in build (count first) is used in exactly this place.
* **Optimizer**: `NumbersInv` (the numbers of any statistics, torn or not, are numbers, and frequencies are of predicates there
  are), so that every estimate is a fraction (`EstimateFits`), and `PlanInv` (a plan is what the present
  statistics give for the present patterns). That the two orders exist, which the model chooses by what they satisfy, is
  `GreedyExists` and `SortedExists`: of finitely many fractions one is first (`FirstExists`, for `Earlier` is transitive and
  total), and what is taken out one by one ends as a permutation (`TakingOut`, `TakesAll`). A product would then be
  a pattern chosen before one that shares a variable and costs, by the factor of ten, less (`SharingIsCheaper`); statistics
  built in peace give a predicate's count exactly (`FrequencyIsExact`).

* **Queries**: no invariant but a chain of equations, of which each link is a lemma about one side. The reference joins the
  patterns one after the other; `BgpSolved` gives the closed form, the maps of all the variables that make every
  pattern a triple (`SolutionsAt`). MATCH extends rows one pattern after the other; `RowsMatched` is its closed form, one node
  per name (`HopsFor`). `Describes` is what the translator keeps to while it goes through the patterns: the parts it has
  pushed are those patterns with names for the constants, the condition pushed for each of these names says which IRI it is, and no name is given
  twice (`cs`, from names to IRIs). So the rows left by the conditions are the solutions with the constants' names added
  (`RowsAssigned`), and dropping those names is one to one (`AssignmentsAreSolutions`). This is where `next_var` matters: a
  name given twice would join two constants. For OPTIONAL, `OptionalShown` follows a row with and without a counterpart, null for
  each new variable; for MINUS, `RemovedAreTaken` follows the condition NOT EXISTS through the rows (`NothingJoins`).
  `QueriesFollowCommands` composes this with `EdgesFollowTriples`: there the graph is what the two commands left, whichever of their
  queries failed.
  The hypotheses are what the code needs: constants are IRIs and no variable has a made-up name (`IsBasic`);
  the patterns of an OPTIONAL and of the right side of a MINUS have no constants but their predicates (`IsBare`), since the conditions of
  the former are dropped or given to the wrong clause and those of the latter are dropped; the sides of a MINUS share a variable, since
  NOT EXISTS of something unrelated takes everything away where SPARQL takes nothing.

Sums over finite sets (`SumOf`) are folds of the community modules. Their facts, such as that a sum is the sum of
the sums of its parts, are proved by induction over the subsets of the set, as the existence of a smallest
counterexample (`WFMin`). `Cell`, the walk along a list, is a recursive function over the numbers; that it has
the values its definition says (`CellSteps`) is proved in the same way (`SetInduction`).

### What only TLC shows

* Liveness: `EveryCallReturns`, both `CommandReplies`. Fairness and ENABLED are out of the
  prover's reach.
* Queries beyond triple patterns, OPTIONAL and MINUS of them: FILTER, BIND, VALUES, UNION, operators inside of operators, solution
  modifiers, and with them `AnswersAreSolutions` and `FaithfulQueriesAreAccepted` as the runs state them. `Process`
  and `Value` recurse over patterns and expressions. `AnswersAreSolutions` is about sets of rows and what becomes of them on the way to the
  reply; the theorems are about the rows the clauses find.
* Everything about documents. The readers and the writers recurse over texts and are RECURSIVE operators.

## 5. Disagreements

Two are runs, with TLC's counterexample:

* `insert_endless`: nothing stops the walk along a cyclic rdf:rest, which holds Redis's
  thread and fills memory (cypher.rs:325; COMMANDS.md:141). RDF.BULK_INSERT has the same walk in every batch (rdf_bulk_insert.rs:353).
* `query_types`: a type is kept as a label and looked for as an edge, so that
  `SELECT * WHERE { ?s a <...Person> }` finds nothing (rdf_query.rs:355; cypher.rs:62; translator.rs:552).

Five are properties of the modules that do not hold, to be checked with one more line in the
configuration of the component:

* `StopsWhenTold` (BulkInsert): STOPONERROR and MAXERRORS make the closure return an error, and
  stream_ntriples records it and reads on (rdf_bulk_insert.rs:297; README.md:151-152).
* `ResumeCompletes` (BulkInsert): `last_successful_line` moves past batches that failed
  (rdf_bulk_insert.rs:290; its own comment at :105 and README.md:150).
* `MultipleValuesAreKept` (RdfInsert): of several values of one name the last stays, where the documentation has an
  array of all (cypher.rs:574; RDF_MAPPING.md:145-160).
* `MeantTriplesGo` (RdfDelete): no query of RDF.DELETE removes a property or a label, so that the documented deletion of a triple with a
  literal, or of all triples of a subject, leaves literals and types (rdf_delete.rs:564; COMMANDS.md:445, 449).
* `OrphansLostAnEdge` (RdfDelete): ORPHANS deletes every node without an edge, not those the deletion left
  without one (rdf_delete.rs:577; README.md:201).

Others were met while modelling. The models behave as the code does, and the
properties exclude the case by name.

Storage and commands:

* A list imported into a dictionary in use can leave one id naming two IRIs
  (dictionary.rs:153): `RestoreOnly`.
* Overlapping calls that add to and remove from one subject leave the type index's maps
  different for good (index.rs:172), a repeated triple counts twice (index.rs:309), a
  second namespace leaves the first entry behind (index.rs:44), and a selectivity can
  exceed 1 (index.rs:358): `tangled`, `repeated`, `moved`, `disturbed`.
* When RDF.GRAPH DROP's SREM fails, its graph is gone and its name still listed (rdf_graph.rs:118): `RefusedDrop`. The next
  query that names it makes it again, empty.
* RDF.GRAPH DROP answers OK when GRAPH.DELETE or a DEL failed (COMMANDS.md:49), LIST does not show graphs
  that INSERT made (COMMANDS.md:70), and the glob of a graph's prefixes covers other graphs
  with a colon or a bracket in their names: `careful`, `Covers`.
* After a restart a Turtle document's blank nodes can be those of a stored one
  (blank_node.rs:10): `seen` is reset by `Restart`. A Turtle document sent again makes new
  blank nodes: `RetryCompletes` is about documents without them.
* Predicates that share a local name share a property, a list with two references loses its content, an rdf:type with another object
  than an IRI leaves nothing: `WellMapped`.
* ATOMIC joins statements that each declare `s`; whether FalkorDB takes such a query cannot
  be told from this repository. The model lets it succeed or fail.
* RDF.DELETE rewrites full IRIs whose
  scheme is a bound prefix, ignores a predicate that is no IRI, matches nothing with GRAPH, and deletes
  objects labelled Literal: `ReadAsMeant`.

Queries, outside of `Faithful` or of the edges:

* A variable predicate is never bound to anything: the documented `SELECT ?s ?p ?o WHERE { ?s ?p ?o }`
  (COMMANDS.md:407) returns a name that no clause defines. Literals are properties and never nodes, so that
  no pattern finds one.
* LIMIT is written before SKIP. Conditions of an OPTIONAL's and of a MINUS's right side are dropped, those of what stands
  before an OPTIONAL are given to it, a sub-select's variables are not hidden, a node is compared with a string when
  a variable is compared with an IRI.
* `parse_value` has no maps, and RETURN builds maps: SELECT through RDF.QUERY answers literals.
  `to_term`'s case for maps has no blank nodes: a blank node is answered as an IRI (executor.rs:203).
* An answer that arrives after the time limit is thrown away and is an error.
* The optimizer looks predicates up by `hash_iri`, and the dictionary numbers them otherwise: statistics of ids
  it does not know cost 0, and the plan is the query's own order (optimizer.rs:222): `IdsAreHashes`. It takes
  every selectivity below a ten-thousandth for one (optimizer.rs:343), so that among
  predicates that rare any may come first: `PlansStartWithTheRarest` excepts them.
* Two queries that differ in the blanks of a string literal only share a cached plan (cache.rs:327); a cache of
  capacity 0 holds one entry; a clear of the collector that overlaps another call leaves its
  fields belonging to different data for good (`torn`).

Documents, outside of `WellWritten` and of what the authors write:

* A document that comes without a FORMAT is never taken for another one, except lines with a `\u` escape that are taken for
  Turtle for a `;` or a `,` in a literal: the Turtle lexer makes a `u` of it (lexer.rs:343): `IsUnderstood`. Turtle
  without a prefix may be taken for N-Triples, and N-Quads with a graph are read by the
  reader of N-Triples: both are refused (`MustBeTaken` says what is not). The guess slices a line at its fifth byte
  (rdf_insert.rs:56), which panics inside of a character of several bytes; atoms have no bytes, and the model no such step.
* A label `_:0` and the document's first anonymous node get the same scoped label (turtle/parser.rs:541):
  the instance's labels are not numbers. A property list alone (`[ ... ] .`) is refused.
* The serializers write local names and numbers that end in a dot as they are, a TriG statement of the default
  graph left open before a GRAPH block, nothing of prefixes added behind the header, and no
  datatype xsd:string; a double in short notation comes back as a decimal, and numbers are printed anew. `NQuadsWriter`'s
  write_quad drops the graph. Characters escaped in an IRI are not read back.
* JSON-LD: everything under `@graph` is passed over by the reader, though the exporter always writes it and the serializer
  does for more than one node (`UnderGraph`); only named graphs give a document that begins with a comma (`ReadsAsJson`);
  a typed value loses its datatype, an array of plain values is an error, the properties of a nested node with an `@id` are dropped
  (conversion.rs:486 expects them), a frame is never expanded (jsonld/parser.rs:493 says it is), `@base` applies only with a
  context, of two members that expand to one property the last wins, a term that uses a prefix sorted behind it is not expanded, and
  compaction unwraps a list of one. The author writes documents without these.
* Results: CSV keeps values only; XML has no control characters, and a carriage return comes back as a newline;
  RDF/JSON writes a blank node with `_:` as a subject and without as an object. The client reads either.

## 6. What is not modelled

* Argument parsing beyond the refusals that matter to state, and the file-path check of
  RDF.BULK_INSERT: they refuse before anything is read or written.
* Escaping of Cypher and the layout of what is written, ASK's formats, failing output streams. In RdfInsert and
  SparqlQuery a document is the sequence of triples it parses to and a Cypher statement is its effect.
* FalkorDB and Redis are external: MERGE, SET, DELETE, MATCH and SADD, SREM, SET, DEL, SCAN do what they say or fail
  without effect. (GRAPH.QUERY may leave an empty graph behind when it fails.) Each of these calls may fail in GraphRegistry.
* The grammars of rio_turtle, spargebra and serde_json. The operators `Rio...` of `RdfReaders` and the JSON values of `JsonLdProcessor` are as much of them as the
  writers' output needs.
* Characters: bytes, multi-byte characters, escapes of the readers other than those the writers use, IRI references that
  begin with a slash, the depth of 128 at which the variables of a pattern are no longer collected.
* Memory exhaustion, panics and the locks they would poison: no code modelled here panics while
  it holds a lock (in a release build, where arithmetic wraps).
* Readers of the indexes that take one lock, get_hint of an index, which only chooses (the optimizer's use of it is in
  JoinOrderOptimizer), the setters of Statistics, which have no caller, the estimate total_cost.
* CONSTRUCT and DESCRIBE beyond their refusal by the translator; the extraction of prefixes from a query.
* The namespace store (sequential, used by no command), DeleteGenerator (used by no command, RDF.DELETE has its own queries),
  `schema.rs`, GraphBuilder, RDF terms as such (immutable values, members of small sets here), module loading, RDF.PARSE
  (answers OK and does nothing), tests and benchmarks.

## 7. Plan

Done, the state that matters most first: IriDictionary (AtomicDictionary), BulkInsert (BatchedLoad),
GraphRegistry (GraphCatalog), GraphMapping, RdfInsert and RdfDelete (both composed with GraphMapping), TripleIndexes;
then SparqlQuery (composed with GraphMapping, against SparqlAlgebra), StatisticsCollector with JoinOrderOptimizer, LruCache
(RecencyOrder), and RdfDocuments with the readers, the writers, JSON-LD, the result formats and RDF.INSERT's guess.

The proofs cover every component whose state outlives a call, and the translator as far as it does not recurse (section 4). Left, in this order:

1. **DeleteGenerator** beside RDF.DELETE's own queries: do they delete the same?
2. **RDF.BULK_INSERT** over texts: its choice of a reader by the file's extension, on top of RdfDocuments.
