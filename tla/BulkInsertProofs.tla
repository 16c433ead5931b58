-------------------------- MODULE BulkInsertProofs --------------------------
(***************************************************************************)
(* Proofs about BulkInsert, for every set of files, triples, batch sizes,  *)
(* limits and number of commands: its invariants, and that it implements   *)
(* BatchedLoad.                                                            *)
(***************************************************************************)
EXTENDS BulkInsert, TLAPS, FiniteSetTheorems, FunctionTheorems,
        WellFoundedInduction

(* Which loop the command is in, and what that says about its batch.       *)
PhaseInv ==
    /\ phase \in {"lines", "query"} /\ args.format = "line_based"
         => Cardinality(batch) <= args.batch_size
    /\ phase = "lines" => /\ args.format = "line_based"
                          /\ Cardinality(batch) < args.batch_size
    /\ phase \in {"parse", "chunks"} => args.format = "whole_file" /\ batch = {}
    /\ phase = "query" => args.format # "jsonld" /\ batch # {}
    /\ phase # "idle" => args.batch_size > 0 /\ outcome = "none"

(* What was sent, and what waits, against the line the reader is at.       *)
ReadInv ==
    /\ phase \in {"lines", "query"} /\ args.format = "line_based"
         => sent \cup batch = Passed /\ sent \cap batch = {}
    /\ stats.last_successful_line <= line_number
    /\ args.format # "line_based" => stats.last_successful_line = 0
    /\ phase = "parse" => sent = {}

(* A statistics reply comes after the last line, and without errors every  *)
(* line sent is in the graph.                                              *)
LoadInv ==
    /\ outcome = "stats" => sent = Wanted
    /\ stats.errors = 0 => TriplesAt(sent) \subseteq graph

(* What is at GRAPH.QUERY: a full batch or the rest of the file; of a file *)
(* that was to be parsed whole, the next chunk.                            *)
QueryInv ==
    phase = "query" =>
        IF args.format = "line_based"
        THEN Cardinality(batch) = args.batch_size \/ line_number = Len(file)
        ELSE IsChunk(batch)

(* A file parsed whole is sent from only after all of it was parsed.       *)
ParseInv ==
    /\ phase \in {"chunks", "query"} /\ args.format = "whole_file" => Parses
    /\ args.format = "whole_file" /\ ~Parses => sent = {}

IInv ==
    /\ TypeOK
    /\ PhaseInv
    /\ ReadInv
    /\ LastLineIsSent
    /\ LoadInv
    /\ CountsAreHonest
    /\ QueryInv
    /\ ParseInv
-----------------------------------------------------------------------------
(* Lines of the file have a last one.                                      *)
LEMMA LastPosition ==
    ASSUME NEW n \in Nat, NEW ks \in SUBSET (1 .. n), ks # {}
    PROVE  \E k \in ks : \A j \in ks : j <= k
<1> DEFINE after == {n - k : k \in ks}
<1>1. after \subseteq Nat /\ after # {}
  <2>1. \A k \in ks : k \in 1 .. n
    OBVIOUS
  <2>2. \A k \in ks : n - k \in Nat
    BY <2>1
  <2>3. QED
    BY <2>2
<1>2. PICK m \in after : \A i \in after : ~(<<i, m>> \in OpToRel(<, Nat))
  <2> HIDE DEF after
  <2>1. QED
    BY <1>1, NatLessThanWellFounded, WFMin
<1>3. PICK k \in ks : m = n - k
  OBVIOUS
<1>4. ASSUME NEW j \in ks PROVE j <= k
  <2>1. n - j \in after /\ j \in 1 .. n /\ k \in 1 .. n
    OBVIOUS
  <2>2. n - j \in Nat /\ n - k \in Nat
    BY <2>1
  <2>3. ~(<<n - j, n - k>> \in OpToRel(<, Nat))
    BY <1>2, <1>3, <2>1
  <2>4. ~(n - j < n - k)
    <3> HIDE DEF after
    <3>1. QED
      BY <2>2, <2>3 DEF OpToRel
  <2>5. QED
    BY <2>1, <2>4
<1>5. QED
  BY <1>4

(* The subject that is recorded for a list's head is that of a triple.     *)
LEMMA HeadsAreSubjects ==
    ASSUME NEW n \in Nat, NEW data, DOMAIN data \subseteq 1 .. n,
           NEW c \in DOMAIN Heads(data)
    PROVE  \E k \in DOMAIN data : Heads(data)[c].s = data[k].s
<1> DEFINE at == {k \in DOMAIN data :
                    data[k].o = c /\ data[k].p \notin {RdfFirst, RdfRest}}
           last == LastOf(data, at)
<1>1. at # {} /\ Heads(data)[c].s = last.s
  BY DEF Heads
<1>2. \E k \in at : \A j \in at : j <= k
  <2>1. at \in SUBSET (1 .. n)
    OBVIOUS
  <2> HIDE DEF at
  <2>2. QED
    BY <1>1, <2>1, LastPosition
<1>3. \E k \in at : last = data[k]
  <2> HIDE DEF at
  <2>1. QED
    BY <1>2 DEF LastOf
<1> HIDE DEF last
<1>4. QED
  BY <1>1, <1>3

(* Whatever the batch, a statement is for the subject of one of its        *)
(* triples, and there is one: a list that is taken out leaves the subject  *)
(* that points to its head.                                                *)
LEMMA SubjectsOfData ==
    ASSUME NEW n \in Nat, NEW data, DOMAIN data \subseteq 1 .. n
    PROVE  /\ \A s \in Subjects(data) : \E k \in DOMAIN data : s = data[k].s
           /\ DOMAIN data # {} => Subjects(data) # {}
<1>1. Remaining(data) \subseteq DOMAIN data /\ Lists(data) \subseteq DOMAIN Heads(data)
  BY DEF Remaining, Lists
<1>2. \A s \in Subjects(data) : \E k \in DOMAIN data : s = data[k].s
  <2>1. SUFFICES ASSUME NEW s \in Subjects(data)
                 PROVE  \E k \in DOMAIN data : s = data[k].s
    OBVIOUS
  <2>2. CASE s \in SubjectsOfTriples(data)
    BY <1>1, <2>2 DEF SubjectsOfTriples
  <2>3. CASE \E c \in Lists(data) : s = Heads(data)[c].s
    BY <1>1, <2>3, HeadsAreSubjects
  <2>4. QED
    BY <2>1, <2>2, <2>3 DEF Subjects
<1>3. CASE Lists(data) = {}
  <2>1. ListCells(data) = {}
    BY <1>3 DEF ListCells
  <2>2. Remaining(data) = DOMAIN data
    BY <2>1 DEF Remaining
  <2>3. QED
    BY <1>2, <2>2 DEF Subjects, SubjectsOfTriples
<1>4. CASE Lists(data) # {}
  BY <1>2, <1>4 DEF Subjects
<1>5. QED
  BY <1>3, <1>4

(* A batch is finite, and generates at least one statement and at most one *)
(* per triple.                                                             *)
LEMMA BatchFacts ==
    ASSUME TypeOK, NEW b \in SUBSET TripleLines
    PROVE  /\ IsFiniteSet(b)
           /\ Cardinality(b) \in Nat /\ Statements(b) \in Nat
           /\ Statements(b) <= Cardinality(b)
           /\ b # {} => Statements(b) > 0 /\ Cardinality(b) > 0
<1> DEFINE D == BatchData(b)
           F == [n \in b |-> D[n].s]
           S == {D[n].s : n \in b}
<1>1. file \in Seq(Lines) /\ Len(file) \in Nat /\ DOMAIN file = 1 .. Len(file)
  BY FilesAssumption DEF TypeOK
<1>2. IsFiniteSet(DOMAIN file)
  BY <1>1, FS_Interval
<1>3. IsFiniteSet(b)
  BY <1>2, FS_Subset DEF TripleLines
<1>4. DOMAIN D = b /\ b \subseteq 1 .. Len(file)
  BY <1>1 DEF BatchData, TripleLines
<1>5. F \in Surjection(b, S)
  <2>1. F \in [b -> S] /\ \A y \in S : \E n \in b : F[n] = y
    OBVIOUS
  <2>2. QED
    BY <2>1, Fun_IsSurj
<1>6. IsFiniteSet(S) /\ Cardinality(S) <= Cardinality(b)
  <2> HIDE DEF S, F
  <2>1. QED
    BY <1>3, <1>5, FS_Surjection
<1>7. Subjects(D) \subseteq S /\ (b # {} => Subjects(D) # {})
  <2> HIDE DEF D
  <2>1. QED
    BY <1>1, <1>4, SubjectsOfData
<1>8. IsFiniteSet(Subjects(D)) /\ Cardinality(Subjects(D)) <= Cardinality(S)
  <2> HIDE DEF S, D
  <2>1. QED
    BY <1>6, <1>7, FS_Subset
<1>9. Statements(b) = Cardinality(Subjects(D))
  BY DEF Statements
<1>10. QED
  <2> HIDE DEF S, D
  <2>1. /\ Cardinality(b) \in Nat /\ Cardinality(S) \in Nat
        /\ Cardinality(Subjects(D)) \in Nat
    BY <1>3, <1>6, <1>8, FS_CardinalityType
  <2>2. b # {} => Cardinality(b) # 0 /\ Cardinality(Subjects(D)) # 0
    BY <1>3, <1>7, <1>8, FS_EmptySet
  <2>3. QED
    BY <1>3, <1>6, <1>8, <1>9, <2>1, <2>2

(* The file is a sequence, and a line holds a triple or one of the three   *)
(* other kinds of content.                                                 *)
LEMMA FileFacts ==
    ASSUME TypeOK
    PROVE  /\ Len(file) \in Nat /\ DOMAIN file = 1 .. Len(file)
           /\ \A n \in DOMAIN file : file[n] \in Lines
           /\ \A n \in TripleLines : n \in 1 .. Len(file) /\ file[n] \in Triples
           /\ {"blank", "bad", "unreadable"} \cap Triples = {}
BY FilesAssumption, TriplesAssumption DEF TypeOK, TripleLines, IsTriple

LEMMA InitialArguments ==
    ASSUME Init PROVE args \in Arguments /\ Len(file) \in Nat
<1>1. PICK f \in Formats : TRUE
  BY ArgumentsAssumption
<1>2. PICK b \in BatchSizes : TRUE
  BY ArgumentsAssumption
<1>3. PICK e \in ErrorLimits : TRUE
  BY ArgumentsAssumption
<1>4. Len(file) \in Nat /\ 0 \in 0 .. Len(file)
  <2>1. file \in Seq(Lines)
    BY FilesAssumption DEF Init
  <2>2. Len(file) \in Nat
    BY <2>1
  <2>3. QED
    BY <2>2
<1>5. [format |-> f, skip |-> 0, batch_size |-> b, max_errors |-> e,
       continue_on_error |-> TRUE] \in Arguments
  BY <1>4 DEF Arguments
<1>6. Arguments # {}
  BY <1>5
<1>7. args = CHOOSE a \in Arguments : TRUE
  BY DEF Init
<1>8. QED
  BY <1>4, <1>6, <1>7

LEMMA InitInv ==
    ASSUME Init PROVE IInv
<1>1. TypeOK
  <2>1. stats \in Stats
    BY DEF Init, NoStats, Stats
  <2>2. batch \subseteq TripleLines /\ sent \subseteq TripleLines
    BY DEF Init
  <2>3. args \in Arguments /\ 0 \in 0 .. Len(file) /\ 0 \in 0 .. MaxCalls
    BY InitialArguments, ArgumentsAssumption
  <2>4. QED
    BY <2>1, <2>2, <2>3 DEF Init, TypeOK
<1>2. PhaseInv /\ ReadInv /\ LoadInv /\ QueryInv /\ ParseInv
  BY DEF Init, PhaseInv, ReadInv, LoadInv, NoStats, TriplesAt, QueryInv, ParseInv
<1>3. LastLineIsSent
  <2>1. \A n \in Wanted : ~(n <= 0)
    BY <1>1, FileFacts DEF Wanted
  <2>2. QED
    BY <2>1 DEF Init, LastLineIsSent, NoStats
<1>4. CountsAreHonest
  BY DEF Init, CountsAreHonest, NoStats
<1>5. QED
  BY <1>1, <1>2, <1>3, <1>4 DEF IInv
-----------------------------------------------------------------------------
LEMMA StatsUpdate ==
    ASSUME NEW s \in Stats, NEW x \in Nat, NEW e \in Nat, NEW b \in Nat, NEW l \in Nat
    PROVE  /\ [s EXCEPT !.statements_executed = x, !.errors = e,
                        !.batches_processed = b] \in Stats
           /\ [s EXCEPT !.statements_executed = x, !.errors = e,
                        !.batches_processed = b, !.last_successful_line = l] \in Stats
BY DEF Stats

(* What the answer of a query does to the statistics: a rejected batch     *)
(* adds its triples to the errors; otherwise the statements count, and the *)
(* line reader records its line.                                           *)
LEMMA AnswerStats ==
    ASSUME TypeOK, NEW executed \in Nat, NEW errors \in Nat,
           Answer(executed, errors)
    PROVE  /\ stats' \in Stats
           /\ \/ /\ stats'.errors = stats.errors + Cardinality(batch)
                 /\ stats'.statements_executed = stats.statements_executed
                 /\ stats'.last_successful_line = stats.last_successful_line
              \/ /\ stats'.errors = stats.errors + errors
                 /\ stats'.statements_executed =
                       stats.statements_executed + executed
                 /\ \/ args.format # "line_based" /\
                         stats'.last_successful_line = stats.last_successful_line
                    \/ args.format = "line_based" /\
                         stats'.last_successful_line = line_number
<1>1. Cardinality(batch) \in Nat /\ stats \in Stats /\ line_number \in Nat
  <2>1. Len(file) \in Nat
    BY FileFacts
  <2>2. QED
    BY <2>1, BatchFacts DEF TypeOK
<1>2. \/ args.format = "line_based" /\ stats' = Rejected(stats)
      \/ args.format = "line_based" /\ stats' = Processed(stats, executed, errors)
      \/ args.format # "line_based" /\ stats' = ChunkStats(executed, errors)
  BY DEF Answer, StreamStats
<1>3. /\ stats.errors \in Nat /\ stats.statements_executed \in Nat
      /\ stats.batches_processed \in Nat
  BY <1>1 DEF Stats
<1>4. CASE args.format = "line_based" /\ stats' = Rejected(stats)
  <2>1. stats' = [stats EXCEPT !.errors = @ + Cardinality(batch)]
    BY <1>4 DEF Rejected
  <2>2. stats' \in Stats
    BY <1>1, <1>3, <2>1 DEF Stats
  <2>3. QED
    BY <1>1, <2>1, <2>2 DEF Stats
<1>5. CASE args.format = "line_based" /\ stats' = Processed(stats, executed, errors)
  <2>1. stats' = [stats EXCEPT !.statements_executed = @ + executed,
                               !.errors = @ + errors,
                               !.batches_processed = @ + 1,
                               !.last_successful_line = line_number]
    BY <1>5 DEF Processed
  <2>2. stats' \in Stats
    <3>1. /\ stats.statements_executed + executed \in Nat
          /\ stats.errors + errors \in Nat /\ stats.batches_processed + 1 \in Nat
      BY <1>3
    <3>2. QED
      BY <1>1, <2>1, <3>1, StatsUpdate
  <2>3. /\ stats'.errors = stats.errors + errors
        /\ stats'.statements_executed = stats.statements_executed + executed
        /\ stats'.last_successful_line = line_number
    BY <1>1, <2>1 DEF Stats
  <2>4. QED
    BY <1>5, <2>2, <2>3
<1>6. CASE args.format # "line_based" /\ stats' = ChunkStats(executed, errors)
  <2> DEFINE b == IF errors = 0 THEN 1 ELSE 0
  <2>1. b \in Nat
    OBVIOUS
  <2>2. stats' = [stats EXCEPT !.statements_executed = @ + executed,
                               !.errors = @ + errors, !.batches_processed = @ + b]
    BY <1>6 DEF ChunkStats
  <2> HIDE DEF b
  <2>3. stats' \in Stats
    <3>1. /\ stats.statements_executed + executed \in Nat
          /\ stats.errors + errors \in Nat /\ stats.batches_processed + b \in Nat
      BY <1>3, <2>1
    <3>2. QED
      BY <1>1, <2>2, <3>1, StatsUpdate
  <2>4. /\ stats'.errors = stats.errors + errors
        /\ stats'.statements_executed = stats.statements_executed + executed
        /\ stats'.last_successful_line = stats.last_successful_line
    BY <1>1, <2>2 DEF Stats
  <2>5. QED
    BY <1>6, <2>3, <2>4
<1>7. QED
  BY <1>2, <1>4, <1>5, <1>6

LEMMA TypeStep ==
    ASSUME IInv, [Next]_vars
    PROVE  TypeOK'
<1> USE DEF IInv, locals, history
<1>1. TypeOK
  OBVIOUS
<1>2. Len(file) \in Nat /\ {} \subseteq TripleLines
  BY FileFacts
<1>3. line_number < Len(file) => line_number + 1 \in 1 .. Len(file)
  BY <1>2 DEF TypeOK
<1>4. ASSUME NEW a \in Arguments, Call(a), phase' \in {"idle", "lines", "parse"},
             outcome' \in {"none", "error"}
      PROVE  TypeOK'
  BY <1>2, <1>4, ArgumentsAssumption
  DEF TypeOK, Call, NoStats, Stats, Arguments, TripleLines, IsTriple
<1>5. ASSUME NEW a \in Arguments, Begin(a) \/ Refuse(a) PROVE TypeOK'
  BY <1>4, <1>5 DEF Begin, Refuse, Reply
<1>6. CASE SkipLine \/ UnreadableLine \/ BlankLine
  BY <1>3, <1>6
  DEF TypeOK, SkipLine, UnreadableLine, BlankLine, Unskipped, NextLine, Reply,
      TripleLines, IsTriple, Arguments
<1>7. CASE BadLine
  <2>1. stats' \in Stats /\ failed' \in Nat
    <3>1. /\ stats \in Stats /\ stats' = [stats EXCEPT !.errors = @ + 1]
          /\ failed \in Nat /\ failed' = failed + 1
      BY <1>1, <1>7 DEF BadLine, TypeOK
    <3>2. stats' \in Stats
      BY <3>1 DEF Stats
    <3>3. QED
      BY <3>1, <3>2
  <2>2. /\ UNCHANGED <<file, graph, args, phase, batch, total_errors, outcome,
                       calls, sent, applied, chained>>
        /\ line_number' = line_number + 1 /\ line_number < Len(file)
    BY <1>7 DEF BadLine, Unskipped, NextLine
  <2>3. line_number' \in 0 .. Len(file')
    BY <1>1, <1>2, <2>2 DEF TypeOK
  <2>4. QED
    BY <1>1, <2>1, <2>2, <2>3 DEF TypeOK, TripleLines, IsTriple, Arguments
<1>8. CASE TripleLine
  <2>1. stats' \in Stats
    BY <1>8 DEF TripleLine, Stats, TypeOK
  <2>2. line_number + 1 \in TripleLines
    BY <1>3, <1>8, FileFacts
    DEF TripleLine, Unskipped, NextLine, ThisLine, TripleLines, IsTriple
  <2>3. QED
    BY <1>3, <1>8, <2>1, <2>2
    DEF TypeOK, TripleLine, Unskipped, NextLine, TripleLines, IsTriple, Arguments
<1>9. CASE LastBatch \/ EndOfFile \/ ParseFails \/ ChunksDone
  BY <1>9 DEF TypeOK, LastBatch, EndOfFile, ParseFails, ChunksDone, Reply,
              TripleLines, IsTriple, Arguments
<1>10. CASE ParseFile
  <2>1. Cardinality(TripleLines) \in Nat
    BY <1>1, BatchFacts
  <2>2. stats' \in Stats
    BY <1>10, <2>1 DEF ParseFile, Stats, TypeOK
  <2>3. QED
    BY <1>10, <2>2 DEF TypeOK, ParseFile, TripleLines, IsTriple, Arguments
<1>11. CASE NextChunk
  BY <1>11 DEF TypeOK, NextChunk, Unsent, TripleLines, IsTriple, Arguments
<1>12. ASSUME NEW executed \in Nat, NEW errors \in Nat, Answer(executed, errors),
              graph' \subseteq Triples
       PROVE  TypeOK'
  <2>1. Cardinality(batch) \in Nat
    BY <1>1, BatchFacts DEF TypeOK
  <2>2. stats' \in Stats /\ total_errors' \in Nat
    BY <1>1, <1>12, AnswerStats DEF Answer, TypeOK
  <2>3. applied' \in Nat /\ failed' \in Nat
    BY <1>12 DEF Answer, TypeOK
  <2>4. QED
    BY <1>12, <2>2, <2>3 DEF TypeOK, Answer, TripleLines, IsTriple, Arguments
<1>13. CASE Query
  <2>1. Statements(batch) \in Nat
    BY <1>1, BatchFacts DEF TypeOK
  <2>2. TriplesAt(batch) \subseteq Triples
    BY FileFacts DEF TriplesAt, TypeOK
  <2>3. QED
    BY <1>12, <1>13, <2>1, <2>2 DEF Query, QuerySucceeds, QueryFails, TypeOK
<1>14. CASE UNCHANGED vars
  BY <1>14 DEF TypeOK, vars, TripleLines, IsTriple, Arguments
<1>15. QED
  BY <1>5, <1>6, <1>7, <1>8, <1>9, <1>10, <1>11, <1>13, <1>14
  DEF Next, Step, Stream, Complete, WalkForEver,
      Terminating

(* One more triple makes a batch one larger.                               *)
LEMMA PushedBatch ==
    ASSUME TypeOK, TripleLine
    PROVE  /\ Cardinality(batch) \in Nat /\ Cardinality(batch') \in Nat
           /\ Cardinality(batch') <= Cardinality(batch) + 1
           /\ batch' # {}
<1>1. IsFiniteSet(batch) /\ Cardinality(batch) \in Nat
  BY BatchFacts DEF TypeOK
<1>2. batch' = batch \cup {line_number + 1}
  BY DEF TripleLine
<1>3. /\ IsFiniteSet(batch \cup {line_number + 1})
      /\ Cardinality(batch \cup {line_number + 1}) \in
            {Cardinality(batch), Cardinality(batch) + 1}
  BY <1>1, FS_AddElement
<1>4. batch \cup {line_number + 1} # {}
  OBVIOUS
<1>5. QED
  BY <1>1, <1>2, <1>3, <1>4

LEMMA PhaseStep ==
    ASSUME IInv, [Next]_vars
    PROVE  PhaseInv'
<1> USE DEF IInv, PhaseInv, locals, history
<1>1. TypeOK /\ TypeOK'
  BY TypeStep
<1>2. args.batch_size \in Nat /\ Cardinality({}) = 0
  BY <1>1, ArgumentsAssumption, FS_EmptySet DEF TypeOK, Arguments
<1>3. ASSUME NEW a \in Arguments, Begin(a) PROVE PhaseInv'
  <2>1. /\ a.batch_size \in Nat /\ a.batch_size > 0
        /\ a.format \in {"line_based", "whole_file"}
    BY <1>3, ArgumentsAssumption DEF Begin, Accepted, Arguments, AllFormats
  <2>2. args' = a /\ batch' = {} /\ outcome' = "none"
    BY <1>3 DEF Begin, Call
  <2>3. \/ a.format = "line_based" /\ phase' = "lines"
        \/ a.format = "whole_file" /\ phase' = "parse"
    BY <1>3, <2>1 DEF Begin
  <2>4. QED
    BY <1>2, <2>1, <2>2, <2>3
<1>4. ASSUME NEW a \in Arguments, Refuse(a) PROVE PhaseInv'
  BY <1>4 DEF Refuse, Reply
<1>5. CASE SkipLine \/ UnreadableLine \/ BlankLine \/ BadLine
  BY <1>5 DEF SkipLine, UnreadableLine, BlankLine, BadLine, Unskipped, NextLine, Reply
<1>6. CASE TripleLine
  <2>1. /\ phase = "lines" /\ args' = args /\ outcome' = outcome
        /\ phase' = IF Cardinality(batch') >= args.batch_size THEN "query" ELSE "lines"
    BY <1>6 DEF TripleLine, Unskipped, NextLine, IsFull
  <2>2. QED
    BY <1>1, <1>2, <1>6, <2>1, PushedBatch
<1>7. CASE LastBatch
  BY <1>7 DEF LastBatch, AtEnd
<1>8. CASE EndOfFile \/ ParseFails \/ ChunksDone
  BY <1>8 DEF EndOfFile, ParseFails, ChunksDone, Reply
<1>9. CASE ParseFile
  BY <1>9 DEF ParseFile
<1>10. CASE NextChunk
  BY <1>10 DEF NextChunk, IsChunk
<1>11. CASE Query
  <2>1. /\ phase = "query" /\ batch' = {} /\ args' = args /\ outcome' = outcome
        /\ \/ args.format = "line_based" /\ phase' = "lines"
           \/ args.format # "line_based" /\ phase' = "chunks"
    BY <1>11 DEF Query, QuerySucceeds, QueryFails, Answer
  <2>2. args.format \in AllFormats
    BY <1>1, ArgumentsAssumption DEF TypeOK, Arguments
  <2>3. QED
    BY <1>2, <2>1, <2>2 DEF AllFormats
<1>12. CASE UNCHANGED vars
  BY <1>12 DEF vars
<1>13. QED
  BY <1>3, <1>4, <1>5, <1>6, <1>7, <1>8, <1>9, <1>10, <1>11, <1>12
  DEF Next, Step, Stream, Complete, WalkForEver,
      Terminating

LEMMA CountsStep ==
    ASSUME IInv, [Next]_vars
    PROVE  CountsAreHonest'
<1> USE DEF IInv, CountsAreHonest, locals, history
<1>1. stats \in Stats /\ applied \in Nat /\ failed \in Nat
  BY DEF TypeOK
<1>2. ASSUME NEW a \in Arguments, Begin(a) \/ Refuse(a) PROVE CountsAreHonest'
  <2>1. stats' = NoStats /\ applied' = 0 /\ failed' = 0
    BY <1>2 DEF Begin, Refuse, Call
  <2>2. QED
    BY <2>1 DEF NoStats
<1>3. CASE \/ SkipLine \/ UnreadableLine \/ BlankLine \/ LastBatch \/ EndOfFile
           \/ ParseFails \/ NextChunk \/ ChunksDone
  BY <1>3 DEF SkipLine, UnreadableLine, BlankLine, LastBatch, EndOfFile,
              ParseFails, NextChunk, ChunksDone
<1>4. CASE BadLine \/ TripleLine \/ ParseFile
  BY <1>1, <1>4 DEF BadLine, TripleLine, ParseFile, Stats
<1>5. ASSUME NEW executed \in Nat, NEW errors \in Nat, Answer(executed, errors),
             errors <= Cardinality(batch)
      PROVE  CountsAreHonest'
  <2>1. Cardinality(batch) \in Nat
    BY BatchFacts DEF TypeOK
  <2>2. applied' = applied + executed /\ failed' = failed + errors
    BY <1>5 DEF Answer
  <2>3. \/ /\ stats'.errors = stats.errors + Cardinality(batch)
           /\ stats'.statements_executed = stats.statements_executed
        \/ /\ stats'.errors = stats.errors + errors
           /\ stats'.statements_executed = stats.statements_executed + executed
    BY <1>5, AnswerStats
  <2>4. stats.errors \in Nat /\ stats.statements_executed \in Nat
    BY <1>1 DEF Stats
  <2>5. QED
    BY <1>1, <1>5, <2>1, <2>2, <2>3, <2>4
<1>6. CASE Query
  <2>1. /\ Statements(batch) \in Nat /\ Cardinality(batch) \in Nat
        /\ Statements(batch) <= Cardinality(batch)
    BY BatchFacts DEF TypeOK
  <2>2. QED
    BY <1>5, <1>6, <2>1 DEF Query, QuerySucceeds, QueryFails
<1>7. CASE UNCHANGED vars
  BY <1>7 DEF vars
<1>8. QED
  BY <1>2, <1>3, <1>4, <1>6, <1>7 DEF Next, Step, Stream, Complete, WalkForEver,
      Terminating

LEMMA SameWanted ==
    ASSUME UNCHANGED <<file, args>>
    PROVE  Wanted' = Wanted /\ TripleLines' = TripleLines
BY DEF Wanted, TripleLines, IsTriple

(* Reading one more line passes that line, if it is one to load.           *)
LEMMA PassedNext ==
    ASSUME TypeOK, Unskipped, UNCHANGED <<file, args>>, args.format = "line_based"
    PROVE  /\ ThisLine \in Triples =>
                 /\ Passed' = Passed \cup {line_number + 1}
                 /\ line_number + 1 \notin Passed
           /\ ThisLine \notin Triples => Passed' = Passed
<1>1. /\ line_number \in Nat /\ args.skip \in Nat
      /\ line_number + 1 \in DOMAIN file /\ line_number + 1 > args.skip
      /\ line_number' = line_number + 1
      /\ \A n \in Wanted : n \in Nat
  BY FileFacts DEF TypeOK, Unskipped, NextLine, Arguments, Wanted
<1>2. Wanted' = Wanted
  BY SameWanted
<1>3. line_number + 1 \in Wanted <=> ThisLine \in Triples
  BY <1>1 DEF Wanted, TripleLines, IsTriple, ThisLine
<1>4. Passed' = {n \in Wanted : n <= line_number + 1}
  BY <1>1, <1>2 DEF Passed
<1>5. \A n \in Wanted : n <= line_number + 1 <=> n <= line_number \/ n = line_number + 1
  BY <1>1
<1>6. line_number + 1 \notin Passed
  BY <1>1 DEF Passed
<1>7. QED
  BY <1>3, <1>4, <1>5, <1>6 DEF Passed

(* Skipping a line passes none.                                            *)
LEMMA PassedSkip ==
    ASSUME TypeOK, SkipLine, args.format = "line_based"
    PROVE  Passed' = Passed
<1>1. /\ line_number \in Nat /\ args.skip \in Nat
      /\ line_number' = line_number + 1 /\ line_number + 1 <= args.skip
      /\ \A n \in Wanted : n \in Nat /\ n > args.skip
  BY FileFacts DEF TypeOK, SkipLine, NextLine, Arguments, Wanted
<1>2. Wanted' = Wanted
  BY SameWanted DEF SkipLine
<1>3. \A n \in Wanted : ~(n <= line_number + 1) /\ ~(n <= line_number)
  BY <1>1
<1>4. Passed' = {n \in Wanted : n <= line_number + 1}
  BY <1>1, <1>2 DEF Passed
<1>5. QED
  BY <1>3, <1>4 DEF Passed

LEMMA ReadStep ==
    ASSUME IInv, [Next]_vars
    PROVE  ReadInv' /\ LastLineIsSent'
<1>1. TypeOK /\ TypeOK' /\ PhaseInv
  BY TypeStep DEF IInv
<1>2. /\ line_number \in Nat /\ stats.last_successful_line \in Nat
      /\ \A n \in Wanted : n \in Nat /\ n > 0 /\ n \in TripleLines
  <2>1. Len(file) \in Nat /\ line_number \in 0 .. Len(file) /\ stats \in Stats
    BY <1>1, FileFacts DEF TypeOK
  <2>2. line_number \in Nat
    BY <2>1
  <2>3. stats.last_successful_line \in Nat
    BY <2>1 DEF Stats
  <2>4. \A n \in TripleLines : n \in Nat /\ n > 0
    BY <1>1, <2>1, FileFacts
  <2>5. QED
    BY <2>2, <2>3, <2>4 DEF Wanted
<1> USE DEF IInv, ReadInv, locals, history
<1>3. ASSUME NEW a \in Arguments, Begin(a) \/ Refuse(a)
      PROVE  ReadInv' /\ LastLineIsSent'
  <2>1. stats' = NoStats /\ line_number' = 0 /\ sent' = {} /\ batch' = {}
    BY <1>3 DEF Begin, Refuse, Call
  <2>2. stats'.last_successful_line = 0
    BY <2>1 DEF NoStats
  <2>3. \A n \in Wanted' : n \in Nat /\ ~(n <= 0)
    <3>1. \A n \in TripleLines' : n \in 1 .. Len(file')
      BY <1>1, FilesAssumption DEF TypeOK, TripleLines
    <3>2. QED
      BY <3>1 DEF Wanted
  <2>4. Passed' = {}
    BY <2>1, <2>3 DEF Passed
  <2>5. ReadInv'
    BY <2>1, <2>2, <2>4
  <2>6. LastLineIsSent'
    BY <2>2, <2>3 DEF LastLineIsSent
  <2>7. QED
    BY <2>5, <2>6
<1>4. CASE SkipLine
  <2>1. /\ phase = "lines" /\ line_number' = line_number + 1
        /\ UNCHANGED <<file, args, phase, stats, sent, batch>>
    BY <1>4 DEF SkipLine, NextLine
  <2>2. args.format = "line_based"
    BY <1>1, <2>1 DEF PhaseInv
  <2>3. Passed' = Passed /\ Wanted' = Wanted
    BY <1>1, <1>4, <2>1, <2>2, PassedSkip, SameWanted
  <2>4. QED
    BY <1>2, <2>1, <2>2, <2>3 DEF LastLineIsSent
<1>5. CASE UnreadableLine \/ BlankLine \/ BadLine
  <2>1. /\ phase = "lines" /\ line_number' = line_number + 1 /\ Unskipped
        /\ UNCHANGED <<file, args, sent, batch>> /\ phase' \in {"lines", "idle"}
        /\ ThisLine \in {"blank", "bad", "unreadable"}
    BY <1>5 DEF UnreadableLine, BlankLine, BadLine, Unskipped, NextLine, Reply
  <2>2. args.format = "line_based" /\ ThisLine \notin Triples
    BY <1>1, <2>1, FileFacts DEF PhaseInv
  <2>3. Passed' = Passed /\ Wanted' = Wanted
    BY <1>1, <2>1, <2>2, PassedNext, SameWanted
  <2>4. stats'.last_successful_line = stats.last_successful_line
    BY <1>1, <1>5 DEF UnreadableLine, BlankLine, BadLine, TypeOK, Stats
  <2>5. QED
    BY <1>2, <2>1, <2>2, <2>3, <2>4 DEF LastLineIsSent
<1>6. CASE TripleLine
  <2>1. /\ phase = "lines" /\ line_number' = line_number + 1 /\ Unskipped
        /\ UNCHANGED <<file, args, sent>> /\ phase' \in {"lines", "query"}
        /\ batch' = batch \cup {line_number + 1} /\ ThisLine \in Triples
    BY <1>6 DEF TripleLine, Unskipped, NextLine
  <2>2. args.format = "line_based"
    BY <1>1, <2>1 DEF PhaseInv
  <2>3. /\ Passed' = Passed \cup {line_number + 1} /\ Wanted' = Wanted
        /\ line_number + 1 \notin Passed
    BY <1>1, <2>1, <2>2, PassedNext, SameWanted
  <2>4. stats'.last_successful_line = stats.last_successful_line
    BY <1>1, <1>6 DEF TripleLine, TypeOK, Stats
  <2>5. sent \cup batch = Passed /\ sent \cap batch = {}
    BY <2>1, <2>2
  <2>6. sent' \cup batch' = Passed' /\ sent' \cap batch' = {}
    BY <2>1, <2>3, <2>5
  <2>7. QED
    BY <1>2, <2>1, <2>2, <2>3, <2>4, <2>6 DEF LastLineIsSent
<1>7. CASE LastBatch \/ EndOfFile \/ ParseFails \/ ChunksDone
  <2>1. /\ UNCHANGED <<file, args, sent, batch, line_number, stats>>
        /\ phase' \in {phase, "query", "idle"}
        /\ phase' = "query" => phase = "lines"
    BY <1>7 DEF LastBatch, EndOfFile, ParseFails, ChunksDone, Reply, AtEnd
  <2>2. Wanted' = Wanted /\ Passed' = Passed
    BY <2>1, SameWanted DEF Passed
  <2>3. QED
    BY <1>1, <2>1, <2>2 DEF LastLineIsSent, PhaseInv
<1>8. CASE ParseFile
  <2>1. /\ UNCHANGED <<file, args, sent, batch, line_number>> /\ phase' = "chunks"
        /\ stats'.last_successful_line = stats.last_successful_line
    BY <1>1, <1>8 DEF ParseFile, TypeOK, Stats
  <2>2. Wanted' = Wanted
    BY <2>1, SameWanted
  <2>3. QED
    BY <2>1, <2>2 DEF LastLineIsSent
<1>9. CASE NextChunk
  <2>1. /\ UNCHANGED <<file, args, sent, line_number, stats>> /\ phase' = "query"
        /\ args.format = "whole_file"
    BY <1>1, <1>9 DEF NextChunk, PhaseInv
  <2>2. Wanted' = Wanted
    BY <2>1, SameWanted
  <2>3. QED
    BY <2>1, <2>2 DEF LastLineIsSent
<1>10. CASE Query
  <2>1. PICK executed \in Nat, errors \in Nat : Answer(executed, errors)
    BY <1>1, <1>10, BatchFacts DEF Query, QuerySucceeds, QueryFails, TypeOK
  <2>2. /\ UNCHANGED <<file, args, line_number>>
        /\ sent' = sent \cup batch /\ batch' = {} /\ phase = "query"
        /\ phase' \in {"lines", "chunks"}
    BY <2>1 DEF Answer
  <2>3. Wanted' = Wanted /\ Passed' = Passed
    BY <2>2, SameWanted DEF Passed
  <2>4. \/ stats'.last_successful_line = stats.last_successful_line
        \/ /\ args.format = "line_based"
           /\ stats'.last_successful_line = line_number
    BY <1>1, <2>1, AnswerStats
  <2>5. args.format = "line_based" => sent' = Passed /\ sent' \cap batch' = {}
    BY <2>2
  <2>6. ReadInv'
    BY <1>2, <2>2, <2>3, <2>4, <2>5
  <2>7. LastLineIsSent'
    <3>1. CASE stats'.last_successful_line = stats.last_successful_line
      BY <2>2, <2>3, <3>1 DEF LastLineIsSent
    <3>2. CASE /\ args.format = "line_based"
               /\ stats'.last_successful_line = line_number
      BY <2>3, <2>5, <3>2 DEF LastLineIsSent, Passed
    <3>3. QED
      BY <2>4, <3>1, <3>2
  <2>8. QED
    BY <2>6, <2>7
<1>11. CASE UNCHANGED vars
  BY <1>11, SameWanted DEF vars, LastLineIsSent, Passed
<1>12. QED
  BY <1>3, <1>4, <1>5, <1>6, <1>7, <1>8, <1>9, <1>10, <1>11
  DEF Next, Step, Stream, Complete, WalkForEver,
      Terminating

LEMMA LoadStep ==
    ASSUME IInv, [Next]_vars
    PROVE  LoadInv'
<1> USE DEF IInv, LoadInv, locals, history
<1>1. TypeOK /\ TypeOK' /\ PhaseInv /\ ReadInv
  BY TypeStep
<1>2. stats.errors \in Nat
  BY <1>1 DEF TypeOK, Stats
<1>3. ASSUME NEW a \in Arguments, Begin(a) \/ Refuse(a) PROVE LoadInv'
  <2>1. sent' = {} /\ outcome' \in {"none", "error"}
    BY <1>3 DEF Begin, Refuse, Call, Reply
  <2>2. QED
    BY <2>1 DEF TriplesAt
<1>4. CASE \/ SkipLine \/ BlankLine \/ BadLine \/ TripleLine \/ LastBatch
           \/ ParseFile \/ NextChunk
  <2>1. /\ UNCHANGED <<file, args, sent, graph, outcome>>
        /\ stats'.errors \in {stats.errors, stats.errors + 1}
    BY <1>1, <1>4 DEF SkipLine, BlankLine, BadLine, TripleLine, LastBatch,
         ParseFile, NextChunk, Unskipped, NextLine, TypeOK, Stats
  <2>2. stats'.errors = 0 => stats.errors = 0
    BY <1>2, <2>1
  <2>3. QED
    BY <2>1, <2>2, SameWanted DEF TriplesAt
<1>5. CASE UnreadableLine \/ ParseFails
  <2>1. UNCHANGED <<file, args, sent, graph, stats>> /\ outcome' = "error"
    BY <1>5 DEF UnreadableLine, ParseFails, Reply
  <2>2. QED
    BY <2>1 DEF TriplesAt
<1>6. CASE EndOfFile \/ ChunksDone
  <2>1. UNCHANGED <<file, args, sent, graph, stats>>
    BY <1>6 DEF EndOfFile, ChunksDone
  <2>2. CASE EndOfFile
    <3>1. phase = "lines" /\ batch = {} /\ line_number = Len(file)
      BY <2>2 DEF EndOfFile, AtEnd
    <3>2. sent = Passed
      BY <1>1, <3>1 DEF PhaseInv, ReadInv
    <3>3. Passed = Wanted
      BY <1>1, <3>1, FileFacts DEF Passed, Wanted
    <3>4. QED
      BY <2>1, <3>2, <3>3, SameWanted DEF TriplesAt
  <2>3. CASE ChunksDone
    <3>1. args.format = "whole_file" /\ TripleLines \subseteq sent
      BY <1>1, <2>3 DEF ChunksDone, PhaseInv, Unsent
    <3>2. sent = Wanted
      BY <1>1, <3>1 DEF Wanted, TypeOK
    <3>3. QED
      BY <2>1, <3>2, SameWanted DEF TriplesAt
  <2>4. QED
    BY <1>6, <2>2, <2>3
<1>7. CASE Query
  <2>1. /\ phase = "query" /\ outcome' = outcome /\ sent' = sent \cup batch
        /\ file' = file
    BY <1>7 DEF Query, QuerySucceeds, QueryFails, Answer
  <2>2. outcome' # "stats"
    BY <1>1, <2>1 DEF PhaseInv
  <2>3. /\ Cardinality(batch) \in Nat /\ Statements(batch) \in Nat
        /\ Cardinality(batch) > 0 /\ Statements(batch) > 0
    BY <1>1, <2>1, BatchFacts DEF TypeOK, PhaseInv
  <2>4. CASE QuerySucceeds
    <3>1. Answer(Statements(batch), 0) /\ graph' = graph \cup TriplesAt(batch)
      BY <2>4 DEF QuerySucceeds
    <3>2. stats'.errors \in {stats.errors, stats.errors + Cardinality(batch)}
      BY <1>1, <1>2, <2>3, <3>1, AnswerStats
    <3>3. stats'.errors = 0 => stats.errors = 0
      BY <1>2, <2>3, <3>2
    <3>4. TriplesAt(sent)' = TriplesAt(sent) \cup TriplesAt(batch)
      BY <2>1 DEF TriplesAt
    <3>5. QED
      BY <2>2, <3>1, <3>3, <3>4
  <2>5. CASE QueryFails
    <3>1. stats'.errors \in {stats.errors + Statements(batch),
                             stats.errors + Cardinality(batch)}
      BY <1>1, <2>3, <2>5, AnswerStats DEF QueryFails
    <3>2. stats'.errors # 0
      BY <1>2, <2>3, <3>1
    <3>3. QED
      BY <2>2, <3>2
  <2>6. QED
    BY <1>7, <2>4, <2>5 DEF Query
<1>8. CASE UNCHANGED vars
  BY <1>8, SameWanted DEF vars, TriplesAt
<1>9. QED
  BY <1>3, <1>4, <1>5, <1>6, <1>7, <1>8
  DEF Next, Step, Stream, Complete, WalkForEver,
      Terminating
LEMMA QueryStep ==
    ASSUME IInv, [Next]_vars
    PROVE  QueryInv'
<1> USE DEF IInv, QueryInv, locals, history
<1>1. TypeOK /\ TypeOK' /\ PhaseInv'
  BY TypeStep, PhaseStep
<1>2. CASE TripleLine
  <2>1. /\ phase = "lines" /\ UNCHANGED <<file, args>>
        /\ phase' = IF Cardinality(batch') >= args.batch_size THEN "query" ELSE "lines"
    BY <1>2 DEF TripleLine, Unskipped, NextLine, IsFull
  <2>2. args.format = "line_based"
    BY <2>1 DEF PhaseInv
  <2>3. SUFFICES ASSUME phase' = "query" PROVE Cardinality(batch') = args'.batch_size
    BY <2>1, <2>2
  <2>4. Cardinality(batch') >= args.batch_size /\ Cardinality(batch') <= args.batch_size
    BY <1>1, <2>1, <2>2, <2>3 DEF PhaseInv
  <2>5. Cardinality(batch') \in Nat /\ args.batch_size \in Nat
    BY <1>1, <1>2, PushedBatch, ArgumentsAssumption DEF TypeOK, Arguments
  <2>6. QED
    BY <2>1, <2>4, <2>5
<1>3. CASE LastBatch
  <2>1. /\ phase = "lines" /\ line_number = Len(file)
        /\ UNCHANGED <<file, args, line_number>>
    BY <1>3 DEF LastBatch, AtEnd
  <2>2. QED
    BY <2>1 DEF PhaseInv
<1>4. CASE NextChunk
  <2>1. /\ phase = "chunks" /\ UNCHANGED <<file, args, sent>> /\ IsChunk(batch')
    BY <1>4 DEF NextChunk
  <2>2. args.format = "whole_file"
    BY <2>1 DEF PhaseInv
  <2>3. Unsent' = Unsent
    BY <2>1 DEF Unsent, TripleLines, IsTriple
  <2>4. IsChunk(batch)'
    BY <2>1, <2>3 DEF IsChunk
  <2>5. QED
    BY <2>1, <2>2, <2>4
<1>5. ASSUME NEW a \in Arguments, Begin(a) \/ Refuse(a) PROVE QueryInv'
  BY <1>5 DEF Begin, Refuse, Reply
<1>6. CASE \/ SkipLine \/ UnreadableLine \/ BlankLine \/ BadLine \/ EndOfFile
           \/ ParseFails \/ ParseFile \/ ChunksDone \/ Query
  <2>1. phase' # "query"
    BY <1>6 DEF SkipLine, UnreadableLine, BlankLine, BadLine, EndOfFile, ParseFails,
                ParseFile, ChunksDone, Query, QuerySucceeds, QueryFails, Answer,
                Unskipped, NextLine, AtEnd, Reply
  <2>2. QED
    BY <2>1
<1>7. CASE UNCHANGED vars
  <2>1. UNCHANGED <<phase, file, args, sent, batch, line_number>>
    BY <1>7 DEF vars
  <2>2. QED
    BY <2>1 DEF IsChunk, Unsent, TripleLines, IsTriple
<1>8. QED
  BY <1>2, <1>3, <1>4, <1>5, <1>6, <1>7 DEF Next, Step, Stream, Complete, WalkForEver,
      Terminating

LEMMA ParseStep ==
    ASSUME IInv, [Next]_vars
    PROVE  ParseInv'
<1> USE DEF IInv, ParseInv, locals, history
<1>1. PhaseInv
  OBVIOUS
<1>2. ASSUME NEW a \in Arguments, Begin(a) \/ Refuse(a) PROVE ParseInv'
  BY <1>2 DEF Begin, Refuse, Reply, Call
<1>3. CASE ParseFile
  BY <1>3 DEF ParseFile, Parses
<1>4. CASE Query
  <2>1. /\ phase = "query" /\ phase' = IF args.format = "line_based" THEN "lines" ELSE "chunks"
        /\ UNCHANGED <<file, args>>
    BY <1>4 DEF Query, QuerySucceeds, QueryFails, Answer
  <2>2. args.format = "whole_file" => Parses'
    BY <2>1 DEF Parses
  <2>3. QED
    BY <2>1, <2>2
<1>5. CASE NextChunk
  BY <1>5 DEF NextChunk, Parses
<1>6. CASE \/ SkipLine \/ UnreadableLine \/ BlankLine \/ BadLine \/ TripleLine
           \/ LastBatch \/ EndOfFile
  <2>1. phase = "lines" /\ UNCHANGED <<file, args, sent>>
    BY <1>6 DEF SkipLine, UnreadableLine, BlankLine, BadLine, TripleLine, LastBatch,
                EndOfFile, Unskipped, NextLine, AtEnd
  <2>2. args.format = "line_based"
    BY <1>1, <2>1 DEF PhaseInv
  <2>3. QED
    BY <2>1, <2>2
<1>7. CASE ParseFails \/ ChunksDone
  BY <1>7 DEF ParseFails, ChunksDone, Reply, Parses
<1>8. CASE UNCHANGED vars
  BY <1>8 DEF vars, Parses
<1>9. QED
  BY <1>2, <1>3, <1>4, <1>5, <1>6, <1>7, <1>8 DEF Next, Step, Stream, Complete, WalkForEver,
      Terminating
-----------------------------------------------------------------------------
LEMMA Invariance == Spec => []IInv
<1>1. Init => IInv
  BY InitInv
<1>2. IInv /\ [Next]_vars => IInv'
  BY TypeStep, PhaseStep, ReadStep, LoadStep, CountsStep, QueryStep, ParseStep
  DEF IInv
<1>3. QED
  BY <1>1, <1>2, PTL DEF Spec

(* Every variable of a bulk insert keeps its type, whatever the file.      *)
THEOREM TypeCorrect == Spec => []TypeOK
<1>1. IInv => TypeOK
  BY DEF IInv
<1>2. QED
  BY <1>1, Invariance, PTL

(* stream_ntriples keeps every line it has passed either waiting or sent,  *)
(* for every batch size and every skip.                                    *)
THEOREM NothingLost == Spec => []NothingLostBetweenBatches
<1>1. IInv => NothingLostBetweenBatches
  BY DEF IInv, PhaseInv, ReadInv, NothingLostBetweenBatches
<1>2. QED
  BY <1>1, Invariance, PTL

(* A reply without errors means that every line asked for is in the graph, *)
(* whichever way the file was read and whichever limits were set.          *)
THEOREM CleanReplyMeansLoaded == Spec => []NoErrorsMeansLoaded
<1>1. IInv => NoErrorsMeansLoaded
  BY DEF IInv, LoadInv, NoErrorsMeansLoaded
<1>2. QED
  BY <1>1, Invariance, PTL

(* last_successful_line never runs ahead of what was handed to FalkorDB.   *)
THEOREM LastLineSent == Spec => []LastLineIsSent
<1>1. IInv => LastLineIsSent
  BY DEF IInv
<1>2. QED
  BY <1>1, Invariance, PTL

(* The counters neither overstate what was executed nor hide a failure.    *)
THEOREM HonestCounts == Spec => []CountsAreHonest
<1>1. IInv => CountsAreHonest
  BY DEF IInv
<1>2. QED
  BY <1>1, Invariance, PTL

(* load_complete_file sends nothing of a file that does not parse.         *)
THEOREM NothingSentOfABadFile == Spec => []SyntaxErrorsSendNothing
<1>1. IInv => SyntaxErrorsSendNothing
  BY DEF IInv, ParseInv, SyntaxErrorsSendNothing, Parses
<1>2. QED
  BY <1>1, Invariance, PTL
-----------------------------------------------------------------------------
(* While the command does not answer a query, what remains is the same.    *)
LEMMA SameUnloaded ==
    ASSUME UNCHANGED <<file, args, sent>>, Busy <=> Busy'
    PROVE  Unloaded' = Unloaded
BY DEF Unloaded, Wanted, TripleLines, IsTriple

LEMMA UnloadedLines ==
    ASSUME TypeOK
    PROVE  /\ DOMAIN Unloaded \subseteq Nat \ {0}
           /\ \A n \in DOMAIN Unloaded : Unloaded[n] \in Triples
           /\ DOMAIN Unloaded = IF Busy THEN Wanted \ sent ELSE {}
           /\ \A n \in DOMAIN Unloaded : Unloaded[n] = file[n]
<1>1. CASE Busy
  <2>1. Unloaded = [n \in Wanted \ sent |-> file[n]]
    BY <1>1 DEF Unloaded
  <2>2. \A n \in Wanted : n \in Nat \ {0} /\ file[n] \in Triples
    BY FileFacts DEF Wanted
  <2>3. QED
    BY <1>1, <2>1, <2>2
<1>2. CASE ~Busy
  <2>1. Unloaded = << >>
    BY <1>2 DEF Unloaded
  <2>2. DOMAIN Unloaded = {}
    BY <2>1
  <2>3. QED
    BY <1>2, <2>2
<1>3. QED
  BY <1>1, <1>2

UnloadedFits ==
    \A n \in DOMAIN Unloaded : n \in Nat \ {0} /\ Unloaded[n] \in Triples

LEMMA UnloadedIsFit == TypeOK => UnloadedFits
BY UnloadedLines DEF UnloadedFits

(* A command that is accepted begins a load; one that is not is no step.   *)
LEMMA CommandImplements ==
    ASSUME IInv, IInv', NEW a \in Arguments, Begin(a) \/ Refuse(a)
    PROVE  Load!Begin \/ UNCHANGED Load!vars
<1>1. TypeOK' /\ ~Busy /\ graph' = graph /\ args' = a /\ sent' = {}
  BY DEF IInv, Begin, Refuse, Call, Busy
<1>2. CASE Begin(a)
  <2>1. Busy' /\ a.batch_size > 0 /\ a.batch_size \in Nat
    BY <1>2, ArgumentsAssumption DEF Begin, Busy, Accepted, Arguments
  <2>2. \A n \in DOMAIN Unloaded' : n \in Nat \ {0} /\ Unloaded'[n] \in Triples
    <3>1. UnloadedFits'
      BY <1>1, UnloadedIsFit, PTL
    <3>2. QED
      BY <3>1 DEF UnloadedFits
  <2>3. (IF Busy THEN args.batch_size ELSE 0)' \in Nat \ {0}
    BY <1>1, <2>1
  <2>4. QED
    BY <1>1, <2>1, <2>2, <2>3 DEF Load!Begin
<1>3. CASE Refuse(a)
  <2>1. ~Busy'
    BY <1>3 DEF Refuse, Reply, Busy
  <2>2. Unloaded = << >> /\ Unloaded' = << >>
    BY <1>1, <2>1 DEF Unloaded
  <2>3. (IF Busy THEN args.batch_size ELSE 0)' = IF Busy THEN args.batch_size ELSE 0
    BY <1>1, <2>1
  <2>4. Busy' = Busy
    BY <1>1, <2>1 DEF Busy
  <2>5. QED
    BY <1>1, <2>2, <2>3, <2>4 DEF Load!vars
<1>4. QED
  BY <1>2, <1>3

(* Reading, and cutting the next chunk, hand nothing over.                 *)
LEMMA ReadingStutters ==
    ASSUME IInv,
           \/ SkipLine \/ BlankLine \/ BadLine \/ TripleLine \/ LastBatch
           \/ ParseFile \/ NextChunk
    PROVE  UNCHANGED Load!vars
<1>1. /\ UNCHANGED <<file, args, sent, graph>> /\ Busy /\ Busy'
  BY DEF SkipLine, BlankLine, BadLine, TripleLine, LastBatch, ParseFile, NextChunk,
         Unskipped, NextLine, AtEnd, Busy, history
<1>2. QED
  BY <1>1, SameUnloaded DEF Load!vars

(* A line that is not UTF-8 and a file that does not parse end the load.   *)
LEMMA ErrorAbandons ==
    ASSUME UnreadableLine \/ ParseFails
    PROVE  Load!Abandon
<1>1. Busy /\ ~Busy' /\ graph' = graph
  BY DEF UnreadableLine, ParseFails, Unskipped, NextLine, Reply, Busy
<1>2. QED
  BY <1>1 DEF Load!Abandon, Unloaded

(* A statistics reply ends a load that has handed over every line.         *)
LEMMA ReplyFinishes ==
    ASSUME IInv, LoadInv', EndOfFile \/ ChunksDone
    PROVE  Load!Finish
<1>1. /\ Busy /\ ~Busy' /\ outcome' = "stats"
      /\ UNCHANGED <<file, args, sent, graph>>
  BY DEF EndOfFile, ChunksDone, AtEnd, Reply, Busy, history
<1>2. sent = Wanted
  BY <1>1, SameWanted DEF LoadInv
<1>3. Unloaded = [n \in {} |-> file[n]] /\ Unloaded' = << >>
  BY <1>1, <1>2 DEF Unloaded
<1>4. DOMAIN Unloaded = {} /\ Unloaded' = Unloaded
  BY <1>3
<1>5. QED
  BY <1>1, <1>4 DEF Load!Finish

(* What is at GRAPH.QUERY are the next lines to hand over.                 *)
LEMMA BatchIsNext ==
    ASSUME IInv, phase = "query"
    PROVE  /\ batch \subseteq Wanted \ sent /\ batch # {}
           /\ \A n \in batch, m \in (Wanted \ sent) \ batch : n < m
           /\ \/ Cardinality(batch) = args.batch_size
              \/ /\ batch = Wanted \ sent
                 /\ Cardinality(batch) < args.batch_size
<1>1. TypeOK /\ PhaseInv /\ ReadInv
  BY DEF IInv
<1>2. batch # {}
  BY <1>1 DEF PhaseInv
<1>3. CASE args.format = "line_based"
  <2>1. sent \cup batch = Passed /\ sent \cap batch = {}
    BY <1>1, <1>3 DEF ReadInv
  <2>2. \A n \in batch, m \in (Wanted \ sent) \ batch : n < m
    <3>1. \A n \in batch : n <= line_number
      BY <2>1 DEF Passed
    <3>2. \A m \in (Wanted \ sent) \ batch : ~(m <= line_number)
      BY <2>1 DEF Passed
    <3>3. line_number \in Nat /\ \A n \in Wanted : n \in Nat
      BY <1>1, FileFacts DEF TypeOK, Wanted
    <3>4. batch \subseteq Wanted
      BY <2>1 DEF Passed
    <3>5. QED
      BY <3>1, <3>2, <3>3, <3>4
  <2>3. CASE Cardinality(batch) = args.batch_size
    BY <1>2, <2>1, <2>2, <2>3 DEF Passed
  <2>4. CASE Cardinality(batch) # args.batch_size
    <3>1. line_number = Len(file)
      BY <1>3, <2>4 DEF IInv, QueryInv
    <3>2. Passed = Wanted
      BY <1>1, <3>1, FileFacts DEF Passed, Wanted
    <3>3. batch = Wanted \ sent
      BY <2>1, <3>2
    <3>4. Cardinality(batch) <= args.batch_size
      BY <1>1, <1>3 DEF PhaseInv
    <3>5. Cardinality(batch) \in Nat /\ args.batch_size \in Nat
      BY <1>1, BatchFacts, ArgumentsAssumption DEF TypeOK, Arguments
    <3>6. Cardinality(batch) < args.batch_size
      BY <2>4, <3>4, <3>5
    <3>7. QED
      BY <1>2, <2>2, <3>3, <3>6
  <2>5. QED
    BY <2>3, <2>4
<1>4. CASE args.format # "line_based"
  <2>1. Wanted \ sent = Unsent /\ IsChunk(batch)
    BY <1>4 DEF IInv, QueryInv, Wanted, Unsent
  <2>2. QED
    BY <1>2, <2>1 DEF IsChunk
<1>5. QED
  BY <1>3, <1>4

(* An answer, good or bad, hands over the next batch as a whole.           *)
LEMMA AnswerHandsOver ==
    ASSUME IInv, Query
    PROVE  Load!HandOver
<1>1. /\ phase = "query" /\ Busy /\ Busy' /\ UNCHANGED <<file, args>>
      /\ sent' = sent \cup batch
      /\ graph' \in {graph, graph \cup TriplesAt(batch)}
  BY DEF Query, QuerySucceeds, QueryFails, Answer, Busy
<1>2. TypeOK /\ DOMAIN Unloaded = Wanted \ sent
      /\ \A n \in DOMAIN Unloaded : Unloaded[n] = file[n]
  BY <1>1, UnloadedLines DEF IInv
<1>3. batch \subseteq DOMAIN Unloaded
  BY <1>1, <1>2, BatchIsNext
<1>4. Load!IsNext(batch)
  <2>1. (IF Busy THEN args.batch_size ELSE 0) = args.batch_size
    BY <1>1
  <2>2. DOMAIN Unloaded = Wanted \ sent
    BY <1>2
  <2>3. Load!Cardinality(batch) = Cardinality(batch)
    BY DEF Load!Cardinality, Cardinality
  <2>4. QED
    BY <1>1, <2>1, <2>2, <2>3, BatchIsNext DEF Load!IsNext
<1>5. Unloaded' = [n \in DOMAIN Unloaded \ batch |-> Unloaded[n]]
  <2>1. Wanted' = Wanted
    BY <1>1, SameWanted
  <2>2. Unloaded' = [n \in Wanted \ (sent \cup batch) |-> file[n]]
    BY <1>1, <2>1 DEF Unloaded
  <2>3. Wanted \ (sent \cup batch) = DOMAIN Unloaded \ batch
    BY <1>2
  <2>4. QED
    BY <1>2, <2>2, <2>3
<1>6. TriplesAt(batch) = {Unloaded[n] : n \in batch}
  BY <1>2, <1>3 DEF TriplesAt
<1>7. QED
  BY <1>1, <1>3, <1>4, <1>5, <1>6 DEF Load!HandOver

(* Both ways of loading keep the promise of BatchedLoad: every step of the *)
(* command hands over the next batch, begins or ends the load, or changes  *)
(* nothing that the promise speaks of.                                     *)
THEOREM LoadsInBatches == Spec => ImplementsBatchedLoad
<1>1. Init => Load!Init
  BY DEF Init, Load!Init, Unloaded, Busy
<1>2. IInv /\ IInv' /\ [Next]_vars => [Load!Next]_(Load!vars)
  <2> SUFFICES ASSUME IInv, IInv', [Next]_vars
               PROVE  [Load!Next]_(Load!vars)
    OBVIOUS
  <2>1. ASSUME NEW a \in Arguments, Begin(a) \/ Refuse(a)
        PROVE  [Load!Next]_(Load!vars)
    BY <2>1, CommandImplements DEF Load!Next
  <2>2. CASE \/ SkipLine \/ BlankLine \/ BadLine \/ TripleLine \/ LastBatch
             \/ ParseFile \/ NextChunk
    BY <2>2, ReadingStutters
  <2>3. CASE UnreadableLine \/ ParseFails
    BY <2>3, ErrorAbandons DEF Load!Next
  <2>4. CASE EndOfFile \/ ChunksDone
    BY <2>4, ReplyFinishes DEF Load!Next, IInv
  <2>5. CASE Query
    BY <2>5, AnswerHandsOver DEF Load!Next
  <2>6. CASE UNCHANGED vars
    BY <2>6, SameUnloaded DEF vars, history, Load!vars, Busy
  <2>7. QED
    BY <2>1, <2>2, <2>3, <2>4, <2>5, <2>6
    DEF Next, Step, Stream, Complete, WalkForEver,
      Terminating
<1>3. QED
  BY <1>1, <1>2, Invariance, PTL DEF Spec, ImplementsBatchedLoad, Load!Spec
=============================================================================
