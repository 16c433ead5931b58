----------------------------- MODULE BulkInsert -----------------------------
(***************************************************************************)
(* RDF.BULK_INSERT (src/module/src/commands/rdf_bulk_insert.rs): a file is *)
(* read line by line (N-Triples, N-Quads) or parsed whole (Turtle, TriG),  *)
(* cut into batches, and every batch sent to FalkorDB as one GRAPH.QUERY,  *)
(* which may fail.  The client runs the command again, possibly with SKIP  *)
(* set to the last line the previous reply named.                          *)
(*                                                                         *)
(* A line holds a triple, nothing, an unparsable statement (an N-Quads     *)
(* line with a graph name is one) or bytes that are not UTF-8.  A batch is *)
(* the set of its line numbers: generate_batch does not keep their order.  *)
(* FalkorDB rolls a failing query back, so a batch is in the graph as a    *)
(* whole or not at all.  GraphMapping says which statements a batch makes, *)
(* and which batch is never mapped.                                        *)
(***************************************************************************)
EXTENDS GraphMapping

CONSTANTS
    Triples,     \* the triples that lines hold
    TripleOf,    \* what each of them says
    Files,       \* the files: sequences of lines
    BatchSizes,  \* values of BATCH
    ErrorLimits, \* values of MAXERRORS; a large one is usize::MAX, the default
    Formats,     \* the formats asked for
    MaxCalls     \* bound on the number of commands

Lines == Triples \cup {"blank", "bad", "unreadable"}
AllFormats == {"line_based", "whole_file", "jsonld"}

ASSUME TriplesAssumption ==
    /\ Triples \cap {"blank", "bad", "unreadable"} = {}
    /\ TripleOf \in [Triples -> [s : Terms, p : Predicates, o : Terms \cup Literals]]
ASSUME FilesAssumption == Files # {} /\ Files \subseteq Seq(Lines)
ASSUME ArgumentsAssumption ==
    /\ BatchSizes \subseteq Nat /\ BatchSizes # {}
    /\ ErrorLimits \subseteq Nat /\ ErrorLimits # {}
    /\ Formats \subseteq AllFormats /\ Formats # {}
    /\ MaxCalls \in Nat

VARIABLES
    file,          \* the file on disk, which does not change
    graph,         \* the triples of the batches that FalkorDB accepted
    args,          \* the arguments of the current or last command
    phase,         \* where the command is
    line_number, batch, stats, total_errors,  \* its local variables
    outcome,       \* what was replied: nothing yet, an error, the statistics
    calls,         \* commands issued
    sent,          \* history: the lines this command has handed to GRAPH.QUERY
    applied,       \* history: statements of its accepted queries
    failed,        \* history: statements of its refused queries, and bad lines
    chained        \* history: from a full load on, each SKIP was the last line

locals == <<line_number, batch, stats, total_errors>>
history == <<sent, applied, failed, chained>>
vars == <<file, graph, args, phase, locals, outcome, calls, history>>

Arguments == [format : Formats, skip : 0 .. Len(file), batch_size : BatchSizes,
              max_errors : ErrorLimits, continue_on_error : BOOLEAN]
Stats == [triples_parsed : Nat, statements_executed : Nat, errors : Nat,
          batches_processed : Nat, last_successful_line : Nat]
NoStats == [triples_parsed |-> 0, statements_executed |-> 0, errors |-> 0,
            batches_processed |-> 0, last_successful_line |-> 0]

IsTriple(n) == file[n] \in Triples
TripleLines == {n \in DOMAIN file : IsTriple(n)}
TriplesAt(b) == {file[n] : n \in b}

(* A list is taken out, and a list that comes back to one of its cells is  *)
(* walked for ever, only if its cells are in one batch.                    *)
BatchData(b) == [n \in b |-> TripleOf[file[n]]]

(* generate_batch: one statement per subject.                              *)
Statements(b) == Cardinality(Subjects(BatchData(b)))
-----------------------------------------------------------------------------
Init ==
    /\ file \in Files
    /\ graph = {}
    /\ args = CHOOSE a \in Arguments : TRUE  \* no command yet
    /\ phase = "idle" /\ outcome = "none" /\ calls = 0
    /\ line_number = 0 /\ batch = {} /\ stats = NoStats /\ total_errors = 0
    /\ sent = {} /\ applied = 0 /\ failed = 0 /\ chained = FALSE

Reply(o) == phase' = "idle" /\ outcome' = o

(* A new command: BulkInsertArgs::parse, then the format is looked at.     *)
Accepted(a) == a.batch_size > 0 /\ a.format # "jsonld"

Call(a) ==
    /\ phase = "idle" /\ calls < MaxCalls
    /\ args' = a /\ calls' = calls + 1
    /\ line_number' = 0 /\ batch' = {} /\ stats' = NoStats /\ total_errors' = 0
    /\ sent' = {} /\ applied' = 0 /\ failed' = 0
    /\ chained' = \/ a.skip = 0
                  \/ /\ chained /\ outcome = "stats"
                     /\ a.skip = stats.last_successful_line
    /\ UNCHANGED <<file, graph>>

Begin(a) ==
    /\ Accepted(a)
    /\ Call(a)
    /\ phase' = IF a.format = "line_based" THEN "lines" ELSE "parse"
    /\ outcome' = "none"

(* BATCH 0, and JSON-LD, whose parser is not implemented.                  *)
Refuse(a) == ~Accepted(a) /\ Call(a) /\ Reply("error")
-----------------------------------------------------------------------------
(* stream_ntriples: one action per way around its loop.                    *)
NextLine ==
    /\ phase = "lines" /\ line_number < Len(file)
    /\ line_number' = line_number + 1

ThisLine == file[line_number + 1]

(* Faulty: the line is skipped before it is counted.                       *)
SkipLineUncounted ==
    /\ phase = "lines" /\ line_number < Len(file)
    /\ line_number + 1 <= args.skip
    /\ UNCHANGED vars

(* A skipped line is not even checked for being readable.                  *)
SkipLine ==
    /\ NextLine /\ line_number + 1 <= args.skip
    /\ UNCHANGED <<file, graph, args, phase, batch, stats, total_errors,
                   outcome, calls, history>>

Unskipped == NextLine /\ line_number + 1 > args.skip

UnreadableLine ==
    /\ Unskipped /\ ThisLine = "unreadable"
    /\ Reply("error")
    /\ UNCHANGED <<file, graph, args, batch, stats, total_errors, calls, history>>

BlankLine ==
    /\ Unskipped /\ ThisLine = "blank"
    /\ UNCHANGED <<file, graph, args, phase, batch, stats, total_errors,
                   outcome, calls, history>>

BadLine ==
    /\ Unskipped /\ ThisLine = "bad"
    /\ stats' = [stats EXCEPT !.errors = @ + 1]
    /\ failed' = failed + 1
    /\ UNCHANGED <<file, graph, args, phase, batch, total_errors, outcome,
                   calls, sent, applied, chained>>

(* Faulty: one triple too many.                                            *)
IsOverfull(b) == Cardinality(b) > args.batch_size

IsFull(b) == Cardinality(b) >= args.batch_size

(* Faulty: the line counts as processed when it is read.                   *)
TripleLineProcessed ==
    /\ Unskipped /\ ThisLine \in Triples
    /\ batch' = batch \cup {line_number + 1}
    /\ stats' = [stats EXCEPT !.triples_parsed = @ + 1,
                              !.last_successful_line = line_number + 1]
    /\ phase' = IF IsFull(batch') THEN "query" ELSE "lines"
    /\ UNCHANGED <<file, graph, args, total_errors, outcome, calls, history>>

TripleLine ==
    /\ Unskipped /\ ThisLine \in Triples
    /\ batch' = batch \cup {line_number + 1}
    /\ stats' = [stats EXCEPT !.triples_parsed = @ + 1]
    /\ phase' = IF IsFull(batch') THEN "query" ELSE "lines"
    /\ UNCHANGED <<file, graph, args, total_errors, outcome, calls, history>>

AtEnd == phase = "lines" /\ line_number = Len(file)

LastBatch ==
    /\ AtEnd /\ batch # {}
    /\ phase' = "query"
    /\ UNCHANGED <<file, graph, args, locals, outcome, calls, history>>

(* Faulty: the last, incomplete batch may be dropped.                      *)
EndOfFileDropsBatch ==
    /\ AtEnd
    /\ Reply("stats")
    /\ UNCHANGED <<file, graph, args, locals, calls, history>>

EndOfFile ==
    /\ AtEnd /\ batch = {}
    /\ Reply("stats")
    /\ UNCHANGED <<file, graph, args, locals, calls, history>>
-----------------------------------------------------------------------------
(* Faulty: what follows the first statement is not looked at.              *)
StartParses == file # << >> => file[1] \notin {"bad", "unreadable"}

(* load_complete_file: nothing is sent unless the whole file parses.  SKIP, *)
(* MAXERRORS and STOPONERROR are not looked at.                            *)
Parses == \A n \in DOMAIN file : file[n] \notin {"bad", "unreadable"}

ParseFails ==
    /\ phase = "parse" /\ ~Parses
    /\ Reply("error")
    /\ UNCHANGED <<file, graph, args, locals, calls, history>>

ParseFile ==
    /\ phase = "parse" /\ Parses
    /\ phase' = "chunks"
    /\ stats' = [stats EXCEPT !.triples_parsed = Cardinality(TripleLines)]
    /\ UNCHANGED <<file, graph, args, line_number, batch, total_errors,
                   outcome, calls, history>>

Unsent == TripleLines \ sent

(* Faulty: a full batch of any lines, in no order.                         *)
IsAnyChunk(b) ==
    /\ b \subseteq Unsent /\ b # {}
    /\ \/ Cardinality(b) = args.batch_size
       \/ b = Unsent /\ Cardinality(b) < args.batch_size

(* triples.chunks(batch_size)                                              *)
IsChunk(b) ==
    /\ b \subseteq Unsent /\ b # {}
    /\ \A n \in b, m \in Unsent \ b : n < m
    /\ \/ Cardinality(b) = args.batch_size
       \/ b = Unsent /\ Cardinality(b) < args.batch_size

NextChunk ==
    /\ phase = "chunks" /\ Unsent # {}
    /\ \E b \in SUBSET Unsent : IsChunk(b) /\ batch' = b
    /\ phase' = "query"
    /\ UNCHANGED <<file, graph, args, line_number, stats, total_errors,
                   outcome, calls, history>>

ChunksDone ==
    /\ phase = "chunks" /\ Unsent = {}
    /\ Reply("stats")
    /\ UNCHANGED <<file, graph, args, locals, calls, history>>
-----------------------------------------------------------------------------
(* The batch is mapped and GRAPH.QUERY answers: process_batch, the         *)
(* handler's closure around it and what the reading loop makes of their    *)
(* result.                                                                 *)

Endless == phase = "query" /\ ~WalksEnd(BatchData(batch))

(* Redis's thread never leaves the walk along the list.                    *)
WalkForEver == Endless /\ UNCHANGED vars

(* Faulty: a batch the closure returned Err for is not counted.            *)
RejectedUncounted(s) == s

(* The closure returns Err: the loop counts every triple as an error.      *)
Rejected(s) == [s EXCEPT !.errors = @ + Cardinality(batch)]

(* It returns Ok((executed, errors)): the line counts as processed.        *)
Processed(s, executed, errors) ==
    [s EXCEPT !.statements_executed = @ + executed, !.errors = @ + errors,
              !.batches_processed = @ + 1,
              !.last_successful_line = line_number]

StreamStats(executed, errors) ==
    IF \/ ~args.continue_on_error /\ errors > 0
       \/ total_errors + errors >= args.max_errors
    THEN Rejected(stats)
    ELSE Processed(stats, executed, errors)

ChunkStats(executed, errors) ==
    [stats EXCEPT !.statements_executed = @ + executed, !.errors = @ + errors,
                  !.batches_processed = @ + IF errors = 0 THEN 1 ELSE 0]

Answer(executed, errors) ==
    /\ phase = "query" /\ WalksEnd(BatchData(batch))
    /\ sent' = sent \cup batch
    /\ batch' = {}
    /\ IF args.format = "line_based"
       THEN /\ phase' = "lines"
            /\ stats' = StreamStats(executed, errors)
            /\ total_errors' = total_errors + errors
       ELSE /\ phase' = "chunks"
            /\ stats' = ChunkStats(executed, errors)
            /\ UNCHANGED total_errors
    /\ applied' = applied + executed
    /\ failed' = failed + errors
    /\ UNCHANGED <<file, args, line_number, outcome, calls, chained>>

QuerySucceeds ==
    /\ Answer(Statements(batch), 0)
    /\ graph' = graph \cup TriplesAt(batch)

QueryFails ==
    /\ Answer(0, Statements(batch))
    /\ UNCHANGED graph
-----------------------------------------------------------------------------
Stream == \/ SkipLine \/ UnreadableLine \/ BlankLine \/ BadLine \/ TripleLine
          \/ LastBatch \/ EndOfFile
Complete == ParseFails \/ ParseFile \/ NextChunk \/ ChunksDone
Query == QuerySucceeds \/ QueryFails
Step == Stream \/ Complete \/ WalkForEver \/ Query

Terminating == phase = "idle" /\ calls = MaxCalls /\ UNCHANGED vars

Next == \/ \E a \in Arguments : Begin(a) \/ Refuse(a)
        \/ Step
        \/ Terminating

(* The handler runs to its end on Redis's thread; clients may stop calling. *)
Spec == Init /\ [][Next]_vars /\ WF_vars(Step)
-----------------------------------------------------------------------------
(* The lines the command is to load; only stream_ntriples skips.           *)
Wanted == {n \in TripleLines : args.format = "line_based" => n > args.skip}
Passed == {n \in Wanted : n <= line_number}
Busy == phase # "idle"

(* Every variable of the command keeps the type the code declares.         *)
TypeOK ==
    /\ file \in Files /\ graph \subseteq Triples /\ args \in Arguments
    /\ phase \in {"idle", "lines", "parse", "chunks", "query"}
    /\ line_number \in 0 .. Len(file) /\ batch \subseteq TripleLines
    /\ stats \in Stats /\ total_errors \in Nat
    /\ outcome \in {"none", "error", "stats"} /\ calls \in 0 .. MaxCalls
    /\ sent \subseteq TripleLines /\ applied \in Nat /\ failed \in Nat
    /\ chained \in BOOLEAN

(* stream_ntriples neither loses nor repeats a triple at the boundary of a *)
(* batch: what was read and not skipped is either waiting or was sent, and *)
(* what waits fits in a batch.                                             *)
NothingLostBetweenBatches ==
    args.format = "line_based" /\ phase \in {"lines", "query"} =>
        /\ sent \cup batch = Passed
        /\ sent \cap batch = {}
        /\ Cardinality(batch) <= args.batch_size

(* A reply of statistics without errors means that every triple that was   *)
(* not skipped was in an accepted batch, whatever the format and limits.   *)
NoErrorsMeansLoaded ==
    outcome = "stats" /\ stats.errors = 0 => TriplesAt(Wanted) \subseteq graph

(* No triple up to last_successful_line is still waiting: a command that   *)
(* resumes there never skips a triple that was not handed to FalkorDB.     *)
LastLineIsSent ==
    \A n \in Wanted : n <= stats.last_successful_line => n \in sent

(* The counters never claim a statement that FalkorDB did not execute and  *)
(* never hide a refused statement or a line that does not parse.           *)
CountsAreHonest ==
    /\ stats.statements_executed <= applied
    /\ stats.errors >= failed

(* load_complete_file is all or nothing on syntax errors: of a file with a *)
(* statement that does not parse nothing is sent.                          *)
SyntaxErrorsSendNothing ==
    /\ args.format = "whole_file"
    /\ \E n \in DOMAIN file : file[n] \in {"bad", "unreadable"}
    => sent = {}

(* The command comes back to Redis's thread, unless it comes to a batch    *)
(* with the whole of a list that returns to one of its cells: no other     *)
(* line, limit, failure or boundary of a batch keeps it.                   *)
CommandReplies == Busy ~> ~Busy \/ Endless

(* The promise both ways of loading keep, BatchedLoad: batches in the      *)
(* order of the file, each full but the last, each applied whole or not.   *)
Unloaded == IF Busy THEN [n \in Wanted \ sent |-> file[n]] ELSE << >>
Load == INSTANCE BatchedLoad
    WITH Items <- Triples, todo <- Unloaded, busy <- Busy,
         size <- IF Busy THEN args.batch_size ELSE 0
ImplementsBatchedLoad == Load!Spec
-----------------------------------------------------------------------------
(* What the documentation says of the options.                             *)

SameCommand == calls' = calls

(* STOPONERROR: "Stop on first error instead of continuing"; MAXERRORS:    *)
(* "Maximum errors before stopping".  Once either applies, nothing more is *)
(* sent.                                                                   *)
StopsWhenTold ==
    [][/\ SameCommand
       /\ \/ ~args.continue_on_error /\ failed > 0
          \/ stats.errors >= args.max_errors
       => sent' = sent]_vars

(* SKIP: "Number of lines to skip (for recovery from partial failures)",   *)
(* with the last line of the reply, "Last successfully processed line (for *)
(* recovery)": once a resumed command reports no error, the file is in.    *)
ResumeCompletes ==
    /\ args.format = "line_based" /\ chained
    /\ outcome = "stats" /\ stats.errors = 0
    => TriplesAt(TripleLines) \subseteq graph
=============================================================================
