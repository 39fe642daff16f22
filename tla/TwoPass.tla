------------------------------ MODULE TwoPass ------------------------------
(***************************************************************************)
(* The two streaming passes over a local source (ADR-0045): pass 1 of      *)
(* LocalFileSource (read_csv, read_jsonl) classifies every record, streams *)
(* the rejections into the RejectionSink, and fixes what pass 2 must       *)
(* reproduce; pass 2 (CsvChunks, JsonlChunks) reads the file again, pulled *)
(* chunk by chunk, and fails the stream when it diverges from pass 1.      *)
(* Another process may edit the file at any moment, and reads of the file  *)
(* and writes of the artifact may fail.                                    *)
(*                                                                         *)
(* A line of the file is its kind; two lines of one kind have equal bytes. *)
(*   "good"    a record that survives                                      *)
(*   "odd"     survives, but only a plan that observed one can build it    *)
(*   "wide"    survives, carries a field the other records lack (JSONL)    *)
(*   "bad"     violates a per-record check                                 *)
(*   "broken"  parses to no record                                         *)
(*   "blank"   yields nothing                                              *)
(***************************************************************************)
EXTENDS Naturals, Sequences, FiniteSets, SequencesExt

CONSTANTS
  Formats,         \* the source formats in use
  ChunkRows,       \* the chunk bound, at least 1
  MaxLines,        \* bound: lines of the file
  MaxEdits,        \* bound: edits made while the load runs
  MaxReadFaults,   \* bound: reads of the source that fail
  MaxSinkFaults    \* bound: artifact and spill writes that fail

ASSUME TwoPassAssumption ==
  /\ Formats \subseteq {"csv", "jsonl"}
  /\ ChunkRows \in Nat \ {0}
  /\ {MaxLines, MaxEdits, MaxReadFaults, MaxSinkFaults} \subseteq Nat

VARIABLES
  format,       \* of the source, "csv" or "jsonl"
  file,         \* the lines of the source as they are now
  header,       \* CSV: the header as it is now, 1 until it is edited
  edits,        \* edits made so far
  readFaults,   \* reads that failed so far
  sinkFaults,   \* artifact and spill writes that failed so far
  verdictOk,    \* whether the shape verdict passes
  pc,           \* "pass1", "failed", "stream" or "over"
  log,          \* the lines this pass has read: position, and hash input
  dead,         \* CSV: the reader hit an I/O error and yields no more
  count,        \* records this pass has seen
  sinkLines,    \* RejectionSink.lines
  sinkCount,    \* RejectionSink.count
  artifact,     \* the lines of rejected-records.jsonl: line and origin
  sinkError,    \* RejectionSink.io_error is Some
  spill,        \* JSONL: the spilled rejections' lines
  spillError,   \* ValidationSpill.io_error is Some
  expect,       \* PassOneExpectations
  phase,        \* ChunkPhase
  pulling,      \* a pull is under way
  survivors,    \* the chunk being filled
  chunks,       \* chunks yielded so far
  streamEnd     \* "open", "ended" (None) or "failed" (Err)

sourceVars == <<format, file, header, edits, verdictOk>>
sinkVars == <<sinkLines, sinkCount, artifact, sinkError, sinkFaults>>
spillVars == <<spill, spillError>>
streamVars == <<expect, phase, pulling, survivors, chunks, streamEnd>>
vars == <<sourceVars, readFaults, pc, log, dead, count, sinkVars, spillVars,
          streamVars>>

-----------------------------------------------------------------------------
(* What a pass makes of the lines it reads.                                *)

Kinds == {"good", "odd", "bad", "broken", "blank"} \union
         IF format = "jsonl" THEN {"wide"} ELSE {}
Survivor == {"good", "odd", "wide"}

LinesOf(lines, kinds) == { n \in 1 .. Len(lines) : lines[n] \in kinds }
NoExpectations == [rejected |-> {}, records |-> 0, log |-> <<>>, header |-> 1]

\* Definitions named Bug... are not part of the model: each is a plausible
\* mistake in the code it stands before, and the runs are shown to catch it.
\* The plan of pass 1 can build a record iff every type it needs was observed
\* among the survivors of pass 1.
Builds(rows) ==
  \A k \in DOMAIN rows :
    rows[k].kind = "odd" => LinesOf(expect.log, {"odd"}) # {}

\* JSONL: the resolved shape is the union of the keys pass 1 met.
InShape(kind) == kind = "wide" => LinesOf(expect.log, {"wide"}) # {}

-----------------------------------------------------------------------------
Init ==
  /\ format \in Formats
  /\ file \in UNION { [1 .. n -> Kinds] : n \in 0 .. MaxLines }
  /\ header = 1
  /\ edits = 0 /\ readFaults = 0 /\ sinkFaults = 0
  /\ verdictOk \in BOOLEAN
  /\ pc = "pass1"
  /\ log = <<>> /\ dead = FALSE /\ count = 0
  /\ sinkLines = <<>> /\ sinkCount = 0 /\ artifact = <<>> /\ sinkError = FALSE
  /\ spill = <<>> /\ spillError = FALSE
  /\ expect = NoExpectations
  /\ phase = "NotStarted" /\ pulling = FALSE
  /\ survivors = <<>> /\ chunks = <<>> /\ streamEnd = "open"

(***************************************************************************)
(* The environment: another process edits the file in place.               *)
(***************************************************************************)
Edit ==
  /\ edits < MaxEdits
  /\ edits' = edits + 1
  /\ \/ \E n \in DOMAIN file, kind \in Kinds :
          file' = [file EXCEPT ![n] = kind] /\ header' = header
     \/ \E kind \in Kinds :
          /\ Len(file) < MaxLines
          /\ file' = Append(file, kind) /\ header' = header
     \/ file # <<>> /\ file' = Front(file) /\ header' = header
     \/ format = "csv" /\ header' = 1 - header /\ file' = file
  /\ UNCHANGED <<format, verdictOk, readFaults, pc, log, dead, count, sinkVars,
                 spillVars, streamVars>>

(***************************************************************************)
(* The rejection sink                                                      *)
(***************************************************************************)
\* RejectionSink::record: counts always, writes until an error poisons it.
SinkRecord(line, origin) ==
  /\ sinkCount' = sinkCount + 1
  /\ sinkLines' = Append(sinkLines, line)
  /\ \/ /\ ~sinkError
        /\ artifact' = Append(artifact, [line |-> line, origin |-> origin])
        /\ UNCHANGED <<sinkError, sinkFaults>>
     \/ /\ ~sinkError /\ sinkFaults < MaxSinkFaults
        /\ sinkError' = TRUE
        /\ sinkFaults' = sinkFaults + 1
        /\ UNCHANGED artifact
     \/ sinkError /\ UNCHANGED <<artifact, sinkError, sinkFaults>>

\* ValidationSpill::record: counts the entry always, writes it likewise.
SpillRecord(line) ==
  /\ spill' = Append(spill, line)
  /\ \/ UNCHANGED <<spillError, sinkFaults>>
     \/ /\ ~spillError /\ sinkFaults < MaxSinkFaults
        /\ spillError' = TRUE
        /\ sinkFaults' = sinkFaults + 1

\* ValidationSpill::discard: only the spill's I/O error survives it.
Discard ==
  /\ spill' = <<>> /\ spillError' = FALSE
  /\ sinkError' = (sinkError \/ spillError)

\* The spilled rejections, rendered again under the resolved checks.
Spilled == [k \in DOMAIN spill |-> [line |-> spill[k], origin |-> "validation"]]

BugAppendSpill ==
  /\ spill' = <<>> /\ spillError' = FALSE
  /\ artifact' = artifact \o Spilled
  /\ sinkLines' = sinkLines \o spill
  /\ sinkCount' = sinkCount + Len(spill)
  /\ sinkError' = (sinkError \/ spillError)
  /\ UNCHANGED sinkFaults

\* Two line-ordered streams are interleaved; the artifact's side, which comes
\* first, wins a tie.
Place(entries, n) ==
  Cardinality({ m \in DOMAIN entries :
                  \/ entries[m].line < entries[n].line
                  \/ entries[m].line = entries[n].line /\ m <= n })
Interleaved(entries) ==
  [k \in DOMAIN entries |->
     entries[CHOOSE n \in DOMAIN entries : Place(entries, n) = k]]

\* RejectionSink::merge_spill: one merged artifact in line order, and the
\* merged lines and count; an I/O error leaves all three as they were.
MergeSpill ==
  LET merged == Interleaved(artifact \o Spilled)
      skipped == sinkError \/ spillError \/ spill = <<>>
  IN  /\ spill' = <<>> /\ spillError' = FALSE
      /\ \/ /\ skipped
            /\ sinkError' = (sinkError \/ spillError)
            /\ UNCHANGED <<sinkLines, sinkCount, artifact, sinkFaults>>
         \/ /\ ~skipped
            /\ artifact' = merged
            /\ sinkLines' = [k \in DOMAIN merged |-> merged[k].line]
            /\ sinkCount' = Len(merged)
            /\ UNCHANGED <<sinkError, sinkFaults>>
         \/ /\ ~skipped /\ sinkFaults < MaxSinkFaults
            /\ sinkError' = TRUE
            /\ sinkFaults' = sinkFaults + 1
            /\ UNCHANGED <<sinkLines, sinkCount, artifact>>

\* RejectionSink::take_io_error: the last flush may fail as well.
TakeIoError ==
  \/ UNCHANGED sinkVars
  \/ /\ ~sinkError /\ artifact # <<>> /\ sinkFaults < MaxSinkFaults
     /\ sinkError' = TRUE
     /\ sinkFaults' = sinkFaults + 1
     /\ \E kept \in 0 .. Len(artifact) - 1 :
          artifact' = SubSeq(artifact, 1, kept)
     /\ UNCHANGED <<sinkLines, sinkCount>>

(***************************************************************************)
(* Pass 1: one record at a time, then the verdict at end of input.         *)
(***************************************************************************)
AtEnd == dead \/ Len(log) >= Len(file)
NextLine == Len(log) + 1

ReadLine(kind) ==
  /\ ~AtEnd
  /\ kind = file[NextLine]
  /\ log' = Append(log, kind)
  /\ count' = IF kind = "blank" THEN count ELSE count + 1
  /\ UNCHANGED <<dead, readFaults>>

ObserveLine ==
  /\ pc = "pass1"
  /\ \E kind \in Kinds :
       /\ ReadLine(kind)
       /\ IF kind = "broken"
          THEN SinkRecord(NextLine, "parse") /\ UNCHANGED spillVars
          ELSE IF kind = "bad" /\ format = "csv" /\ verdictOk
          THEN SinkRecord(NextLine, "validation") /\ UNCHANGED spillVars
          ELSE IF kind = "bad" /\ format = "jsonl"
          THEN SpillRecord(NextLine)
               /\ UNCHANGED <<sinkLines, sinkCount, artifact, sinkError>>
          ELSE UNCHANGED <<sinkVars, spillVars>>
  /\ UNCHANGED <<sourceVars, pc, streamVars>>

\* An I/O error: JSONL fails the read; the csv reader reports it as one more
\* item that is not a record, without a position, and yields nothing after.
ReadFault ==
  /\ ~AtEnd
  /\ readFaults < MaxReadFaults
  /\ readFaults' = readFaults + 1

ObserveFault ==
  /\ pc = "pass1"
  /\ ReadFault
  /\ \/ /\ format = "csv"
        /\ dead' = TRUE
        /\ count' = count + 1
        /\ SinkRecord(0, "parse")
        /\ UNCHANGED <<pc, spillVars>>
     \/ /\ format = "jsonl"
        /\ Discard
        /\ pc' = "failed"
        /\ UNCHANGED <<dead, count, sinkLines, sinkCount, artifact, sinkFaults>>
  /\ UNCHANGED <<sourceVars, log, streamVars>>

\* JSONL fields exist only in records; a CSV header always declares them.
HasFields ==
  format = "csv" \/ LinesOf(log, Kinds \ {"broken", "blank"}) # {}

VerdictFails ==
  /\ pc = "pass1" /\ AtEnd
  /\ ~(verdictOk /\ HasFields)
  /\ Discard
  /\ pc' = "failed"
  /\ UNCHANGED <<sourceVars, readFaults, log, dead, count, sinkLines,
                 sinkCount, artifact, sinkFaults, streamVars>>

BugExpectBeforeMerge ==
  /\ pc = "pass1" /\ AtEnd
  /\ verdictOk /\ HasFields
  /\ MergeSpill
  /\ expect' = [rejected |-> ToSet(sinkLines), records |-> count,
                log |-> log, header |-> header]
  /\ pc' = "stream"
  /\ UNCHANGED <<sourceVars, readFaults, log, dead, count, phase, pulling,
                 survivors, chunks, streamEnd>>

VerdictPasses ==
  /\ pc = "pass1" /\ AtEnd
  /\ verdictOk /\ HasFields
  /\ MergeSpill
  /\ expect' = [rejected |-> ToSet(sinkLines'), records |-> count,
                log |-> log, header |-> header]
  /\ pc' = "stream"
  /\ UNCHANGED <<sourceVars, readFaults, log, dead, count, phase, pulling,
                 survivors, chunks, streamEnd>>

(***************************************************************************)
(* Pass 2: the write phase pulls one chunk after the other.                *)
(***************************************************************************)
Pull ==
  /\ pc = "stream" /\ streamEnd = "open" /\ ~pulling
  /\ pulling' = TRUE
  /\ UNCHANGED <<sourceVars, readFaults, pc, log, dead, count, sinkVars,
                 spillVars, expect, phase, survivors, chunks, streamEnd>>

\* Any failure of the stream is terminal.
StreamFails ==
  /\ streamEnd' = "failed" /\ phase' = "Done"
  /\ pulling' = FALSE /\ survivors' = <<>>
  /\ UNCHANGED <<expect, chunks>>

Yield(rows, next) ==
  IF Builds(rows)
  THEN /\ chunks' = Append(chunks, rows)
       /\ phase' = next
       /\ pulling' = FALSE /\ survivors' = <<>>
       /\ UNCHANGED <<expect, streamEnd>>
  ELSE StreamFails

\* The lazy open of the first pull; a CSV header must still be the resolved
\* one.
Open ==
  /\ pulling /\ phase = "NotStarted"
  /\ log' = <<>> /\ dead' = FALSE /\ count' = 0
  /\ \/ /\ header = expect.header
        /\ phase' = "Streaming"
        /\ UNCHANGED <<readFaults, expect, pulling, survivors, chunks, streamEnd>>
     \/ /\ header # expect.header
        /\ StreamFails
        /\ UNCHANGED readFaults
     \/ /\ readFaults < MaxReadFaults
        /\ readFaults' = readFaults + 1
        /\ StreamFails
  /\ UNCHANGED <<sourceVars, pc, sinkVars, spillVars>>

\* PassOneExpectations::cross_check: the outcome must be pass 1's.
Agrees(line, rejectedNow) == rejectedNow <=> line \in expect.rejected

\* A record that survives both passes joins the chunk, a full chunk is
\* yielded; a record rejected in both is skipped.
TakeRecord(kind) ==
  IF ~InShape(kind) \/ ~Agrees(NextLine, kind \notin Survivor)
  THEN StreamFails
  ELSE IF kind \notin Survivor
  THEN UNCHANGED streamVars
  ELSE LET rows == Append(survivors, [line |-> NextLine, kind |-> kind])
       IN  IF Len(rows) = ChunkRows
           THEN Yield(rows, "Streaming")
           ELSE /\ survivors' = rows
                /\ UNCHANGED <<expect, phase, pulling, chunks, streamEnd>>

StreamLine ==
  /\ pulling /\ phase = "Streaming"
  /\ \E kind \in Kinds :
       /\ ReadLine(kind)
       /\ IF kind = "blank" THEN UNCHANGED streamVars ELSE TakeRecord(kind)
  /\ UNCHANGED <<sourceVars, pc, sinkVars, spillVars>>

StreamFault ==
  /\ pulling /\ phase = "Streaming"
  /\ ReadFault
  /\ \/ /\ format = "csv"
        /\ dead' = TRUE
        /\ count' = count + 1
        /\ IF Agrees(0, TRUE) THEN UNCHANGED streamVars ELSE StreamFails
     \/ /\ format = "jsonl"
        /\ StreamFails
        /\ UNCHANGED <<dead, count>>
  /\ UNCHANGED <<sourceVars, pc, log, sinkVars, spillVars>>

BugTrailingEmptyChunk ==
  /\ pulling /\ phase = "Streaming" /\ AtEnd
  /\ Yield(survivors, "FinalCheck")
  /\ UNCHANGED <<sourceVars, readFaults, pc, log, dead, count, sinkVars,
                 spillVars>>

\* End of input: the last chunk, or the single empty one, goes out first.
LastChunk ==
  /\ pulling /\ phase = "Streaming" /\ AtEnd
  /\ IF survivors = <<>> /\ chunks # <<>>
     THEN /\ phase' = "FinalCheck"
          /\ UNCHANGED <<expect, pulling, survivors, chunks, streamEnd>>
     ELSE Yield(survivors, "FinalCheck")
  /\ UNCHANGED <<sourceVars, readFaults, pc, log, dead, count, sinkVars,
                 spillVars>>

BugCountOnly == count = expect.records

\* verify_end_of_input: the record count, then the bytes read.
Reproduced == count = expect.records /\ log = expect.log

FinalCheck ==
  /\ pulling /\ phase = "FinalCheck"
  /\ IF Reproduced
     THEN /\ streamEnd' = "ended" /\ phase' = "Done" /\ pulling' = FALSE
          /\ UNCHANGED <<expect, survivors, chunks>>
     ELSE StreamFails
  /\ UNCHANGED <<sourceVars, readFaults, pc, log, dead, count, sinkVars,
                 spillVars>>

(***************************************************************************)
(* The load is done with the source: it failed before the stream, drained  *)
(* it, or stopped pulling.                                                 *)
(***************************************************************************)
Finish ==
  /\ pc \in {"failed", "stream"} /\ ~pulling
  /\ pc' = "over"
  /\ TakeIoError
  /\ UNCHANGED <<sourceVars, readFaults, log, dead, count, spillVars, streamVars>>

Over == pc = "over" /\ UNCHANGED vars

Next ==
  \/ Edit
  \/ ObserveLine \/ ObserveFault \/ VerdictFails \/ VerdictPasses
  \/ Pull \/ Open \/ StreamLine \/ StreamFault \/ LastChunk \/ FinalCheck
  \/ Finish \/ Over

Spec == Init /\ [][Next]_vars
-----------------------------------------------------------------------------
(* Properties.                                                             *)

Delivered == UNION { ToSet(chunks[k]) : k \in DOMAIN chunks }

\* The records of pass 1 that no check rejected, with their bytes.
PassOneSurvivors ==
  { [line |-> n, kind |-> expect.log[n]] : n \in LinesOf(expect.log, Survivor) }

Rejections(lines) == LinesOf(lines, {"broken", "bad"})

\* A stream that ends cleanly delivered exactly the records pass 1 let
\* through, byte for byte, however the file was edited in between
\* (ADR-0045); until then everything delivered was read in pass 2 where
\* pass 1 had read a survivor on the same line.
StreamFaithful ==
  /\ streamEnd = "ended" => Delivered = PassOneSurvivors
  /\ { row.line : row \in Delivered } \intersect expect.rejected = {}

\* A source nobody edits, read without a fault, never diverges from itself,
\* whatever its records and wherever the chunk bound falls.
NoFalseAlarm ==
  edits = 0 /\ readFaults = 0 /\ sinkFaults = 0 => streamEnd # "failed"

InSourceOrder(batches) ==
  \A k, l \in DOMAIN batches :
    \A i \in DOMAIN batches[k], j \in DOMAIN batches[l] :
      k < l \/ (k = l /\ i < j) => batches[k][i].line < batches[l][j].line

\* Chunks hold ChunkRows records each, in source order without a repeat; only
\* the last is shorter, and only the one of a survivor-free load is empty.
ChunkShape ==
  /\ \A k \in DOMAIN chunks :
       /\ Len(chunks[k]) <= ChunkRows
       /\ k < Len(chunks) => Len(chunks[k]) = ChunkRows
       /\ chunks[k] = <<>> => Len(chunks) = 1
  /\ InSourceOrder(chunks)
  /\ streamEnd = "ended" => chunks # <<>>

\* A load that goes on to a report left an artifact of exactly the rejected
\* records, in source order: parse and validation rejections after a passing
\* verdict, parse rejections alone after a failing one (ADR-0036, ADR-0045).
ArtifactWhole ==
  pc = "over" /\ ~sinkError /\ readFaults = 0 =>
    /\ \A k \in 1 .. Len(artifact) - 1 : artifact[k].line < artifact[k + 1].line
    /\ Len(artifact) = sinkCount
    /\ expect = NoExpectations =>
         \A k \in DOMAIN artifact : artifact[k].origin = "parse"
    /\ expect # NoExpectations =>
         { artifact[k].line : k \in DOMAIN artifact } = Rejections(expect.log)

\* rejection.rs:85-88: an I/O failure of the sink does not interrupt the pass,
\* "the load keeps its semantics": the rejected count it is gated on is that
\* of its records.
PoisonKeepsSemantics ==
  pc = "stream" => sinkCount = Cardinality(Rejections(expect.log))

\* load-definition.md:172: every whole-input decision, the reject threshold
\* among them, "is made over the full input before any record is written".
DecisionOverFullInput ==
  pc = "stream" /\ edits = 0 => Len(expect.log) = Len(file)
=============================================================================
