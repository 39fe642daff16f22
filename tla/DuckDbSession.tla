---------------------------- MODULE DuckDbSession ----------------------------
(***************************************************************************)
(* The DuckDB destination: sessions of loads, one after the other, on one  *)
(* table of an embedded database.  A full refresh replaces the table and a *)
(* merge updates it inside one transaction each; an append commits every   *)
(* chunk by itself.  The database is external: a statement that fails has  *)
(* no effect, and closing or losing a connection rolls its transaction     *)
(* back.                                                                   *)
(*                                                                         *)
(* A row of the table is what inserted it, its merge key tuple, and whose  *)
(* values it holds now; a record is identified by its load, chunk and      *)
(* place in the chunk.  The columns of a row are one value: that a merge   *)
(* whose keys are all the columns updates nothing is not told apart.       *)
(***************************************************************************)
EXTENDS Naturals, Sequences, FiniteSets

CONSTANTS
  Modes,       \* the load modes in use
  Keys,        \* merge key tuples; null keys are rejected before the write
  Schemas,     \* what a chunk, or the table, may be made of
  None,        \* the schema of a table that is not there
  MaxLoads,    \* bound: loads
  MaxChunks,   \* bound: chunks of a load
  MaxRows      \* bound: records of a chunk

ASSUME DuckDbAssumption ==
  /\ Modes \subseteq {"full_refresh", "append", "merge"}
  /\ None \notin Schemas
  /\ {MaxLoads, MaxChunks, MaxRows} \subseteq Nat

VARIABLES
  table,    \* the committed table: its schema and rows
  view,     \* the table as the open transaction sees it
  stage,    \* merge: the rows of the temporary staging table
  conn,     \* "closed", "auto" (no transaction) or "tran"
  load,     \* loads begun
  mode,
  plan,     \* the schema of the load's chunks
  seen,     \* destination_schema, inspected at session start
  chunks,   \* the keys of the chunks written, chunk by chunk
  updated,  \* merge: staged records that match the destination
  pc,       \* where the session is
  out,      \* what it reported
  before    \* the table when the session opened

database == <<table, view, stage, conn>>
definition == <<load, mode, plan, seen, before>>
vars == <<database, definition, chunks, updated, pc, out>>

NoTable == [schema |-> None, rows |-> {}]
Pending == [status |-> "pending", facts |-> "none", committed |-> 0,
            records |-> 0, updated |-> 0, inserted |-> 0]

Row(id, key) == [id |-> id, key |-> key, value |-> id]

\* The rows that chunk number c of this load, of these keys, brings.
RowsOf(c, keys) == { Row(<<load, c, n>>, keys[n]) : n \in DOMAIN keys }
Sent == UNION { RowsOf(c, chunks[c]) : c \in DOMAIN chunks }
KeysOf(rows) == { r.key : r \in rows }

Init ==
  /\ table = NoTable /\ view = NoTable /\ stage = {} /\ conn = "closed"
  /\ load = 0 /\ mode = "none" /\ plan = None /\ seen = None
  /\ chunks = <<>> /\ updated = 0
  /\ pc = "idle" /\ out = Pending
  /\ before = NoTable

-----------------------------------------------------------------------------
\* Definitions named Bug... are not part of the model: each is a plausible
\* mistake in the definition that follows it.

(***************************************************************************)
(* How a session is over: it reports, and its connection is dropped.       *)
(***************************************************************************)
Dropped == view' = NoTable /\ stage' = {} /\ conn' = "closed"

Reports(status, facts, committed, records, pair) ==
  /\ pc' = "over"
  /\ out' = [status |-> status, facts |-> facts, committed |-> committed,
             records |-> records, updated |-> pair[1], inserted |-> pair[2]]
  /\ Dropped

Fails(facts, committed, records) ==
  Reports("failed", facts, committed, records, <<0, 0>>)

\* A failure inside a transaction: replace_failure, transactional_failure.
FailsInside == Fails("atomic", 0, 0)

Total == Cardinality(Sent)

\* chunk_failure and append_abandoned: the committed prefix stays.
AppendEnds ==
  Fails(IF chunks # <<>> THEN "best_effort" ELSE "not_applicable",
        Len(chunks), Total)

(***************************************************************************)
(* Opening a session.                                                      *)
(***************************************************************************)
Starts(m) ==
  /\ pc \in {"idle", "over", "dead"} /\ load < MaxLoads
  /\ m \in Modes
  /\ load' = load + 1 /\ mode' = m /\ plan' \in Schemas
  /\ before' = table
  /\ chunks' = <<>> /\ updated' = 0

Opened ==
  /\ pc' = "open" /\ out' = Pending
  /\ stage' = {}
  /\ UNCHANGED table

BeginRefresh ==
  /\ Starts("full_refresh") /\ Opened
  /\ seen' = None
  /\ conn' = "tran" /\ view' = table

\* inspect_schema: the table must be there.
BeginAppend ==
  /\ Starts("append") /\ Opened
  /\ table # NoTable /\ seen' = table.schema
  /\ conn' = "auto" /\ view' = NoTable

BeginMerge ==
  /\ Starts("merge") /\ Opened
  /\ table # NoTable /\ seen' = table.schema
  /\ conn' = "tran" /\ view' = table

\* The database cannot be opened, the table is not there, or a statement of
\* the opening fails.
BeginFails ==
  /\ \E m \in Modes : Starts(m)
  /\ seen' = None
  /\ Fails("not_applicable", 0, 0)
  /\ UNCHANGED table

(***************************************************************************)
(* Writing chunks, one at a time: the parallelism limit is 1.              *)
(***************************************************************************)
ChunkKeys == UNION { [1 .. n -> Keys] : n \in 0 .. MaxRows }
Writes(m) == pc = "open" /\ mode = m /\ Len(chunks) < MaxChunks
NextChunk == Len(chunks) + 1

\* The first chunk replaces the table, the others extend it.
WriteRefresh ==
  /\ Writes("full_refresh")
  /\ \E keys \in ChunkKeys :
       /\ view' = [schema |-> plan,
                   rows   |-> RowsOf(NextChunk, keys) \union
                              IF chunks = <<>> THEN {} ELSE view.rows]
       /\ chunks' = Append(chunks, keys)
  /\ UNCHANGED <<table, stage, conn, definition, updated, pc, out>>

\* align_batch_to_duckdb_schema: the chunk has the columns and types of the
\* table, and no null where the table admits none.
Aligns(nulls) == seen = plan /\ ~nulls

Misaligned ==
  /\ Writes("append") \/ Writes("merge")
  /\ \E nulls \in BOOLEAN : ~Aligns(nulls)
  /\ IF mode = "append" THEN AppendEnds ELSE FailsInside
  /\ UNCHANGED <<table, definition, chunks, updated>>

WriteAppend ==
  /\ Writes("append")
  /\ \E nulls \in BOOLEAN : Aligns(nulls)
  /\ \E keys \in ChunkKeys :
       /\ table' = [table EXCEPT !.rows = @ \union RowsOf(NextChunk, keys)]
       /\ chunks' = Append(chunks, keys)
  /\ UNCHANGED <<view, stage, conn, definition, updated, pc, out>>

WriteMerge ==
  /\ Writes("merge")
  /\ \E nulls \in BOOLEAN : Aligns(nulls)
  /\ \E keys \in ChunkKeys :
       /\ stage' = stage \union RowsOf(NextChunk, keys)
       /\ chunks' = Append(chunks, keys)
  /\ UNCHANGED <<table, view, conn, definition, updated, pc, out>>

\* The statement fails; an append reports best_effort whatever came before.
WriteFails ==
  /\ \E m \in Modes : Writes(m)
  /\ mode # "full_refresh" => \E nulls \in BOOLEAN : Aligns(nulls)
  /\ IF mode = "append" THEN Fails("best_effort", Len(chunks), Total)
                        ELSE FailsInside
  /\ UNCHANGED <<table, definition, chunks, updated>>

\* The load fails elsewhere while the session is open.
Abandon ==
  /\ pc = "open"
  /\ IF mode = "append" THEN AppendEnds ELSE Fails("not_applicable", 0, 0)
  /\ UNCHANGED <<table, definition, chunks, updated>>

(***************************************************************************)
(* The terminal statements.  A load sends at least one chunk.              *)
(***************************************************************************)
BugNoGate == FALSE

\* colliding_records_sql: the records that share their key with another.
Colliding == \E r, s \in stage : r.id # s.id /\ r.key = s.key

Gate ==
  /\ pc = "open" /\ mode = "merge" /\ chunks # <<>>
  /\ IF Colliding THEN FailsInside
     ELSE pc' = "gated" /\ UNCHANGED <<view, stage, conn, out>>
  /\ UNCHANGED <<table, definition, chunks, updated>>

BugCountsTarget == { r \in view.rows : r.key \in KeysOf(stage) }

\* matched_records_sql counts records of the stage, not of the table.
Matched == { r \in stage : r.key \in KeysOf(view.rows) }

CountMatched ==
  /\ pc = "gated"
  /\ updated' = Cardinality(Matched)
  /\ pc' = "counted"
  /\ UNCHANGED <<database, definition, chunks, out>>

\* MERGE INTO: a matched row takes the values of a staged record, of any one
\* if several match; staged records that match no row are inserted.
MergeInto ==
  /\ pc = "counted"
  /\ \E source \in { f \in [KeysOf(stage) -> stage] :
                       \A k \in KeysOf(stage) : f[k].key = k } :
       LET replaced == { IF r.key \in KeysOf(stage)
                         THEN [r EXCEPT !.value = source[r.key].id] ELSE r
                         : r \in view.rows }
       IN  view' = [view EXCEPT !.rows =
                      replaced \union
                      { r \in stage : r.key \notin KeysOf(view.rows) }]
  /\ pc' = "merged"
  /\ UNCHANGED <<table, stage, conn, definition, chunks, updated, out>>

BugCommitsUnmerged ==
  \/ pc \in {"counted", "merged"}
  \/ pc = "open" /\ mode = "full_refresh" /\ chunks # <<>>

MayCommit ==
  \/ pc = "merged"
  \/ pc = "open" /\ mode = "full_refresh" /\ chunks # <<>>

Commit ==
  /\ MayCommit
  /\ table' = view
  /\ conn' = "auto" /\ view' = NoTable
  /\ pc' = "closing"
  /\ UNCHANGED <<stage, definition, chunks, updated, out>>

\* A terminal statement before or at the COMMIT fails.
StatementFails ==
  /\ \/ pc \in {"gated", "counted"} \/ MayCommit
     \/ pc = "open" /\ mode = "merge" /\ chunks # <<>>
  /\ FailsInside
  /\ UNCHANGED <<table, definition, chunks, updated>>

AppendDone ==
  /\ pc = "open" /\ mode = "append" /\ chunks # <<>>
  /\ pc' = "closing"
  /\ UNCHANGED <<database, definition, chunks, updated, out>>

Boundary == IF mode = "append" THEN "best_effort" ELSE "atomic"

Close ==
  /\ pc = "closing"
  /\ Reports("succeeded", Boundary, Len(chunks), Total,
             IF mode = "merge" THEN <<updated, Total - updated>> ELSE <<0, 0>>)
  /\ UNCHANGED <<table, definition, chunks, updated>>

BugCloseTakesBack ==
  /\ pc = "closing"
  /\ FailsInside
  /\ UNCHANGED <<table, definition, chunks, updated>>

\* The write had already committed: it is counted, a merge's partition not.
CloseFails ==
  /\ pc = "closing"
  /\ Fails(Boundary, Len(chunks), Total)
  /\ UNCHANGED <<table, definition, chunks, updated>>

\* The process dies.
Crash ==
  /\ pc \notin {"idle", "over", "dead"}
  /\ pc' = "dead"
  /\ Dropped
  /\ UNCHANGED <<table, definition, chunks, updated, out>>

Next ==
  \/ BeginRefresh \/ BeginAppend \/ BeginMerge \/ BeginFails
  \/ WriteRefresh \/ WriteAppend \/ WriteMerge \/ Misaligned \/ WriteFails
  \/ Abandon
  \/ Gate \/ CountMatched \/ MergeInto \/ Commit \/ StatementFails
  \/ AppendDone \/ Close \/ CloseFails
  \/ Crash

Spec == Init /\ [][Next]_vars

-----------------------------------------------------------------------------
\* The whole of an append that got this far, of a refresh, and of a merge: of
\* every staged key the rows that were there hold the record's values and one
\* was added if none was there; the rows of other keys are as they were.
Appended == table = [before EXCEPT !.rows = @ \union Sent]
Replaced == table = [schema |-> plan, rows |-> Sent]
Keyed(rows, k) == { r \in rows : r.key = k }
UpsertedIn(t) ==
  /\ t.schema = before.schema
  /\ \A k \in Keys \ KeysOf(Sent) : Keyed(t.rows, k) = Keyed(before.rows, k)
  /\ \A s \in Sent :
       /\ \A r \in Keyed(t.rows, s.key) : r.value = s.id
       /\ { r.id : r \in Keyed(t.rows, s.key) } =
            IF Keyed(before.rows, s.key) = {} THEN {s.id}
            ELSE { r.id : r \in Keyed(before.rows, s.key) }
Upserted == UpsertedIn(table)

\* Whatever statement fails and whenever the process dies, the table holds
\* all of a refresh or a merge or nothing of it, and of an append exactly the
\* chunks it was acknowledged (ADR-0047, ADR-0059).
AllOrNothing ==
  CASE mode = "full_refresh" -> table = before \/ Replaced
    [] mode = "merge"        -> table = before \/ Upserted
    [] mode = "append"       -> Appended
    [] OTHER                 -> table = NoTable

\* A report that counts a chunk stands for a whole write, also when the close
\* failed after the commit; one that counts none, as every not_applicable one
\* does, for an untouched table.
CountedIsCommitted ==
  pc = "over" =>
    /\ out.facts = "not_applicable" => out.status = "failed" /\ out.committed = 0
    /\ IF out.committed = 0 THEN table = before
       ELSE /\ out.committed = Len(chunks) /\ out.records = Total
            /\ mode = "full_refresh" => Replaced
            /\ mode = "merge" => Upserted

\* updated and inserted partition the written records of a merge, and the
\* table grew by the inserted ones, however many rows one record replaced.
MergeCounts ==
  out.status = "succeeded" /\ mode = "merge" =>
    /\ out.updated + out.inserted = out.records
    /\ Cardinality(table.rows) = Cardinality(before.rows) + out.inserted

-----------------------------------------------------------------------------
(* The refinement mapping onto SessionContract.                            *)
KindBar ==
  CASE mode = "full_refresh" -> "replacing"
    [] mode = "merge"        -> "updating"
    [] OTHER                 -> "adding"

EndBar ==
  CASE pc \in {"open", "gated", "counted", "merged"} -> "open"
    [] pc = "closing" -> "landed"
    [] pc = "over" /\ out.status = "succeeded" -> "kept"
    [] OTHER -> "ended"

HandedBar == { r.id : r \in Sent }
ShownIn(t) == { r.value : r \in t.rows }

Contract == INSTANCE SessionContract
              WITH Records <- Nat \X Nat \X Nat,
                   kind <- KindBar, end <- EndBar,
                   handed <- HandedBar, content <- ShownIn(table)

\* The sessions implement the contract of the port: whatever fails and
\* whenever the process dies, a refresh or a merge appears in one step, whole,
\* and only an open session changes what a reader sees (ADR-0047).
ImplementsSession == Contract!Spec
=============================================================================
