------------------------ MODULE DuckDbSessionProofs ------------------------
(***************************************************************************)
(* Theorems about DuckDbSession, for every set of load modes, keys and     *)
(* schemas and every number of loads, chunks and records.                  *)
(***************************************************************************)
EXTENDS DuckDbSession, FiniteSetTheorems, TLAPS

Ids == Nat \X Nat \X Nat
Rows == [id : Ids, key : Keys, value : Ids]
Tables == [schema : Schemas \union {None}, rows : SUBSET Rows]

TypeOK ==
  /\ table \in Tables /\ view \in Tables /\ before \in Tables
  /\ stage \subseteq Rows
  /\ conn \in {"closed", "auto", "tran"}
  /\ load \in Nat
  /\ mode \in Modes \union {"none"}
  /\ plan \in Schemas \union {None} /\ seen \in Schemas \union {None}
  /\ chunks \in Seq(ChunkKeys)
  /\ updated \in Nat
  /\ pc \in {"idle", "open", "gated", "counted", "merged", "closing", "over",
             "dead"}
  /\ out \in [status : {"pending", "failed", "succeeded"},
              facts : {"none", "not_applicable", "best_effort", "atomic"},
              committed : Nat, records : Nat, updated : Nat, inserted : Int]

\* The rows of a table are finitely many, no two rows have the same identity,
\* and none comes from a load yet to begin.
Good(t, newest) ==
  /\ IsFiniteSet(t.rows)
  /\ \A r, s \in t.rows : r.id = s.id => r = s
  /\ \A r \in t.rows : r.id[1] <= newest

DataInv ==
  /\ Good(table, load) /\ Good(view, load)
  /\ Good(before, load) /\ \A r \in before.rows : r.id[1] < load
  /\ IsFiniteSet(Sent)

MatchedBefore == { r \in Sent : r.key \in KeysOf(before.rows) }

\* What a merge makes of the table: the upsert, and its size.
MergedInto(t) ==
  /\ UpsertedIn(t)
  /\ updated = Cardinality(MatchedBefore)
  /\ Cardinality(t.rows) = Cardinality(before.rows) + (Total - updated)

\* What each mode has done by the time its session stands where it does.
RefreshInv ==
  mode = "full_refresh" =>
    /\ pc \notin {"gated", "counted", "merged"}
    /\ pc = "open" =>
         /\ table = before
         /\ chunks # <<>> => view = [schema |-> plan, rows |-> Sent]
    /\ pc = "closing" => Replaced

AppendInv ==
  mode = "append" =>
    /\ pc \in {"open", "closing", "over", "dead"}
    /\ Appended

MergeInv ==
  mode = "merge" =>
    /\ pc \in {"open", "gated", "counted", "merged"} => table = before
    /\ pc \in {"open", "gated", "counted"} => view = before /\ stage = Sent
    /\ pc \in {"gated", "counted"} => ~Colliding
    /\ pc = "counted" => updated = Cardinality(MatchedBefore)
    /\ pc = "merged" => MergedInto(view)
    /\ pc = "closing" => MergedInto(table)

SessionInv ==
  /\ pc = "idle" => mode = "none"
  /\ mode = "none" => table = NoTable /\ pc = "idle"
  /\ pc # "over" => out = Pending
  /\ pc \in {"gated", "counted", "merged", "closing"} => chunks # <<>>

IInv ==
  /\ TypeOK /\ DataInv /\ SessionInv
  /\ RefreshInv /\ AppendInv /\ MergeInv
  /\ AllOrNothing /\ CountedIsCommitted /\ MergeCounts

-----------------------------------------------------------------------------
(* The rows of chunks.                                                     *)

LEMMA ChunkKeysType ==
  ASSUME NEW keys \in ChunkKeys
  PROVE  \E n \in Nat : DOMAIN keys = 1 .. n /\ keys \in [1 .. n -> Keys]
<1>1. PICK n \in 0 .. MaxRows : keys \in [1 .. n -> Keys]
  BY DEF ChunkKeys
<1>. QED
  BY <1>1, DuckDbAssumption

\* A chunk brings finitely many rows, each with an identity that names the load,
\* the chunk and the record.
LEMMA RowsOfChunk ==
  ASSUME NEW c \in Nat, NEW keys \in ChunkKeys, load \in Nat
  PROVE  /\ RowsOf(c, keys) \subseteq Rows
         /\ IsFiniteSet(RowsOf(c, keys))
<1>1. PICK n \in Nat : DOMAIN keys = 1 .. n /\ keys \in [1 .. n -> Keys]
  BY ChunkKeysType
<1>2. ASSUME NEW i \in 1 .. n PROVE Row(<<load, c, i>>, keys[i]) \in Rows
  BY <1>1 DEF Row, Rows, Ids
<1>3. RowsOf(c, keys) \subseteq Rows
  BY <1>1, <1>2 DEF RowsOf
<1>4. IsFiniteSet(RowsOf(c, keys))
  <2>. DEFINE f == [i \in 1 .. n |-> Row(<<load, c, i>>, keys[i])]
  <2>1. f \in Surjection(1 .. n, RowsOf(c, keys))
    BY <1>1 DEF RowsOf, Surjection
  <2>. QED
    BY <1>1, <2>1, FS_Interval, FS_Surjection
<1>. QED
  BY <1>3, <1>4

\* What a load sent, record by record.
LEMMA SentRow ==
  ASSUME NEW r \in Sent
  PROVE  \E c \in DOMAIN chunks : \E n \in DOMAIN chunks[c] :
           r = Row(<<load, c, n>>, chunks[c][n])
  BY DEF Sent, RowsOf

SentOK ==
  /\ Sent \subseteq Rows
  /\ \A r, s \in Sent : r.id = s.id => r = s
  /\ \A r \in Sent : r.id[1] = load /\ r.value = r.id

LEMMA SentType == TypeOK => SentOK
<1> SUFFICES ASSUME TypeOK PROVE SentOK
  OBVIOUS
<1>1. ASSUME NEW c \in DOMAIN chunks PROVE RowsOf(c, chunks[c]) \subseteq Rows
  <2>1. c \in Nat /\ chunks[c] \in ChunkKeys /\ load \in Nat
    BY DEF TypeOK
  <2>. QED
    BY <2>1, RowsOfChunk
<1>2. Sent \subseteq Rows
  BY <1>1 DEF Sent
<1>3. ASSUME NEW r \in Sent PROVE r.id[1] = load /\ r.value = r.id
  BY SentRow DEF Row
<1>4. ASSUME NEW r \in Sent, NEW s \in Sent, r.id = s.id PROVE r = s
  <2>1. PICK c \in DOMAIN chunks : \E n \in DOMAIN chunks[c] :
          r = Row(<<load, c, n>>, chunks[c][n])
    BY SentRow
  <2>2. PICK n \in DOMAIN chunks[c] : r = Row(<<load, c, n>>, chunks[c][n])
    BY <2>1
  <2>3. PICK d \in DOMAIN chunks : \E m \in DOMAIN chunks[d] :
          s = Row(<<load, d, m>>, chunks[d][m])
    BY SentRow
  <2>4. PICK m \in DOMAIN chunks[d] : s = Row(<<load, d, m>>, chunks[d][m])
    BY <2>3
  <2>5. <<load, c, n>> = <<load, d, m>>
    BY <1>4, <2>2, <2>4 DEF Row
  <2>6. c = d /\ n = m
    BY <2>5
  <2>. QED
    BY <2>2, <2>4, <2>6
<1>. QED
  BY <1>2, <1>3, <1>4 DEF SentOK

LEMMA SentTypeNext == TypeOK' => SentOK'
  BY SentType, PTL

LEMMA NothingSent == chunks = <<>> => Sent = {}
  BY DEF Sent

\* A chunk written adds its rows to what was sent.
LEMMA SentGrows ==
  ASSUME TypeOK, NEW keys \in ChunkKeys, chunks' = Append(chunks, keys), load' = load
  PROVE  Sent' = Sent \union RowsOf(NextChunk, keys)
<1>1. chunks \in Seq(ChunkKeys) /\ Len(chunks) \in Nat
  BY DEF TypeOK
<1>2. /\ DOMAIN chunks' = DOMAIN chunks \union {NextChunk}
      /\ chunks'[NextChunk] = keys
      /\ \A c \in DOMAIN chunks : chunks'[c] = chunks[c] /\ c # NextChunk
  BY <1>1 DEF NextChunk
<1>3. Sent' = UNION { RowsOf(c, chunks'[c]) : c \in DOMAIN chunks' }
  BY DEF Sent, RowsOf
<1>. QED
  BY <1>2, <1>3 DEF Sent

-----------------------------------------------------------------------------
LEMMA InitIInv == Init => IInv
<1> SUFFICES ASSUME Init PROVE IInv
  OBVIOUS
<1> USE DuckDbAssumption DEF Init
<1>1. TypeOK
  BY DEF TypeOK, Tables, NoTable, Pending
<1>2. Sent = {}
  BY NothingSent
<1>3. DataInv
  BY <1>2, FS_EmptySet DEF DataInv, Good, NoTable
<1>4. SessionInv /\ RefreshInv /\ AppendInv /\ MergeInv
  BY DEF SessionInv, RefreshInv, AppendInv, MergeInv
<1>5. AllOrNothing /\ CountedIsCommitted /\ MergeCounts
  BY DEF AllOrNothing, CountedIsCommitted, MergeCounts, Pending
<1>. QED
  BY <1>1, <1>3, <1>4, <1>5 DEF IInv

-----------------------------------------------------------------------------
(* Types.                                                                  *)

LEMMA TotalType == IsFiniteSet(Sent) => Total \in Nat
  BY FS_CardinalityType DEF Total

LEMMA NoTableType == NoTable \in Tables
  BY DEF NoTable, Tables

\* A session that reports: its report is typed, its transaction is gone.
LEMMA ReportsType ==
  ASSUME TypeOK,
         NEW status \in {"failed", "succeeded"},
         NEW facts \in {"not_applicable", "best_effort", "atomic"},
         NEW committed \in Nat, NEW records \in Nat,
         NEW u \in Nat, NEW i \in Int,
         Reports(status, facts, committed, records, <<u, i>>),
         UNCHANGED <<table, definition, chunks, updated>>
  PROVE  TypeOK'
<1>1. out' \in [status : {"pending", "failed", "succeeded"},
               facts : {"none", "not_applicable", "best_effort", "atomic"},
               committed : Nat, records : Nat, updated : Nat, inserted : Int]
  BY DEF Reports
<1>2. view' \in Tables /\ stage' \subseteq Rows /\ conn' = "closed" /\ pc' = "over"
  BY NoTableType DEF Reports, Dropped
<1>. QED
  BY <1>1, <1>2 DEF TypeOK, definition

LEMMA FailsType ==
  ASSUME TypeOK,
         NEW facts \in {"not_applicable", "best_effort", "atomic"},
         NEW committed \in Nat, NEW records \in Nat,
         Fails(facts, committed, records),
         UNCHANGED <<table, definition, chunks, updated>>
  PROVE  TypeOK'
  BY ReportsType DEF Fails

LEMMA AppendEndsType ==
  ASSUME TypeOK, IsFiniteSet(Sent), AppendEnds,
         UNCHANGED <<table, definition, chunks, updated>>
  PROVE  TypeOK'
<1>1. Len(chunks) \in Nat /\ Total \in Nat
  BY TotalType DEF TypeOK
<1>2. CASE chunks # <<>>
  BY <1>1, <1>2, FailsType DEF AppendEnds
<1>3. CASE chunks = <<>>
  BY <1>1, <1>3, FailsType DEF AppendEnds
<1>. QED
  BY <1>2, <1>3

LEMMA AppendChunkType ==
  ASSUME TypeOK, NEW keys \in ChunkKeys
  PROVE  /\ Append(chunks, keys) \in Seq(ChunkKeys)
         /\ RowsOf(NextChunk, keys) \subseteq Rows
         /\ IsFiniteSet(RowsOf(NextChunk, keys))
<1>1. NextChunk \in Nat /\ load \in Nat
  BY DEF TypeOK, NextChunk
<1>. QED
  BY <1>1, RowsOfChunk DEF TypeOK

LEMMA OpensType ==
  ASSUME TypeOK, NEW m \in Modes, Starts(m), Opened, seen' \in Schemas \union {None},
         conn' \in {"auto", "tran"}, view' \in {table, NoTable}
  PROVE  TypeOK'
<1>1. /\ pc' = "open" /\ stage' = {} /\ table' = table /\ before' = table
      /\ load' = load + 1 /\ mode' = m /\ plan' \in Schemas
      /\ chunks' = <<>> /\ updated' = 0
  BY DEF Starts, Opened
<1>2. out' \in [status : {"pending", "failed", "succeeded"},
               facts : {"none", "not_applicable", "best_effort", "atomic"},
               committed : Nat, records : Nat, updated : Nat, inserted : Int]
  BY DEF Opened, Pending
<1>. QED
  BY <1>1, <1>2, NoTableType DEF TypeOK

\* Where a merge stands between its gate and its MERGE INTO.
LEMMA InMerge ==
  ASSUME IInv, pc \in {"gated", "counted", "merged"}
  PROVE  /\ mode = "merge" /\ table = before
         /\ pc # "merged" => view = before /\ stage = Sent /\ ~Colliding
         /\ pc = "counted" => updated = Cardinality(MatchedBefore)
  BY DuckDbAssumption
  DEF IInv, TypeOK, SessionInv, RefreshInv, AppendInv, MergeInv

\* Counting matched records.
LEMMA MatchedIsFinite ==
  ASSUME IsFiniteSet(Sent)
  PROVE  /\ IsFiniteSet(MatchedBefore) /\ Cardinality(MatchedBefore) \in Nat
  BY FS_Subset, FS_CardinalityType DEF MatchedBefore

LEMMA NextTypeOK == IInv /\ [Next]_vars => TypeOK'
<1> SUFFICES ASSUME IInv, [Next]_vars PROVE TypeOK'
  OBVIOUS
<1>0. TypeOK /\ IsFiniteSet(Sent)
  BY DEF IInv, DataInv
<1> USE <1>0
<1>1. CASE BeginRefresh
  BY <1>1, OpensType DEF BeginRefresh, Starts
<1>2. CASE BeginAppend
  BY <1>2, OpensType DEF BeginAppend, Starts, TypeOK, Tables
<1>3. CASE BeginMerge
  BY <1>3, OpensType DEF BeginMerge, Starts, TypeOK, Tables
<1>4. CASE BeginFails
  <2>1. PICK m \in Modes : Starts(m)
    BY <1>4 DEF BeginFails
  <2>2. /\ pc' = "over" /\ view' = NoTable /\ stage' = {} /\ conn' = "closed"
        /\ seen' = None /\ table' = table
    BY <1>4 DEF BeginFails, Fails, Reports, Dropped
  <2>3. out' \in [status : {"pending", "failed", "succeeded"},
                 facts : {"none", "not_applicable", "best_effort", "atomic"},
                 committed : Nat, records : Nat, updated : Nat, inserted : Int]
    BY <1>4 DEF BeginFails, Fails, Reports
  <2>. QED
    BY <2>1, <2>2, <2>3, NoTableType DEF Starts, TypeOK
<1>5. CASE WriteRefresh
  <2>1. PICK keys \in ChunkKeys :
          /\ view' = [schema |-> plan,
                      rows   |-> RowsOf(NextChunk, keys) \union
                                 IF chunks = <<>> THEN {} ELSE view.rows]
          /\ chunks' = Append(chunks, keys)
    BY <1>5 DEF WriteRefresh
  <2>2. view' \in Tables /\ chunks' \in Seq(ChunkKeys)
    BY <2>1, AppendChunkType DEF TypeOK, Tables
  <2>. QED
    BY <1>5, <2>2 DEF WriteRefresh, TypeOK, definition
<1>6. CASE WriteAppend
  <2>1. PICK keys \in ChunkKeys :
          /\ table' = [table EXCEPT !.rows = @ \union RowsOf(NextChunk, keys)]
          /\ chunks' = Append(chunks, keys)
    BY <1>6 DEF WriteAppend
  <2>2. table' \in Tables /\ chunks' \in Seq(ChunkKeys)
    BY <2>1, AppendChunkType DEF TypeOK, Tables
  <2>. QED
    BY <1>6, <2>2 DEF WriteAppend, TypeOK, definition
<1>7. CASE WriteMerge
  <2>1. PICK keys \in ChunkKeys :
          /\ stage' = stage \union RowsOf(NextChunk, keys)
          /\ chunks' = Append(chunks, keys)
    BY <1>7 DEF WriteMerge
  <2>2. stage' \subseteq Rows /\ chunks' \in Seq(ChunkKeys)
    BY <2>1, AppendChunkType DEF TypeOK
  <2>. QED
    BY <1>7, <2>2 DEF WriteMerge, TypeOK, definition
<1>8. CASE Misaligned
  <2>1. CASE AppendEnds
    BY <1>8, <2>1, AppendEndsType DEF Misaligned
  <2>2. CASE FailsInside
    BY <1>8, <2>2, FailsType DEF Misaligned, FailsInside
  <2>. QED
    BY <1>8, <2>1, <2>2 DEF Misaligned
<1>9. CASE WriteFails
  <2>1. CASE Fails("best_effort", Len(chunks), Total)
    BY <1>9, <2>1, FailsType, TotalType DEF WriteFails, TypeOK
  <2>2. CASE FailsInside
    BY <1>9, <2>2, FailsType DEF WriteFails, FailsInside
  <2>. QED
    BY <1>9, <2>1, <2>2 DEF WriteFails
<1>10. CASE Abandon
  <2>1. CASE AppendEnds
    BY <1>10, <2>1, AppendEndsType DEF Abandon
  <2>2. CASE Fails("not_applicable", 0, 0)
    BY <1>10, <2>2, FailsType DEF Abandon
  <2>. QED
    BY <1>10, <2>1, <2>2 DEF Abandon
<1>11. CASE Gate
  <2>1. CASE FailsInside
    BY <1>11, <2>1, FailsType DEF Gate, FailsInside
  <2>2. CASE pc' = "gated" /\ UNCHANGED <<view, stage, conn, out>>
    BY <1>11, <2>2 DEF Gate, TypeOK, definition
  <2>. QED
    BY <1>11, <2>1, <2>2 DEF Gate
<1>12. CASE CountMatched
  <2>1. Matched = MatchedBefore
    BY <1>12, InMerge DEF CountMatched, Matched, MatchedBefore
  <2>. QED
    BY <1>12, <2>1, MatchedIsFinite DEF CountMatched, TypeOK, database, definition
<1>13. CASE MergeInto
  <2>1. PICK source \in [KeysOf(stage) -> stage] :
          view' = [view EXCEPT !.rows =
                     { IF r.key \in KeysOf(stage)
                       THEN [r EXCEPT !.value = source[r.key].id] ELSE r
                       : r \in view.rows }
                     \union { r \in stage : r.key \notin KeysOf(view.rows) }]
    BY <1>13 DEF MergeInto
  <2>2. ASSUME NEW r \in view.rows
        PROVE  (IF r.key \in KeysOf(stage)
                THEN [r EXCEPT !.value = source[r.key].id] ELSE r) \in Rows
    BY DEF TypeOK, Tables, Rows
  <2>3. view' \in Tables
    BY <2>1, <2>2 DEF TypeOK, Tables
  <2>. QED
    BY <1>13, <2>3 DEF MergeInto, TypeOK, definition
<1>14. CASE Commit
  BY <1>14, NoTableType DEF Commit, TypeOK, definition
<1>15. CASE StatementFails
  BY <1>15, FailsType DEF StatementFails, FailsInside
<1>16. CASE AppendDone
  BY <1>16 DEF AppendDone, TypeOK, definition, database
<1>17. CASE Close
  <2>1. Len(chunks) \in Nat /\ Total \in Nat /\ updated \in Nat /\ Total - updated \in Int
    BY TotalType DEF TypeOK
  <2>2. Boundary \in {"best_effort", "atomic"}
    BY DEF Boundary
  <2>3. CASE mode = "merge"
    BY <1>17, <2>1, <2>2, <2>3, ReportsType DEF Close
  <2>4. CASE mode # "merge"
    BY <1>17, <2>1, <2>2, <2>4, ReportsType DEF Close
  <2>. QED
    BY <2>3, <2>4
<1>18. CASE CloseFails
  <2>1. Len(chunks) \in Nat /\ Total \in Nat
    BY TotalType DEF TypeOK
  <2>. QED
    BY <1>18, <2>1, FailsType DEF CloseFails, Boundary
<1>19. CASE Crash
  BY <1>19, NoTableType DEF Crash, Dropped, TypeOK, definition
<1>20. CASE UNCHANGED vars
  BY <1>20 DEF vars, database, definition, TypeOK
<1>. QED
  BY <1>1, <1>2, <1>3, <1>4, <1>5, <1>6, <1>7, <1>8, <1>9, <1>10, <1>11, <1>12,
     <1>13, <1>14, <1>15, <1>16, <1>17, <1>18, <1>19, <1>20 DEF Next

-----------------------------------------------------------------------------
(* MERGE INTO: what it makes of the table, and how the table grows.        *)

LEMMA MergeResult ==
  ASSUME IInv, MergeInto
  PROVE  /\ UpsertedIn(view')
         /\ Cardinality(view'.rows) = Cardinality(before.rows) + (Total - updated)
         /\ Good(view', load)
<1> DEFINE B == before.rows
           S == Sent
           K == KeysOf(S)
<1>1. /\ TypeOK /\ view = before /\ stage = S /\ ~Colliding
      /\ updated = Cardinality(MatchedBefore)
  BY InMerge DEF MergeInto, IInv
<1>2. PICK source \in { f \in [KeysOf(stage) -> stage] :
                        \A k \in KeysOf(stage) : f[k].key = k } :
        view' = [view EXCEPT !.rows =
                   { IF r.key \in KeysOf(stage)
                     THEN [r EXCEPT !.value = source[r.key].id] ELSE r
                     : r \in view.rows }
                   \union { r \in stage : r.key \notin KeysOf(view.rows) }]
  BY DEF MergeInto
<1> DEFINE g(r) == IF r.key \in K THEN [r EXCEPT !.value = source[r.key].id] ELSE r
           R == { g(r) : r \in B }
           N == { r \in S : r.key \notin KeysOf(B) }
<1>3. /\ view'.rows = R \union N /\ view'.schema = before.schema
      /\ source \in [K -> S] /\ \A k \in K : source[k].key = k
  BY <1>1, <1>2 DEF TypeOK, Tables
<1>4. /\ S \subseteq Rows /\ B \subseteq Rows /\ IsFiniteSet(S) /\ IsFiniteSet(B)
      /\ \A r, s \in S : r.id = s.id => r = s
      /\ \A r \in S : r.id[1] = load /\ r.value = r.id
      /\ \A r, s \in B : r.id = s.id => r = s
      /\ \A r \in B : r.id[1] < load
  BY <1>1, SentType DEF SentOK, IInv, DataInv, Good, TypeOK, Tables
<1>5. \A r, s \in S : r.key = s.key => r = s
  BY <1>1, <1>4 DEF Colliding
<1>6. ASSUME NEW r \in B
      PROVE  /\ g(r).id = r.id /\ g(r).key = r.key /\ g(r) \in Rows
             /\ r.key \notin K => g(r) = r
             /\ r.key \in K => g(r).value = source[r.key].id
  <2>1. r \in Rows
    BY <1>4
  <2>2. r.key \in K => source[r.key] \in Rows
    BY <1>3, <1>4
  <2>. QED
    BY <2>1, <2>2 DEF Rows
<1>7. \A r \in S : r.key \in K
  BY DEF KeysOf
<1>8. \A r \in B : r.key \in KeysOf(B)
  BY DEF KeysOf
<1> HIDE DEF g, B, S, K
<1>9. ASSUME NEW k \in Keys \ K PROVE Keyed(R \union N, k) = Keyed(B, k)
  BY <1>6, <1>7 DEF Keyed
<1>10. ASSUME NEW s \in S
       PROVE  /\ \A r \in Keyed(R \union N, s.key) : r.value = s.id
              /\ { r.id : r \in Keyed(R \union N, s.key) } =
                   IF Keyed(B, s.key) = {} THEN {s.id}
                   ELSE { r.id : r \in Keyed(B, s.key) }
  <2>1. s.key \in K /\ source[s.key] = s
    BY <1>3, <1>5, <1>7
  <2>2. ASSUME NEW r \in Keyed(R \union N, s.key) PROVE r.value = s.id
    <3>1. CASE r \in N
      BY <1>4, <1>5, <2>2, <3>1 DEF Keyed
    <3>2. CASE r \in R
      <4>1. PICK b \in B : r = g(b)
        BY <3>2
      <4>. QED
        BY <1>6, <2>1, <2>2, <4>1 DEF Keyed
    <3>. QED
      BY <2>2, <3>1, <3>2 DEF Keyed
  <2>3. CASE Keyed(B, s.key) = {}
    <3>1. s.key \notin KeysOf(B)
      BY <2>3 DEF Keyed, KeysOf
    <3>2. s \in Keyed(R \union N, s.key)
      BY <3>1 DEF Keyed
    <3>3. ASSUME NEW r \in Keyed(R \union N, s.key) PROVE r = s
      <4>1. CASE r \in N
        BY <1>5, <3>3, <4>1 DEF Keyed
      <4>2. CASE r \in R
        BY <1>6, <1>8, <3>1, <3>3, <4>2 DEF Keyed
      <4>. QED
        BY <3>3, <4>1, <4>2 DEF Keyed
    <3>4. Keyed(R \union N, s.key) = {s}
      BY <3>2, <3>3
    <3>. QED
      BY <2>2, <2>3, <3>4, ZenonT(60)
  <2>4. CASE Keyed(B, s.key) # {}
    <3>1. s.key \in KeysOf(B)
      BY <2>4 DEF Keyed, KeysOf
    <3>2. ASSUME NEW r \in Keyed(R \union N, s.key)
          PROVE  \E b \in Keyed(B, s.key) : r.id = b.id
      <4>1. PICK b \in B : r = g(b)
        BY <3>1, <3>2 DEF Keyed
      <4>. QED
        BY <1>6, <3>2, <4>1 DEF Keyed
    <3>3. ASSUME NEW b \in Keyed(B, s.key)
          PROVE  \E r \in Keyed(R \union N, s.key) : r.id = b.id
      <4>1. g(b) \in Keyed(R \union N, s.key) /\ g(b).id = b.id
        BY <1>6, <3>3 DEF Keyed
      <4>. QED
        BY <4>1
    <3>4. { r.id : r \in Keyed(R \union N, s.key) } = { r.id : r \in Keyed(B, s.key) }
      <4>1. ASSUME NEW x \in { r.id : r \in Keyed(R \union N, s.key) }
            PROVE  x \in { r.id : r \in Keyed(B, s.key) }
        BY <3>2
      <4>2. ASSUME NEW x \in { r.id : r \in Keyed(B, s.key) }
            PROVE  x \in { r.id : r \in Keyed(R \union N, s.key) }
        BY <3>3
      <4>. QED
        BY <4>1, <4>2
    <3>. QED
      BY <2>2, <2>4, <3>4
  <2>. QED
    BY <2>3, <2>4
<1>11. UpsertedIn(view')
  BY <1>3, <1>9, <1>10 DEF UpsertedIn, B, S, K
<1>12. IsFiniteSet(R) /\ Cardinality(R) = Cardinality(B)
  <2> DEFINE f == [r \in B |-> g(r)]
  <2>1. f \in Injection(B, R)
    BY <1>4, <1>6 DEF Injection, IsInjective
  <2>2. f \in Surjection(B, R)
    BY DEF Surjection
  <2>3. ExistsBijection(B, R)
    BY <2>1, <2>2 DEF ExistsBijection, Bijection
  <2>. QED
    BY <1>4, <2>3, FS_Bijection
<1>13. IsFiniteSet(N) /\ Cardinality(N) = Total - updated
  <2>1. N = S \ MatchedBefore /\ S \cap MatchedBefore = MatchedBefore
    BY DEF MatchedBefore, S, B
  <2>2. /\ IsFiniteSet(S \ MatchedBefore)
        /\ Cardinality(S \ MatchedBefore) = Cardinality(S) - Cardinality(S \cap MatchedBefore)
    BY <1>4, FS_Difference
  <2>3. Total = Cardinality(S)
    BY DEF Total, S
  <2>. HIDE DEF N
  <2>. QED
    BY <1>1, <2>1, <2>2, <2>3
<1>14. R \cap N = {}
  BY <1>6, <1>8
<1>15. /\ IsFiniteSet(R \union N)
       /\ Cardinality(R \union N) = Cardinality(B) + (Total - updated)
  <2>1. Cardinality(B) \in Nat /\ Total \in Nat /\ updated \in Nat
    BY <1>1, <1>4, FS_CardinalityType, TotalType DEF TypeOK, S
  <2>2. Cardinality(R \cap N) = 0
    BY <1>14, FS_EmptySet
  <2>. HIDE DEF R, N
  <2>3. Cardinality(R \union N) = Cardinality(R) + Cardinality(N) - Cardinality(R \cap N)
    BY <1>12, <1>13, FS_Union
  <2>4. IsFiniteSet(R \union N)
    BY <1>12, <1>13, FS_Union
  <2>. QED
    BY <1>12, <1>13, <2>1, <2>2, <2>3, <2>4
<1>16. ASSUME NEW r \in R \union N, NEW s \in R \union N, r.id = s.id PROVE r = s
  <2>1. CASE r \in R /\ s \in R
    BY <1>4, <1>6, <1>16, <2>1
  <2>2. CASE r \in N /\ s \in N
    BY <1>4, <1>16, <2>2
  <2>3. ASSUME NEW q \in R, NEW n \in N PROVE q.id # n.id
    <3>1. q.id[1] < load
      BY <1>4, <1>6
    <3>2. n.id[1] = load /\ load \in Nat
      BY <1>1, <1>4 DEF TypeOK
    <3>. QED
      BY <3>1, <3>2
  <2>. QED
    BY <1>16, <2>1, <2>2, <2>3
<1>17. ASSUME NEW r \in R \union N PROVE r.id[1] <= load
  <2>1. load \in Nat
    BY <1>1 DEF TypeOK
  <2>2. CASE r \in N
    BY <1>4, <2>1, <2>2
  <2>3. CASE r \in R
    <3>1. PICK b \in B : r = g(b)
      BY <2>3
    <3>2. b.id[1] < load /\ b.id[1] \in Nat
      BY <1>4 DEF Rows, Ids
    <3>. QED
      BY <1>6, <2>1, <3>1, <3>2
  <2>. QED
    BY <2>2, <2>3
<1>. QED
  BY <1>3, <1>11, <1>15, <1>16, <1>17 DEF Good, B

-----------------------------------------------------------------------------
(* The inductive step.                                                     *)

LEMMA SameSent ==
  ASSUME UNCHANGED <<load, chunks>>
  PROVE  Sent' = Sent /\ Total' = Total
  BY DEF Sent, RowsOf, Total

\* A step that leaves the load, its chunks and both tables alone.
LEMMA SameVerdicts ==
  ASSUME UNCHANGED <<table, definition, chunks>>
  PROVE  /\ Replaced' = Replaced /\ Appended' = Appended /\ Upserted' = Upserted
         /\ AllOrNothing' = AllOrNothing
  BY SameSent, Zenon
  DEF definition, Replaced, Appended, Upserted, UpsertedIn, AllOrNothing

LEMMA GoodNoTable == load \in Nat => Good(NoTable, load)
  BY FS_EmptySet DEF Good, NoTable

\* A session that is over reports what is true of the table.
LEMMA OverKeeps ==
  ASSUME IInv, TypeOK', pc # "idle", pc' = "over", Dropped,
         UNCHANGED <<table, definition, chunks, updated>>,
         out'.facts = "not_applicable" => out'.status = "failed" /\ out'.committed = 0,
         IF out'.committed = 0 THEN table = before
         ELSE /\ out'.committed = Len(chunks) /\ out'.records = Total
              /\ mode = "full_refresh" => Replaced
              /\ mode = "merge" => Upserted,
         out'.status = "succeeded" /\ mode = "merge" =>
           /\ out'.updated + out'.inserted = out'.records
           /\ Cardinality(table.rows) = Cardinality(before.rows) + out'.inserted
  PROVE  IInv'
<1>1. UNCHANGED <<load, mode, plan, seen, before>>
  BY DEF definition
<1>2. DataInv'
  BY <1>1, SameSent, GoodNoTable DEF IInv, TypeOK, DataInv, Dropped, Good
<1>3. SessionInv'
  BY <1>1 DEF IInv, SessionInv
<1>4. RefreshInv' /\ MergeInv'
  BY <1>1 DEF RefreshInv, MergeInv
<1>5. AppendInv'
  BY <1>1, SameVerdicts DEF IInv, AppendInv
<1>6. AllOrNothing'
  BY SameVerdicts DEF IInv
<1>7. CountedIsCommitted'
  BY <1>1, SameSent, SameVerdicts DEF CountedIsCommitted
<1>8. MergeCounts'
  BY <1>1 DEF MergeCounts
<1>. QED
  BY <1>2, <1>3, <1>4, <1>5, <1>6, <1>7, <1>8 DEF IInv

LEMMA FailsKeeps ==
  ASSUME IInv, TypeOK', pc # "idle", NEW facts, NEW committed, NEW records,
         Fails(facts, committed, records),
         UNCHANGED <<table, definition, chunks, updated>>,
         facts = "not_applicable" => committed = 0,
         IF committed = 0 THEN table = before
         ELSE /\ committed = Len(chunks) /\ records = Total
              /\ mode = "full_refresh" => Replaced
              /\ mode = "merge" => Upserted
  PROVE  IInv'
<1>1. /\ pc' = "over" /\ Dropped /\ out'.status = "failed" /\ out'.facts = facts
      /\ out'.committed = committed /\ out'.records = records
  BY DEF Fails, Reports
<1>. QED
  BY <1>1, OverKeeps

\* An append that has written nothing has changed nothing.
LEMMA NothingAppended ==
  ASSUME TypeOK, Appended, chunks = <<>>
  PROVE  table = before
<1>1. table = [before EXCEPT !.rows = @ \union {}]
  BY NothingSent DEF Appended
<1>. QED
  BY <1>1 DEF TypeOK, Tables

LEMMA AppendFailsKeeps ==
  ASSUME IInv, TypeOK', pc # "idle", mode = "append", NEW facts,
         Fails(facts, Len(chunks), Total),
         UNCHANGED <<table, definition, chunks, updated>>,
         facts = "not_applicable" => chunks = <<>>
  PROVE  IInv'
<1>1. Len(chunks) = 0 => chunks = <<>>
  BY DEF IInv, TypeOK
<1>2. Len(chunks) = 0 => table = before
  BY <1>1, NothingAppended DEF IInv, AppendInv
<1>3. chunks = <<>> => Len(chunks) = 0
  OBVIOUS
<1>. QED
  BY <1>2, <1>3, FailsKeeps

LEMMA GoodLater ==
  ASSUME NEW t \in Tables, NEW n \in Nat, Good(t, n)
  PROVE  Good(t, n + 1) /\ \A r \in t.rows : r.id[1] < n + 1
<1>1. \A r \in t.rows : r.id[1] \in Nat /\ r.id[1] <= n
  BY DEF Good, Tables, Rows, Ids
<1>. QED
  BY <1>1 DEF Good

\* A session begins with nothing sent and the table as it found it.
LEMMA StartsKeeps ==
  ASSUME IInv, TypeOK', NEW m \in Modes, Starts(m), UNCHANGED table,
         view' = table \/ view' = NoTable, stage' = {},
         \/ /\ pc' = "open" /\ out' = Pending
            /\ m = "merge" => view' = table
         \/ pc' = "over" /\ out'.status = "failed" /\ out'.committed = 0
  PROVE  IInv'
<1>1. /\ before' = table /\ load' = load + 1 /\ mode' = m /\ chunks' = <<>>
      /\ m \in {"full_refresh", "append", "merge"} /\ load \in Nat /\ table \in Tables
  BY DuckDbAssumption DEF Starts, IInv, TypeOK
<1>2. Sent' = {}
  BY <1>1 DEF Sent
<1>3. DataInv'
  <2>1. Good(table, load + 1) /\ \A r \in table.rows : r.id[1] < load + 1
    BY <1>1, GoodLater DEF IInv, DataInv
  <2>2. Good(NoTable, load + 1)
    BY <1>1, FS_EmptySet DEF Good, NoTable
  <2>3. Good(view, load)'
    BY <1>1, <2>1, <2>2 DEF Good
  <2>. QED
    BY <1>1, <1>2, <2>1, <2>3, FS_EmptySet DEF DataInv, Good
<1>4. Appended'
  BY <1>1, <1>2 DEF Appended, Tables
<1>5. SessionInv' /\ RefreshInv' /\ AppendInv' /\ MergeInv'
  BY <1>1, <1>2, <1>4 DEF SessionInv, RefreshInv, AppendInv, MergeInv
<1>6. AllOrNothing'
  BY <1>1, <1>4, Zenon DEF AllOrNothing
<1>7. CountedIsCommitted' /\ MergeCounts'
  BY <1>1 DEF CountedIsCommitted, MergeCounts, Pending
<1>. QED
  BY <1>3, <1>5, <1>6, <1>7 DEF IInv

\* A step of a session that goes on: what its table, its view and its stage
\* become decides.
LEMMA GoesOn ==
  ASSUME IInv, TypeOK', UNCHANGED definition, pc # "idle", pc' # "idle",
         pc' # "over", out' = Pending,
         Good(table', load), Good(view', load), IsFiniteSet(Sent'),
         pc' \in {"gated", "counted", "merged", "closing"} => chunks' # <<>>,
         RefreshInv', AppendInv', MergeInv',
         mode = "full_refresh" => table' = before \/ Replaced',
         mode = "merge" => table' = before \/ Upserted'
  PROVE  IInv'
<1>1. UNCHANGED <<load, mode, plan, seen, before>> /\ mode # "none"
  BY DEF definition, IInv, SessionInv
<1>2. mode = "append" => Appended'
  BY <1>1 DEF AppendInv
<1>3. AllOrNothing'
  <2>1. /\ mode' = "full_refresh" => table' = before' \/ Replaced'
        /\ mode' = "merge" => table' = before' \/ Upserted'
        /\ mode' = "append" => Appended'
    BY <1>1, <1>2
  <2>2. mode' \in {"full_refresh", "append", "merge"}
    BY <1>1, DuckDbAssumption DEF TypeOK
  <2>. QED
    BY <2>1, <2>2, Zenon DEF AllOrNothing
<1>4. DataInv'
  BY <1>1 DEF IInv, DataInv, Good
<1>5. SessionInv'
  BY <1>1 DEF SessionInv, IInv
<1>6. CountedIsCommitted' /\ MergeCounts'
  BY DEF CountedIsCommitted, MergeCounts, Pending
<1>. QED
  BY <1>3, <1>4, <1>5, <1>6 DEF IInv

\* Before its COMMIT a refresh or a merge has left the table alone.
LEMMA NotYet ==
  ASSUME IInv, pc \in {"open", "gated", "counted", "merged"}, mode # "append"
  PROVE  table = before
<1>1. mode \in {"full_refresh", "merge"}
  BY DuckDbAssumption DEF IInv, TypeOK, SessionInv
<1>. QED
  BY <1>1 DEF IInv, RefreshInv, MergeInv

LEMMA InsideFailsKeeps ==
  ASSUME IInv, TypeOK', pc \in {"open", "gated", "counted", "merged"},
         mode # "append", FailsInside,
         UNCHANGED <<table, definition, chunks, updated>>
  PROVE  IInv'
  BY NotYet, FailsKeeps DEF FailsInside

LEMMA AppendEndsKeeps ==
  ASSUME IInv, TypeOK', pc # "idle", mode = "append", AppendEnds,
         UNCHANGED <<table, definition, chunks, updated>>
  PROVE  IInv'
<1>1. CASE chunks # <<>>
  BY <1>1, AppendFailsKeeps DEF AppendEnds
<1>2. CASE chunks = <<>>
  BY <1>2, AppendFailsKeeps DEF AppendEnds
<1>. QED
  BY <1>1, <1>2

LEMMA NextIInv == IInv /\ [Next]_vars => IInv'
<1> SUFFICES ASSUME IInv, [Next]_vars PROVE IInv'
  OBVIOUS
<1>0. TypeOK /\ TypeOK'
  BY NextTypeOK DEF IInv
<1> USE <1>0
<1>a. pc # "idle" => out = Pending \/ pc = "over"
  BY DEF IInv, SessionInv
<1>b. /\ load \in Nat /\ table \in Tables /\ view \in Tables /\ before \in Tables
      /\ Good(table, load) /\ Good(view, load) /\ IsFiniteSet(Sent)
      /\ \A r \in before.rows : r.id[1] < load
      /\ mode \in {"none", "full_refresh", "append", "merge"}
  BY DuckDbAssumption DEF IInv, DataInv, TypeOK
<1>c. pc # "idle" => mode # "none"
  BY DEF IInv, SessionInv
<1>1. CASE BeginRefresh
  BY <1>1, StartsKeeps DEF BeginRefresh, Opened, Starts
<1>2. CASE BeginAppend
  BY <1>2, StartsKeeps DEF BeginAppend, Opened, Starts
<1>3. CASE BeginMerge
  BY <1>3, StartsKeeps DEF BeginMerge, Opened, Starts
<1>4. CASE BeginFails
  <2>1. PICK m \in Modes : Starts(m)
    BY <1>4 DEF BeginFails, Starts
  <2>2. /\ UNCHANGED table /\ view' = NoTable /\ stage' = {}
        /\ pc' = "over" /\ out'.status = "failed" /\ out'.committed = 0
    BY <1>4 DEF BeginFails, Fails, Reports, Dropped
  <2>. QED
    BY <2>1, <2>2, StartsKeeps
<1>5. CASE WriteRefresh
  <2>1. PICK keys \in ChunkKeys :
          /\ view' = [schema |-> plan,
                      rows   |-> RowsOf(NextChunk, keys) \union
                                 IF chunks = <<>> THEN {} ELSE view.rows]
          /\ chunks' = Append(chunks, keys)
    BY <1>5 DEF WriteRefresh
  <2>2. /\ UNCHANGED <<load, mode, plan, before, table, pc, out, definition>>
        /\ mode = "full_refresh" /\ pc = "open" /\ out = Pending /\ table = before
    BY <1>5, <1>a DEF WriteRefresh, Writes, definition, IInv, RefreshInv
  <2>3. Sent' = Sent \union RowsOf(NextChunk, keys)
    BY <2>1, <2>2, SentGrows
  <2>4. view' = [schema |-> plan, rows |-> Sent']
    <3>1. CASE chunks = <<>>
      BY <2>1, <2>3, <3>1, NothingSent
    <3>2. CASE chunks # <<>>
      <4>1. view.rows = Sent
        BY <2>2, <3>2 DEF IInv, RefreshInv
      <4>. QED
        BY <2>1, <2>3, <3>2, <4>1
    <3>. QED
      BY <3>1, <3>2
  <2>5. IsFiniteSet(Sent')
    BY <1>b, <2>1, <2>3, AppendChunkType, FS_Union
  <2>6. Good(view', load)
    BY <1>b, <2>2, <2>4, <2>5, SentTypeNext DEF SentOK, Good
  <2>7. RefreshInv' /\ AppendInv' /\ MergeInv'
    BY <2>2, <2>4 DEF RefreshInv, AppendInv, MergeInv
  <2>. QED
    BY <1>b, <2>2, <2>5, <2>6, <2>7, GoesOn
<1>6. CASE WriteAppend
  <2>1. PICK keys \in ChunkKeys :
          /\ table' = [table EXCEPT !.rows = @ \union RowsOf(NextChunk, keys)]
          /\ chunks' = Append(chunks, keys)
    BY <1>6 DEF WriteAppend
  <2>2. /\ UNCHANGED <<load, mode, plan, before, view, pc, out, definition>>
        /\ mode = "append" /\ pc = "open" /\ out = Pending /\ Appended
    BY <1>6, <1>a DEF WriteAppend, Writes, definition, IInv, AppendInv
  <2>3. Sent' = Sent \union RowsOf(NextChunk, keys)
    BY <2>1, <2>2, SentGrows
  <2>4. table' = [before EXCEPT !.rows = @ \union Sent']
    BY <1>b, <2>1, <2>2, <2>3 DEF Appended, Tables
  <2>5. IsFiniteSet(Sent')
    BY <1>b, <2>1, <2>3, AppendChunkType, FS_Union
  <2>6. Good(table', load)
    <3>1. table'.rows = before.rows \union Sent'
      BY <1>b, <2>4 DEF Tables
    <3>2. /\ Good(before, load) /\ \A r \in before.rows : r.id[1] < load
          /\ \A r \in before.rows : r.id[1] \in Nat
      BY <1>b DEF IInv, DataInv, Tables, Rows, Ids
    <3>3. SentOK' /\ load' = load
      BY <2>2, SentTypeNext
    <3>4. \A r \in Sent' : r.id[1] = load
      BY <3>3 DEF SentOK
    <3>5. IsFiniteSet(table'.rows)
      <4>1. IsFiniteSet(before.rows)
        BY <3>2 DEF Good
      <4>. QED
        BY <2>5, <3>1, <4>1, FS_Union
    <3>6. ASSUME NEW r \in table'.rows, NEW s \in table'.rows, r.id = s.id
          PROVE  r = s
      <4>1. CASE r \in before.rows /\ s \in before.rows
        BY <3>2, <3>6, <4>1 DEF Good
      <4>2. CASE r \in Sent' /\ s \in Sent'
        BY <3>3, <3>6, <4>2 DEF SentOK
      <4>3. CASE r \in before.rows /\ s \in Sent'
        BY <1>b, <3>2, <3>4, <3>6, <4>3
      <4>4. CASE r \in Sent' /\ s \in before.rows
        BY <1>b, <3>2, <3>4, <3>6, <4>4
      <4>. QED
        BY <3>1, <3>6, <4>1, <4>2, <4>3, <4>4
    <3>7. ASSUME NEW r \in table'.rows PROVE r.id[1] <= load
      BY <1>b, <3>1, <3>2, <3>4, <3>7
    <3>. QED
      BY <3>5, <3>6, <3>7 DEF Good
  <2>7. RefreshInv' /\ AppendInv' /\ MergeInv'
    BY <2>2, <2>4 DEF RefreshInv, AppendInv, MergeInv, Appended
  <2>. QED
    BY <1>b, <2>2, <2>5, <2>6, <2>7, GoesOn
<1>7. CASE WriteMerge
  <2>1. PICK keys \in ChunkKeys :
          /\ stage' = stage \union RowsOf(NextChunk, keys)
          /\ chunks' = Append(chunks, keys)
    BY <1>7 DEF WriteMerge
  <2>2. /\ UNCHANGED <<load, mode, plan, before, table, view, pc, out, definition>>
        /\ mode = "merge" /\ pc = "open" /\ out = Pending
        /\ table = before /\ view = before /\ stage = Sent
    BY <1>7, <1>a DEF WriteMerge, Writes, definition, IInv, MergeInv
  <2>3. Sent' = Sent \union RowsOf(NextChunk, keys)
    BY <2>1, <2>2, SentGrows
  <2>4. IsFiniteSet(Sent')
    BY <1>b, <2>1, <2>3, AppendChunkType, FS_Union
  <2>5. RefreshInv' /\ AppendInv' /\ MergeInv'
    BY <2>1, <2>2, <2>3 DEF RefreshInv, AppendInv, MergeInv
  <2>. QED
    BY <1>b, <2>2, <2>4, <2>5, GoesOn
<1>8. CASE Misaligned
  <2>1. pc = "open" /\ mode \in {"append", "merge"}
        /\ UNCHANGED <<table, definition, chunks, updated>>
    BY <1>8 DEF Misaligned, Writes
  <2>2. CASE mode = "append"
    BY <1>8, <2>1, <2>2, AppendEndsKeeps DEF Misaligned
  <2>3. CASE mode # "append"
    BY <1>8, <2>1, <2>3, InsideFailsKeeps DEF Misaligned
  <2>. QED
    BY <2>2, <2>3
<1>9. CASE WriteFails
  <2>1. pc = "open" /\ UNCHANGED <<table, definition, chunks, updated>>
    BY <1>9 DEF WriteFails, Writes
  <2>2. CASE mode = "append"
    BY <1>9, <2>1, <2>2, AppendFailsKeeps DEF WriteFails
  <2>3. CASE mode # "append"
    BY <1>9, <2>1, <2>3, InsideFailsKeeps DEF WriteFails
  <2>. QED
    BY <2>2, <2>3
<1>10. CASE Abandon
  <2>1. pc = "open" /\ UNCHANGED <<table, definition, chunks, updated>>
    BY <1>10 DEF Abandon
  <2>2. CASE mode = "append"
    BY <1>10, <2>1, <2>2, AppendEndsKeeps DEF Abandon
  <2>3. CASE mode # "append"
    BY <1>10, <2>1, <2>3, NotYet, FailsKeeps DEF Abandon
  <2>. QED
    BY <2>2, <2>3
<1>11. CASE Gate
  <2>1. /\ pc = "open" /\ mode = "merge" /\ chunks # <<>>
        /\ UNCHANGED <<table, definition, chunks, updated>>
    BY <1>11 DEF Gate
  <2>2. CASE Colliding
    BY <1>11, <2>1, <2>2, InsideFailsKeeps DEF Gate
  <2>3. CASE ~Colliding
    <3>1. pc' = "gated" /\ UNCHANGED <<view, stage, conn, out>>
          /\ UNCHANGED <<load, mode, plan, before>>
      BY <1>11, <2>3 DEF Gate, definition
    <3>2. Sent' = Sent /\ table = before /\ view = before /\ stage = Sent
      BY <2>1, <3>1, SameSent DEF IInv, MergeInv
    <3>3. RefreshInv' /\ AppendInv' /\ MergeInv'
      BY <2>1, <2>3, <3>1, <3>2 DEF RefreshInv, AppendInv, MergeInv, Colliding
    <3>. QED
      BY <1>a, <1>b, <2>1, <3>1, <3>2, <3>3, GoesOn
  <2>. QED
    BY <2>2, <2>3
<1>12. CASE CountMatched
  <2>1. /\ pc = "gated" /\ pc' = "counted" /\ updated' = Cardinality(Matched)
        /\ UNCHANGED <<table, view, stage, load, mode, plan, before, chunks, out,
                       definition>>
    BY <1>12 DEF CountMatched, database, definition
  <2>2. /\ mode = "merge" /\ table = before /\ view = before /\ stage = Sent
        /\ ~Colliding /\ Sent' = Sent /\ chunks # <<>>
    BY <2>1, InMerge, SameSent DEF IInv, SessionInv
  <2>3. MatchedBefore' = Matched
    BY <2>1, <2>2 DEF Matched, MatchedBefore
  <2>4. RefreshInv' /\ AppendInv' /\ MergeInv'
    BY <2>1, <2>2, <2>3 DEF RefreshInv, AppendInv, MergeInv, Colliding
  <2>. QED
    BY <1>a, <1>b, <2>1, <2>2, <2>4, GoesOn
<1>13. CASE MergeInto
  <2>1. /\ pc = "counted" /\ pc' = "merged"
        /\ UNCHANGED <<table, stage, load, mode, plan, before, chunks, out,
                       updated, definition>>
    BY <1>13 DEF MergeInto, definition
  <2>2. /\ mode = "merge" /\ table = before /\ updated = Cardinality(MatchedBefore)
        /\ Sent' = Sent /\ Total' = Total /\ chunks # <<>>
    BY <2>1, InMerge, SameSent DEF IInv, SessionInv
  <2>3. /\ UpsertedIn(view') /\ Good(view', load)
        /\ Cardinality(view'.rows) = Cardinality(before.rows) + (Total - updated)
    BY <1>13, MergeResult
  <2>4. MergedInto(view)'
    BY <2>1, <2>2, <2>3 DEF MergedInto, UpsertedIn, MatchedBefore
  <2>5. RefreshInv' /\ AppendInv' /\ MergeInv'
    BY <2>1, <2>2, <2>4 DEF RefreshInv, AppendInv, MergeInv
  <2>. QED
    BY <1>a, <1>b, <2>1, <2>2, <2>3, <2>5, GoesOn
<1>14. CASE Commit
  <2>1. /\ MayCommit /\ table' = view /\ view' = NoTable /\ pc' = "closing"
        /\ UNCHANGED <<stage, load, mode, plan, before, chunks, out, updated,
                       definition>>
    BY <1>14 DEF Commit, definition
  <2>2. pc # "idle" /\ out = Pending /\ chunks # <<>> /\ Sent' = Sent /\ Total' = Total
    BY <1>a, <2>1, SameSent DEF MayCommit, IInv, SessionInv
  <2>3. CASE pc = "merged"
    <3>1. mode = "merge" /\ MergedInto(view)
      BY <2>3, InMerge DEF IInv, MergeInv
    <3>2. MergedInto(table)'
      BY <2>1, <2>2, <3>1 DEF MergedInto, UpsertedIn, MatchedBefore
    <3>3. RefreshInv' /\ AppendInv' /\ MergeInv' /\ Upserted'
      BY <2>1, <3>1, <3>2 DEF RefreshInv, AppendInv, MergeInv, MergedInto, Upserted
    <3>. QED
      BY <1>b, <2>1, <2>2, <3>1, <3>3, GoesOn, GoodNoTable
  <2>4. CASE pc = "open" /\ mode = "full_refresh"
    <3>1. view = [schema |-> plan, rows |-> Sent]
      BY <2>2, <2>4 DEF IInv, RefreshInv
    <3>2. RefreshInv' /\ AppendInv' /\ MergeInv' /\ Replaced'
      BY <2>1, <2>2, <2>4, <3>1 DEF RefreshInv, AppendInv, MergeInv, Replaced
    <3>. QED
      BY <1>b, <2>1, <2>2, <2>4, <3>2, GoesOn, GoodNoTable
  <2>. QED
    BY <2>1, <2>3, <2>4 DEF MayCommit
<1>15. CASE StatementFails
  <2>1. /\ pc \in {"open", "gated", "counted", "merged"} /\ FailsInside
        /\ UNCHANGED <<table, definition, chunks, updated>>
    BY <1>15 DEF StatementFails, MayCommit
  <2>2. mode # "append"
    BY <1>15, InMerge DEF StatementFails, MayCommit
  <2>. QED
    BY <2>1, <2>2, InsideFailsKeeps
<1>16. CASE AppendDone
  <2>1. /\ pc = "open" /\ mode = "append" /\ chunks # <<>> /\ pc' = "closing"
        /\ UNCHANGED <<table, view, load, mode, plan, before, chunks, out,
                       definition>>
    BY <1>16 DEF AppendDone, database, definition
  <2>2. Appended' /\ Sent' = Sent
    BY <2>1, SameVerdicts, SameSent DEF IInv, AppendInv
  <2>3. RefreshInv' /\ AppendInv' /\ MergeInv'
    BY <2>1, <2>2 DEF RefreshInv, AppendInv, MergeInv
  <2>. QED
    BY <1>a, <1>b, <2>1, <2>2, <2>3, GoesOn
<1>d. pc = "closing" =>
        /\ chunks # <<>> /\ Len(chunks) # 0
        /\ mode = "full_refresh" => Replaced
        /\ mode = "merge" => Upserted /\ MergedInto(table)
  BY DEF IInv, SessionInv, RefreshInv, MergeInv, MergedInto, Upserted, TypeOK
<1>17. CASE Close
  <2>1. /\ pc = "closing" /\ UNCHANGED <<table, definition, chunks, updated>>
        /\ pc' = "over" /\ Dropped
        /\ out'.status = "succeeded" /\ out'.facts = Boundary
        /\ out'.committed = Len(chunks) /\ out'.records = Total
        /\ mode = "merge" => out'.updated = updated /\ out'.inserted = Total - updated
    BY <1>17 DEF Close, Reports
  <2>2. out'.facts # "not_applicable"
    BY <2>1 DEF Boundary
  <2>3. Total \in Nat /\ updated \in Nat
    BY <1>b, TotalType DEF TypeOK
  <2>4. mode = "merge" =>
          /\ out'.updated + out'.inserted = out'.records
          /\ Cardinality(table.rows) = Cardinality(before.rows) + out'.inserted
    BY <1>d, <2>1, <2>3 DEF MergedInto
  <2>. QED
    BY <1>d, <2>1, <2>2, <2>4, OverKeeps
<1>18. CASE CloseFails
  <2>1. /\ pc = "closing" /\ UNCHANGED <<table, definition, chunks, updated>>
        /\ Fails(Boundary, Len(chunks), Total)
    BY <1>18 DEF CloseFails
  <2>2. Boundary # "not_applicable"
    BY DEF Boundary
  <2>. QED
    BY <1>d, <2>1, <2>2, FailsKeeps
<1>19. CASE Crash
  <2>1. /\ pc \notin {"idle", "over", "dead"} /\ pc' = "dead" /\ view' = NoTable
        /\ UNCHANGED <<table, load, mode, plan, before, chunks, out, updated,
                       definition>>
    BY <1>19 DEF Crash, Dropped, definition
  <2>2. Sent' = Sent /\ (Appended' <=> Appended) /\ (Replaced' <=> Replaced)
        /\ (Upserted' <=> Upserted)
    BY <2>1, SameSent, SameVerdicts
  <2>3. /\ mode = "full_refresh" => table = before \/ Replaced
        /\ mode = "merge" => table = before \/ Upserted
    BY Zenon DEF IInv, AllOrNothing
  <2>4. RefreshInv' /\ AppendInv' /\ MergeInv'
    BY <2>1, <2>2 DEF IInv, RefreshInv, AppendInv, MergeInv
  <2>. QED
    BY <1>a, <1>b, <2>1, <2>2, <2>3, <2>4, GoesOn, GoodNoTable
<1>20. CASE UNCHANGED vars
  <2>1. /\ UNCHANGED <<table, view, stage, load, mode, plan, before, chunks, out,
                       updated, pc, definition>>
        /\ Sent' = Sent /\ Total' = Total
    BY <1>20, SameSent DEF vars, database, definition
  <2>2. DataInv' /\ SessionInv'
    BY <2>1 DEF IInv, DataInv, Good, SessionInv
  <2>3. RefreshInv' /\ AppendInv' /\ AllOrNothing'
    BY <2>1, SameVerdicts DEF IInv, RefreshInv, AppendInv
  <2>4. MergedInto(view)' = MergedInto(view) /\ MergedInto(table)' = MergedInto(table)
        /\ MatchedBefore' = MatchedBefore
    BY <2>1 DEF MergedInto, UpsertedIn, MatchedBefore
  <2>5. MergeInv'
    BY <2>1, <2>4 DEF IInv, MergeInv, Colliding
  <2>6. CountedIsCommitted' /\ MergeCounts'
    BY <2>1, SameVerdicts DEF IInv, CountedIsCommitted, MergeCounts
  <2>. QED
    BY <2>2, <2>3, <2>5, <2>6 DEF IInv
<1>. QED
  BY <1>1, <1>2, <1>3, <1>4, <1>5, <1>6, <1>7, <1>8, <1>9, <1>10, <1>11, <1>12,
     <1>13, <1>14, <1>15, <1>16, <1>17, <1>18, <1>19, <1>20 DEF Next

-----------------------------------------------------------------------------
(* The theorems.                                                           *)

\* The inductive invariant: what the modes have done at each stand of their
\* sessions, and what the reports say of it.
THEOREM DuckDbInvariant == Spec => []IInv
<1>. QED
  BY InitIInv, NextIInv, PTL DEF Spec

\* Every variable keeps its type.
THEOREM DuckDbTypeOK == Spec => []TypeOK
<1>1. IInv => TypeOK
  BY DEF IInv
<1>. QED
  BY <1>1, DuckDbInvariant, PTL

\* Whatever statement fails and whenever the process dies, a refresh and a merge
\* are whole or absent and an append is the chunks it was acknowledged.
THEOREM DuckDbAllOrNothing == Spec => []AllOrNothing
<1>1. IInv => AllOrNothing
  BY DEF IInv
<1>. QED
  BY <1>1, DuckDbInvariant, PTL

\* A report that counts chunks stands for a whole write, one that counts none
\* for an untouched table: what run_load makes the delivery contract of.
THEOREM DuckDbCountedIsCommitted == Spec => []CountedIsCommitted
<1>1. IInv => CountedIsCommitted
  BY DEF IInv
<1>. QED
  BY <1>1, DuckDbInvariant, PTL

\* The updated and inserted counts of a merge partition its records, and the
\* table grew by the inserted ones.
THEOREM DuckDbMergeCounts == Spec => []MergeCounts
<1>1. IInv => MergeCounts
  BY DEF IInv
<1>. QED
  BY <1>1, DuckDbInvariant, PTL

-----------------------------------------------------------------------------
(* Every step of a session is one of the contract, or none of its.         *)

KeepsContract == [Contract!Next]_Contract!vars

\* Where a session stands for the contract.
LEMMA EndIs ==
  /\ pc \in {"open", "gated", "counted", "merged"} => EndBar = "open"
  /\ pc = "closing" => EndBar = "landed"
  /\ pc \in {"idle", "over", "dead"} => EndBar \in {"kept", "ended"}
  /\ pc \in {"idle", "dead"} => EndBar = "ended"
  /\ pc = "over" /\ out.status = "failed" => EndBar = "ended"
  /\ pc = "over" /\ out.status = "succeeded" => EndBar = "kept"
  BY DEF EndBar

\* The same after a step.
LEMMA EndIsNext ==
  /\ pc' \in {"open", "gated", "counted", "merged"} => EndBar' = "open"
  /\ pc' = "closing" => EndBar' = "landed"
  /\ pc' = "dead" => EndBar' = "ended"
  /\ pc' = "over" /\ out'.status = "failed" => EndBar' = "ended"
  /\ pc' = "over" /\ out'.status = "succeeded" => EndBar' = "kept"
  BY DEF EndBar

\* How a session writes, for the contract.
LEMMA KindIs ==
  ASSUME IInv, pc # "idle"
  PROVE  /\ mode = "full_refresh" => KindBar = "replacing"
         /\ mode = "merge" => KindBar = "updating"
         /\ mode = "append" => KindBar = "adding"
         /\ mode \in {"full_refresh", "merge", "append"}
  BY DuckDbAssumption DEF IInv, TypeOK, SessionInv, KindBar

\* What the mapped variables depend on.
LEMMA BarsRest ==
  /\ UNCHANGED mode => KindBar' = KindBar
  /\ UNCHANGED <<load, chunks>> => HandedBar' = HandedBar
  /\ UNCHANGED table => ShownIn(table)' = ShownIn(table)
  BY SameSent DEF KindBar, HandedBar, ShownIn

\* A step that shows nothing and hands nothing is none of the contract's.
LEMMA SessionRests ==
  ASSUME UNCHANGED <<mode, load, chunks, table>>, EndBar' = EndBar
  PROVE  KeepsContract
  BY BarsRest DEF KeepsContract, Contract!vars

\* A session that ends without success leaves what it finds.
LEMMA SessionGivesUp ==
  ASSUME UNCHANGED <<table, definition, chunks>>,
         EndBar \in {"open", "landed"}, EndBar' = "ended"
  PROVE  KeepsContract
<1>1. KindBar' = KindBar /\ HandedBar' = HandedBar /\ ShownIn(table)' = ShownIn(table)
  BY BarsRest DEF definition
<1>2. Contract!GiveUp
  BY <1>1 DEF Contract!GiveUp
<1>. QED
  BY <1>2 DEF KeepsContract, Contract!Next

\* Every failure the session reports gives it up.
LEMMA FailsGivesUp ==
  ASSUME pc \in {"open", "gated", "counted", "merged", "closing"},
         UNCHANGED <<table, definition, chunks>>,
         \/ FailsInside \/ AppendEnds
         \/ \E facts, committed, records : Fails(facts, committed, records)
  PROVE  KeepsContract
<1>1. EndBar \in {"open", "landed"}
  BY EndIs
<1>2. EndBar' = "ended"
  BY EndIsNext DEF FailsInside, AppendEnds, Fails, Reports
<1>. QED
  BY <1>1, <1>2, SessionGivesUp

\* A session opens, or fails to, with nothing handed.
LEMMA SessionOpens ==
  ASSUME NEW m \in Modes, Starts(m), UNCHANGED table, EndBar' \in {"open", "ended"}
  PROVE  KeepsContract
<1>1. EndBar \in {"kept", "ended"}
  BY EndIs DEF Starts
<1>2. HandedBar' = {}
  <2>1. Sent' = {}
    BY DEF Starts, Sent
  <2>. QED
    BY <2>1 DEF HandedBar
<1>3. KindBar' \in Contract!Kinds
  BY DEF KindBar, Contract!Kinds
<1>4. ShownIn(table)' = ShownIn(table)
  BY BarsRest
<1>5. Contract!Open
  BY <1>1, <1>2, <1>3, <1>4 DEF Contract!Open
<1>. QED
  BY <1>5 DEF KeepsContract, Contract!Next

\* A chunk that is taken: one that adds is seen at once, the others wait.
LEMMA SessionHands ==
  ASSUME IInv, TypeOK', pc = "open", pc' = "open", NEW keys \in ChunkKeys,
         chunks' = Append(chunks, keys), UNCHANGED definition,
         IF mode = "append"
         THEN table' = [table EXCEPT !.rows = @ \union RowsOf(NextChunk, keys)]
         ELSE UNCHANGED table
  PROVE  KeepsContract
<1> DEFINE new == RowsOf(NextChunk, keys)
<1>1. EndBar = "open" /\ EndBar' = "open"
  BY EndIs, EndIsNext
<1>2. KindBar' = KindBar
  BY BarsRest DEF definition
<1>3. Sent' = Sent \union new
  BY SentGrows DEF IInv, definition
<1>4. HandedBar \subseteq HandedBar'
  BY <1>3 DEF HandedBar
<1>5. HandedBar' \in SUBSET (Nat \X Nat \X Nat)
  <2>1. SentOK'
    BY SentTypeNext
  <2>. QED
    BY <2>1 DEF SentOK, HandedBar, Rows, Ids
<1>6. CASE mode # "append"
  <2>1. KindBar # "adding" /\ ShownIn(table)' = ShownIn(table)
    BY <1>6, KindIs, BarsRest
  <2>2. Contract!Hand
    BY <1>1, <1>2, <1>4, <1>5, <2>1 DEF Contract!Hand
  <2>. QED
    BY <2>2 DEF KeepsContract, Contract!Next
<1>7. CASE mode = "append"
  <2>1. KindBar = "adding" /\ Appended /\ table \in Tables /\ before \in Tables
    BY <1>7, KindIs DEF IInv, AppendInv, TypeOK
  <2>2. table'.rows = table.rows \union new /\ table.rows = before.rows \union Sent
    BY <1>7, <2>1 DEF Appended, Tables
  <2>3. table'.rows = table.rows \union Sent'
    BY <1>3, <2>2
  <2>4. \A r \in Sent' : r.value = r.id
    BY SentTypeNext DEF SentOK
  <2>5. ShownIn(table)' = ShownIn(table) \union HandedBar'
    BY <2>3, <2>4 DEF ShownIn, HandedBar
  <2>6. Contract!Hand
    BY <1>1, <1>2, <1>4, <1>5, <2>1, <2>5 DEF Contract!Hand
  <2>. QED
    BY <2>6 DEF KeepsContract, Contract!Next
<1>. QED
  BY <1>6, <1>7

\* A merge shows every value it was handed, and besides them only values that
\* were there.
LEMMA MergeShows ==
  ASSUME IInv, NEW t \in Tables, UpsertedIn(t)
  PROVE  /\ HandedBar \subseteq ShownIn(t)
         /\ ShownIn(t) \subseteq ShownIn(before) \union HandedBar
<1>1. SentOK
  BY SentType DEF IInv
<1>2. ASSUME NEW s \in Sent PROVE s.id \in ShownIn(t)
  <2>1. { r.id : r \in Keyed(t.rows, s.key) } # {}
    <3>1. CASE Keyed(before.rows, s.key) = {}
      <4>1. { r.id : r \in Keyed(t.rows, s.key) } = {s.id}
        BY <3>1 DEF UpsertedIn
      <4>. QED
        BY <4>1
    <3>2. CASE Keyed(before.rows, s.key) # {}
      <4>1. { r.id : r \in Keyed(t.rows, s.key) }
              = { r.id : r \in Keyed(before.rows, s.key) }
        BY <3>2 DEF UpsertedIn
      <4>. QED
        BY <3>2, <4>1
    <3>. QED
      BY <3>1, <3>2
  <2>2. PICK r \in Keyed(t.rows, s.key) : TRUE
    BY <2>1
  <2>3. r \in t.rows /\ r.value = s.id
    BY <2>2 DEF UpsertedIn, Keyed
  <2>. QED
    BY <2>3 DEF ShownIn
<1>3. ASSUME NEW r \in t.rows PROVE r.value \in ShownIn(before) \union HandedBar
  <2>1. r.key \in Keys /\ r \in Keyed(t.rows, r.key)
    BY DEF Tables, Rows, Keyed
  <2>2. CASE r.key \in KeysOf(Sent)
    <3>1. PICK s \in Sent : s.key = r.key
      BY <2>2 DEF KeysOf
    <3>2. r.value = s.id
      BY <2>1, <3>1 DEF UpsertedIn
    <3>. QED
      BY <3>2 DEF HandedBar
  <2>3. CASE r.key \notin KeysOf(Sent)
    <3>1. r \in Keyed(before.rows, r.key)
      BY <2>1, <2>3 DEF UpsertedIn
    <3>. QED
      BY <3>1 DEF ShownIn, Keyed
  <2>. QED
    BY <2>2, <2>3
<1>4. HandedBar \subseteq ShownIn(t)
  BY <1>2 DEF HandedBar
<1>. QED
  BY <1>3, <1>4 DEF ShownIn

\* A COMMIT, or the end of an append, takes effect in one step.
LEMMA SessionLands ==
  ASSUME IInv, pc \in {"open", "merged"}, pc' = "closing",
         UNCHANGED <<definition, chunks>>, Contract!Landed
  PROVE  KeepsContract
<1>1. EndBar = "open" /\ EndBar' = "landed"
  BY EndIs, EndIsNext
<1>2. KindBar' = KindBar /\ HandedBar' = HandedBar
  BY BarsRest DEF definition
<1>3. Contract!Land
  BY <1>1, <1>2 DEF Contract!Land
<1>. QED
  BY <1>3 DEF KeepsContract, Contract!Next

\* The initial states, and the steps, map to the contract's.
LEMMA SessionInit == Init => Contract!Init
<1> SUFFICES ASSUME Init PROVE Contract!Init
  OBVIOUS
<1>1. EndBar = "ended"
  BY EndIs DEF Init
<1>2. HandedBar = {} /\ ShownIn(table) = {}
  BY NothingSent DEF Init, HandedBar, ShownIn, NoTable
<1>3. KindBar \in Contract!Kinds
  BY DEF KindBar, Contract!Kinds
<1>. QED
  BY <1>1, <1>2, <1>3 DEF Contract!Init

LEMMA SessionStep == ASSUME IInv, [Next]_vars PROVE KeepsContract
<1>0. TypeOK /\ TypeOK'
  BY NextTypeOK DEF IInv
<1>1. CASE BeginRefresh
  <2>1. PICK m \in Modes : Starts(m)
    BY <1>1 DEF BeginRefresh, Starts
  <2>2. UNCHANGED table /\ EndBar' = "open"
    BY <1>1, EndIsNext DEF BeginRefresh, Opened
  <2>. QED
    BY <2>1, <2>2, SessionOpens
<1>2. CASE BeginAppend
  <2>1. PICK m \in Modes : Starts(m)
    BY <1>2 DEF BeginAppend, Starts
  <2>2. UNCHANGED table /\ EndBar' = "open"
    BY <1>2, EndIsNext DEF BeginAppend, Opened
  <2>. QED
    BY <2>1, <2>2, SessionOpens
<1>3. CASE BeginMerge
  <2>1. PICK m \in Modes : Starts(m)
    BY <1>3 DEF BeginMerge, Starts
  <2>2. UNCHANGED table /\ EndBar' = "open"
    BY <1>3, EndIsNext DEF BeginMerge, Opened
  <2>. QED
    BY <2>1, <2>2, SessionOpens
<1>4. CASE BeginFails
  <2>1. PICK m \in Modes : Starts(m)
    BY <1>4 DEF BeginFails
  <2>2. UNCHANGED table /\ EndBar' = "ended"
    BY <1>4, EndIsNext DEF BeginFails, Fails, Reports
  <2>. QED
    BY <2>1, <2>2, SessionOpens
<1>5. CASE WriteRefresh
  <2>1. PICK keys \in ChunkKeys : chunks' = Append(chunks, keys)
    BY <1>5 DEF WriteRefresh
  <2>2. /\ pc = "open" /\ pc' = "open" /\ mode # "append"
        /\ UNCHANGED definition /\ UNCHANGED table
    BY <1>5 DEF WriteRefresh, Writes
  <2>. QED
    BY <1>0, <2>1, <2>2, SessionHands
<1>6. CASE WriteAppend
  <2>1. PICK keys \in ChunkKeys :
          /\ table' = [table EXCEPT !.rows = @ \union RowsOf(NextChunk, keys)]
          /\ chunks' = Append(chunks, keys)
    BY <1>6 DEF WriteAppend
  <2>2. pc = "open" /\ pc' = "open" /\ mode = "append" /\ UNCHANGED definition
    BY <1>6 DEF WriteAppend, Writes
  <2>. QED
    BY <1>0, <2>1, <2>2, SessionHands
<1>7. CASE WriteMerge
  <2>1. PICK keys \in ChunkKeys : chunks' = Append(chunks, keys)
    BY <1>7 DEF WriteMerge
  <2>2. /\ pc = "open" /\ pc' = "open" /\ mode # "append"
        /\ UNCHANGED definition /\ UNCHANGED table
    BY <1>7 DEF WriteMerge, Writes
  <2>. QED
    BY <1>0, <2>1, <2>2, SessionHands
<1>8. CASE Misaligned
  BY <1>8, FailsGivesUp DEF Misaligned, Writes
<1>9. CASE WriteFails
  BY <1>9, FailsGivesUp DEF WriteFails, Writes
<1>10. CASE Abandon
  BY <1>10, FailsGivesUp DEF Abandon
<1>11. CASE Gate
  <2>1. pc = "open" /\ UNCHANGED <<table, definition, chunks>>
    BY <1>11 DEF Gate
  <2>2. CASE FailsInside
    BY <2>1, <2>2, FailsGivesUp
  <2>3. CASE pc' = "gated"
    <3>1. EndBar' = EndBar /\ UNCHANGED <<mode, load, chunks, table>>
      BY <2>1, <2>3, EndIs, EndIsNext DEF definition
    <3>. QED
      BY <3>1, SessionRests
  <2>. QED
    BY <1>11, <2>2, <2>3 DEF Gate
<1>12. CASE CountMatched
  <2>1. EndBar' = EndBar /\ UNCHANGED <<mode, load, chunks, table>>
    BY <1>12, EndIs, EndIsNext DEF CountMatched, definition, database
  <2>. QED
    BY <2>1, SessionRests
<1>13. CASE MergeInto
  <2>1. EndBar' = EndBar /\ UNCHANGED <<mode, load, chunks, table>>
    BY <1>13, EndIs, EndIsNext DEF MergeInto, definition
  <2>. QED
    BY <2>1, SessionRests
<1>14. CASE Commit
  <2>1. /\ pc \in {"open", "merged"} /\ pc' = "closing" /\ table' = view
        /\ UNCHANGED <<definition, chunks>>
    BY <1>14 DEF Commit, MayCommit
  <2>2. ShownIn(table)' = ShownIn(view)
    BY <2>1 DEF ShownIn
  <2>3. Contract!Landed
    <3>1. CASE pc = "merged"
      <4>1. mode = "merge" /\ table = before /\ UpsertedIn(view) /\ view \in Tables
        BY <1>0, <3>1, InMerge DEF IInv, MergeInv, MergedInto, TypeOK
      <4>2. KindBar = "updating"
        BY <3>1, <4>1, KindIs
      <4>3. /\ HandedBar \subseteq ShownIn(view)
            /\ ShownIn(view) \subseteq ShownIn(table) \union HandedBar
        BY <4>1, MergeShows
      <4>. QED
        BY <2>2, <4>2, <4>3 DEF Contract!Landed
    <3>2. CASE pc = "open"
      <4>1. mode = "full_refresh" /\ view = [schema |-> plan, rows |-> Sent]
        BY <1>14, <3>2 DEF Commit, MayCommit, IInv, RefreshInv
      <4>2. KindBar = "replacing"
        BY <3>2, <4>1, KindIs
      <4>3. ShownIn(view) = HandedBar
        <5>1. \A r \in Sent : r.value = r.id
          BY <1>0, SentType DEF SentOK
        <5>. QED
          BY <4>1, <5>1 DEF ShownIn, HandedBar
      <4>. QED
        BY <2>2, <4>2, <4>3 DEF Contract!Landed
    <3>. QED
      BY <2>1, <3>1, <3>2
  <2>. QED
    BY <2>1, <2>3, SessionLands
<1>15. CASE StatementFails
  <2>1. /\ pc \in {"open", "gated", "counted", "merged"} /\ FailsInside
        /\ UNCHANGED <<table, definition, chunks>>
    BY <1>15 DEF StatementFails, MayCommit
  <2>. QED
    BY <2>1, FailsGivesUp
<1>16. CASE AppendDone
  <2>1. /\ pc = "open" /\ mode = "append" /\ pc' = "closing"
        /\ UNCHANGED <<table, definition, chunks>>
    BY <1>16 DEF AppendDone, database
  <2>2. KindBar = "adding" /\ ShownIn(table)' = ShownIn(table)
    BY <2>1, KindIs, BarsRest
  <2>3. HandedBar \subseteq ShownIn(table)
    <3>1. Appended /\ before \in Tables
      BY <1>0, <2>1 DEF IInv, AppendInv, TypeOK
    <3>2. Sent \subseteq table.rows
      BY <3>1 DEF Appended, Tables
    <3>3. \A r \in Sent : r.value = r.id
      BY <1>0, SentType DEF SentOK
    <3>. QED
      BY <3>2, <3>3 DEF ShownIn, HandedBar
  <2>4. Contract!Landed
    BY <2>2, <2>3 DEF Contract!Landed
  <2>. QED
    BY <2>1, <2>4, SessionLands
<1>17. CASE Close
  <2>1. /\ pc = "closing" /\ pc' = "over" /\ out'.status = "succeeded"
        /\ UNCHANGED <<table, mode, load, chunks>>
    BY <1>17 DEF Close, Reports, definition
  <2>2. EndBar = "landed" /\ EndBar' = "kept"
    BY <2>1, EndIs, EndIsNext
  <2>3. Contract!Keep
    BY <2>1, <2>2, BarsRest DEF Contract!Keep
  <2>. QED
    BY <2>3 DEF KeepsContract, Contract!Next
<1>18. CASE CloseFails
  <2>1. /\ pc = "closing" /\ UNCHANGED <<table, definition, chunks>>
        /\ Fails(Boundary, Len(chunks), Total)
    BY <1>18 DEF CloseFails
  <2>. QED
    BY <2>1, FailsGivesUp
<1>19. CASE Crash
  <2>1. /\ pc \in {"open", "gated", "counted", "merged", "closing"} /\ pc' = "dead"
        /\ UNCHANGED <<table, definition, chunks>>
    BY <1>0, <1>19 DEF Crash, TypeOK
  <2>2. EndBar \in {"open", "landed"} /\ EndBar' = "ended"
    BY <2>1, EndIs, EndIsNext
  <2>. QED
    BY <2>1, <2>2, SessionGivesUp
<1>20. CASE UNCHANGED vars
  <2>1. EndBar' = EndBar /\ UNCHANGED <<mode, load, chunks, table>>
    BY <1>20 DEF vars, database, definition, EndBar
  <2>. QED
    BY <2>1, SessionRests
<1>. QED
  BY <1>1, <1>2, <1>3, <1>4, <1>5, <1>6, <1>7, <1>8, <1>9, <1>10, <1>11, <1>12,
     <1>13, <1>14, <1>15, <1>16, <1>17, <1>18, <1>19, <1>20 DEF Next

(* The sessions implement the contract of the port, whichever statement    *)
(* fails and whenever the process dies (duckdb.rs: begin, write_chunk,     *)
(* commit, abandon).                                                       *)
THEOREM DuckDbImplementsSession == Spec => ImplementsSession
<1>1. IInv /\ [Next]_vars => KeepsContract
  BY SessionStep
<1>. QED
  BY SessionInit, DuckDbInvariant, <1>1, PTL DEF Spec, ImplementsSession, Contract!Spec, KeepsContract
=============================================================================
