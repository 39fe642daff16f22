-------------------------- MODULE SqlServerSession --------------------------
(***************************************************************************)
(* One SQL Server session (sqlserver/session.rs) and the server it talks   *)
(* to over one connection.  A statement is executed and acknowledged, or   *)
(* refused, or its connection is lost before or after the server executed  *)
(* it; after a loss the server rolls the open transaction back when it     *)
(* notices.  The server is external: it is modelled from how the session   *)
(* uses it.                                                                *)
(***************************************************************************)
EXTENDS Naturals, FiniteSets

CONSTANTS
  Modes,       \* the load modes in use
  MaxChunks    \* bound: chunks of a load

ASSUME SqlServerAssumption ==
  /\ Modes \subseteq {"full_refresh", "append", "merge"}
  /\ MaxChunks \in Nat

Chunks == 1 .. MaxChunks
Old == 0                  \* the records of the table before the load

VARIABLES
  table,       \* the committed records of the target table
  working,     \* the target table as the open transaction sees it
  stage,       \* merge: the records of the staging table
  tran,        \* the server holds a transaction of this session
  conn,        \* "up", or "lost" until the server notices, then "closed"
  mode,
  prepared,    \* Session.plan is Some
  believes,    \* Session.transaction
  sent,        \* chunks handed to write_chunk
  committed,   \* Session.committed_chunks
  pc,          \* where the session is
  out          \* what it reported: status, facts, committed chunks

server == <<table, working, stage, tran, conn>>
client == <<mode, prepared, believes, sent, committed, pc, out>>
vars == <<server, client>>

Pending == [status |-> "pending", facts |-> "none", committed |-> 0]
Transactional == mode # "append"

Init ==
  /\ table = {Old} /\ working = {} /\ stage = {}
  /\ tran = FALSE /\ conn = "up"
  /\ mode \in Modes
  /\ prepared = FALSE /\ believes = FALSE
  /\ sent = 0 /\ committed = 0
  /\ pc = "open" /\ out = Pending

(***************************************************************************)
(* The server.                                                             *)
(***************************************************************************)

\* Definitions named Bug... are not part of the model: each is a plausible
\* mistake in the definition that follows it.

Rolled == working' = {} /\ stage' = {} /\ tran' = FALSE

(* The server notices the loss: the open transaction is rolled back.       *)
Notice ==
  /\ conn = "lost"
  /\ conn' = "closed"
  /\ Rolled
  /\ UNCHANGED <<table, client>>

DoBegin == tran' = TRUE /\ working' = table /\ stage' = {} /\ UNCHANGED table
DoDelete == working' = {} /\ UNCHANGED <<table, stage, tran>>
DoNothing == UNCHANGED <<table, working, stage, tran>>

(* A bulk load inside a transaction goes with it; one outside commits.     *)
DoBulk(c) ==
  CASE mode = "append"       -> /\ table' = table \union {c}
                                /\ UNCHANGED <<working, stage, tran>>
    [] mode = "full_refresh" -> /\ working' = working \union {c}
                                /\ UNCHANGED <<table, stage, tran>>
    [] mode = "merge"        -> /\ stage' = stage \union {c}
                                /\ UNCHANGED <<table, working, tran>>

DoMerge == working' = working \union stage /\ stage' = {} /\ UNCHANGED <<table, tran>>
DoCommit == table' = working /\ Rolled

(***************************************************************************)
(* The session.  Every failure ends it.                                    *)
(***************************************************************************)

(* rollback: sent only when the session believes a transaction is open;    *)
(* it cannot reach the server over a lost connection.  Dropping the client *)
(* closes the connection, which the server then notices.                   *)
BugNoRollback(wasUp) ==
  /\ conn' = IF wasUp THEN "up" ELSE "lost"
  /\ UNCHANGED <<working, stage, tran>>

RollsBack(wasUp) ==
  IF believes /\ wasUp
  THEN conn' = "closed" /\ Rolled
  ELSE conn' = "lost" /\ UNCHANGED <<working, stage, tran>>

Reports(status, facts) ==
  /\ pc' = "over"
  /\ out' = [status |-> status, facts |-> facts, committed |-> committed]
  /\ believes' = FALSE

(* What a failed statement of each mode says of the destination.           *)
FailureFacts ==
  IF mode = "merge" THEN "atomic" ELSE "not_applicable"

AppendFacts == IF committed > 0 THEN "best_effort" ELSE "not_applicable"

(* A statement the server refuses: rolled back, reported.                  *)
Refused(facts) ==
  /\ RollsBack(TRUE)
  /\ Reports("failed", facts)
  /\ UNCHANGED <<table, mode, prepared, sent, committed>>

(* A statement whose connection is lost: the server may have executed it.  *)
Lost(effect, facts) ==
  /\ effect \/ DoNothing
  /\ conn' = "lost"
  /\ Reports("failed", facts)
  /\ UNCHANGED <<mode, prepared, sent, committed>>

Acknowledged(effect) ==
  /\ effect
  /\ UNCHANGED <<conn, mode, committed, out>>

(* prepare: introspection, validation and planning come before any write.  *)
NotValid ==
  /\ pc = "open" /\ ~prepared
  /\ Refused("not_applicable")

PrepareAppend ==
  /\ pc = "open" /\ ~prepared /\ ~Transactional
  /\ prepared' = TRUE
  /\ UNCHANGED <<server, mode, believes, sent, committed, pc, out>>

BeginTran ==
  /\ pc = "open" /\ ~prepared /\ Transactional
  /\ \/ Acknowledged(DoBegin) /\ believes' = TRUE /\ pc' = "preparing"
        /\ UNCHANGED <<prepared, sent>>
     \/ Refused("not_applicable")
     \/ Lost(DoBegin, "not_applicable")

(* Full refresh: create the table if need be, delete its records.  Merge:  *)
(* create the staging table.                                               *)
PrepareTable ==
  LET effect == IF mode = "full_refresh" THEN DoDelete ELSE DoNothing IN
  /\ pc = "preparing"
  /\ \/ Acknowledged(effect) /\ prepared' = TRUE /\ pc' = "open"
        /\ UNCHANGED <<believes, sent>>
     \/ Refused(FailureFacts)
     \/ Lost(effect, FailureFacts)

(* write_chunk once prepared.  An append that fails here reports its       *)
(* strategy whatever was committed.                                        *)
WriteFacts == IF mode = "append" THEN "best_effort" ELSE FailureFacts

BugCountFirst ==
  /\ pc = "open" /\ prepared /\ sent < MaxChunks
  /\ committed' = IF mode = "append" THEN committed + 1 ELSE committed
  /\ \/ /\ DoBulk(sent + 1)
        /\ sent' = sent + 1
        /\ UNCHANGED <<conn, mode, prepared, believes, pc, out>>
     \/ /\ RollsBack(TRUE)
        /\ Reports("failed", WriteFacts)
        /\ UNCHANGED <<table, mode, prepared, sent>>

WriteChunk ==
  /\ pc = "open" /\ prepared /\ sent < MaxChunks
  /\ \/ /\ DoBulk(sent + 1)
        /\ sent' = sent + 1
        /\ committed' = IF mode = "append" THEN committed + 1 ELSE committed
        /\ UNCHANGED <<conn, mode, prepared, believes, pc, out>>
     \/ Refused(WriteFacts)
     \/ Lost(DoBulk(sent + 1), WriteFacts)

AppendDone ==
  /\ pc = "open" /\ ~Transactional /\ sent > 0
  /\ Reports("succeeded", "best_effort")
  /\ conn' = "lost"
  /\ UNCHANGED <<table, working, stage, tran, mode, prepared, sent, committed>>

(* commit: the duplicate-key gate, the counts, MERGE and DROP TABLE come   *)
(* before COMMIT TRAN in a merge.                                          *)
Merge ==
  /\ pc = "open" /\ mode = "merge" /\ sent > 0
  /\ \/ Acknowledged(DoMerge) /\ pc' = "merged"
        /\ UNCHANGED <<prepared, believes, sent>>
     \/ Refused("atomic")
     \/ Lost(DoMerge, "atomic")

BugCommitBeforeMerge == mode # "append" /\ pc = "open" /\ sent > 0

MayCommit ==
  \/ pc = "merged"
  \/ pc = "open" /\ mode = "full_refresh" /\ sent > 0

Commit ==
  /\ MayCommit
  /\ \/ /\ DoCommit
        /\ Reports("succeeded", "atomic")
        /\ conn' = "lost"
        /\ UNCHANGED <<mode, prepared, sent, committed>>
     \/ Refused(FailureFacts)
     \/ Lost(DoCommit, FailureFacts)

(* The load fails elsewhere while the session is open.                     *)
Abandon ==
  /\ pc = "open"
  /\ RollsBack(TRUE)
  /\ Reports("failed", AppendFacts)
  /\ UNCHANGED <<table, mode, prepared, sent, committed>>

Crash ==
  /\ pc # "over" /\ pc # "dead"
  /\ pc' = "dead"
  /\ conn' = "lost"
  /\ UNCHANGED <<table, working, stage, tran, mode, prepared, believes, sent,
                 committed, out>>

Session ==
  \/ NotValid \/ PrepareAppend \/ BeginTran \/ PrepareTable \/ WriteChunk
  \/ AppendDone \/ Merge \/ Commit \/ Abandon \/ Crash

Next == Session \/ Notice

(* The server notices every loss in the end.                               *)
Spec == Init /\ [][Next]_vars
FairSpec == Spec /\ WF_vars(Notice)

-----------------------------------------------------------------------------

Active == pc \notin {"over", "dead"}
Whole == IF mode = "full_refresh" THEN 1 .. sent ELSE {Old} \union 1 .. sent

(* A full refresh or a merge is in the table whole or not at all, at every *)
(* moment, whatever statement fails or is lost; and a load that succeeded  *)
(* is whole in every mode (ADR-0064).                                      *)
AllOrNothing ==
  /\ Transactional => table \in {{Old}, Whole}
  /\ out.status = "succeeded" => table = Whole

(* The chunks an append counts are committed; of those it does not count,  *)
(* only the last one sent may be, when its acknowledgement was lost.       *)
CountedIsCommitted ==
  mode = "append" =>
    /\ 1 .. committed \subseteq table
    /\ table \subseteq {Old} \union 1 .. committed + 1

(* A session that is over, or whose process died, leaves no transaction    *)
(* open at the server: no lock outlives the load.                          *)
NoTransactionSurvives == ~Active ~> ~tran /\ conn = "closed"

-----------------------------------------------------------------------------
(* The refinement mapping onto SessionContract.                            *)
KindBar ==
  CASE mode = "full_refresh" -> "replacing"
    [] mode = "merge"        -> "updating"
    [] mode = "append"       -> "adding"

EndBar ==
  IF Active THEN "open" ELSE IF out.status = "succeeded" THEN "kept" ELSE "ended"

Contract == INSTANCE SessionContract
              WITH Records <- {Old} \union Chunks, kind <- KindBar, end <- EndBar,
                   handed <- 1 .. sent, content <- table

(* The session implements the contract of the port: whichever answer is      *)
(* lost, a refresh or a merge appears in one step, whole, success is reported *)
(* of no other, and nothing appears once the session has reported.            *)
ImplementsSession == Contract!Spec
=============================================================================
