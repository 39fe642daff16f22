----------------------- MODULE SqlServerSessionProofs -----------------------
(***************************************************************************)
(* Theorems about SqlServerSession, for every set of load modes and every  *)
(* number of chunks.                                                       *)
(***************************************************************************)
EXTENDS SqlServerSession, TLAPS

TypeOK ==
  /\ table \subseteq Nat /\ working \subseteq Nat /\ stage \subseteq Nat
  /\ tran \in BOOLEAN /\ prepared \in BOOLEAN /\ believes \in BOOLEAN
  /\ conn \in {"up", "lost", "closed"}
  /\ mode \in Modes
  /\ sent \in 0 .. MaxChunks /\ committed \in Nat
  /\ pc \in {"open", "preparing", "merged", "over", "dead"}
  /\ out \in [status : {"pending", "failed", "succeeded"},
              facts : {"none", "not_applicable", "best_effort", "atomic"},
              committed : Nat]

\* What the server holds while the session is under way, by where the session
\* is: before the transaction, while the table is prepared, between chunks,
\* and once the staged records are merged.
Idle == table = {Old} /\ working = {} /\ stage = {} /\ ~tran

ActiveInv ==
  Active =>
    /\ conn = "up" /\ out = Pending /\ believes = tran
    /\ ~prepared => sent = 0
    /\ mode = "append" =>
         /\ pc = "open" /\ ~tran /\ working = {} /\ stage = {}
         /\ table = {Old} \union 1 .. sent
    /\ Transactional =>
         /\ table = {Old}
         /\ pc = "open" /\ ~prepared => Idle
         /\ pc = "preparing" => ~prepared /\ tran /\ working = {Old} /\ stage = {}
         /\ pc = "open" /\ prepared =>
              /\ tran
              /\ mode = "full_refresh" => working = 1 .. sent
              /\ mode = "merge" => working = {Old} /\ stage = 1 .. sent
         /\ pc = "merged" =>
              /\ mode = "merge" /\ prepared /\ tran
              /\ working = {Old} \union 1 .. sent

\* What an append counts is what was acknowledged.
CountInv == committed = IF mode = "append" THEN sent ELSE 0

\* A connection the server has closed holds nothing; only a session that is
\* under way has one that is up.
ConnInv ==
  /\ conn = "closed" => ~tran /\ working = {} /\ stage = {}
  /\ conn = "up" <=> Active

IInv ==
  /\ TypeOK /\ ActiveInv /\ CountInv /\ ConnInv
  /\ AllOrNothing /\ CountedIsCommitted

-----------------------------------------------------------------------------
LEMMA InitIInv == Init => IInv
<1> SUFFICES ASSUME Init PROVE IInv
  OBVIOUS
<1> USE SqlServerAssumption DEF Init
<1>1. TypeOK
  <2>1. tran \in BOOLEAN /\ prepared \in BOOLEAN /\ believes \in BOOLEAN
    BY Zenon
  <2>. QED
    BY <2>1 DEF TypeOK, Old, Pending
<1>2. 1 .. 0 = {}
  OBVIOUS
<1>3. ActiveInv /\ CountInv /\ ConnInv
  BY <1>2 DEF ActiveInv, CountInv, ConnInv, Active, Idle, Transactional, Old
<1>4. AllOrNothing /\ CountedIsCommitted
  BY <1>2 DEF AllOrNothing, CountedIsCommitted, Whole, Pending, Old
<1>. QED
  BY <1>1, <1>3, <1>4 DEF IInv

LEMMA NextTypeOK == TypeOK /\ [Next]_vars => TypeOK'
<1> SUFFICES ASSUME TypeOK, [Next]_vars PROVE TypeOK'
  OBVIOUS
<1> USE SqlServerAssumption
    DEF TypeOK, server, client, Rolled, RollsBack, Reports,
        DoBegin, DoDelete, DoBulk, DoMerge, DoCommit, DoNothing
<1>1. CASE Notice
  BY <1>1 DEF Notice
<1>2. ASSUME NEW facts \in {"not_applicable", "best_effort", "atomic"},
             Refused(facts)
      PROVE  TypeOK'
  BY <1>2 DEF Refused
<1>3. /\ FailureFacts \in {"not_applicable", "atomic"}
      /\ WriteFacts \in {"not_applicable", "best_effort", "atomic"}
  BY DEF FailureFacts, WriteFacts
<1>4. CASE NotValid
  BY <1>2, <1>4 DEF NotValid
<1>5. CASE PrepareAppend
  BY <1>5 DEF PrepareAppend
<1>6. CASE BeginTran
  <2>1. CASE Acknowledged(DoBegin) /\ believes' = TRUE /\ pc' = "preparing"
             /\ UNCHANGED <<prepared, sent>>
    BY <2>1 DEF Acknowledged
  <2>2. CASE Lost(DoBegin, "not_applicable")
    BY <2>2 DEF Lost
  <2>. QED
    BY <1>2, <1>6, <2>1, <2>2 DEF BeginTran
<1>7. CASE PrepareTable
  <2>1. CASE mode = "full_refresh"
    <3>1. CASE Acknowledged(DoDelete) /\ prepared' = TRUE /\ pc' = "open"
               /\ UNCHANGED <<believes, sent>>
      BY <3>1 DEF Acknowledged
    <3>2. CASE Lost(DoDelete, FailureFacts)
      BY <1>3, <3>2 DEF Lost
    <3>. QED
      BY <1>2, <1>3, <1>7, <2>1, <3>1, <3>2 DEF PrepareTable
  <2>2. CASE mode # "full_refresh"
    <3>1. CASE Acknowledged(DoNothing) /\ prepared' = TRUE /\ pc' = "open"
               /\ UNCHANGED <<believes, sent>>
      BY <3>1 DEF Acknowledged
    <3>2. CASE Lost(DoNothing, FailureFacts)
      BY <1>3, <3>2 DEF Lost
    <3>. QED
      BY <1>2, <1>3, <1>7, <2>2, <3>1, <3>2 DEF PrepareTable
  <2>. QED
    BY <2>1, <2>2
<1>8. CASE WriteChunk
  <2>1. sent + 1 \in Nat /\ committed + 1 \in Nat
    OBVIOUS
  <2>2. CASE Lost(DoBulk(sent + 1), WriteFacts)
    BY <1>3, <2>1, <2>2 DEF Lost
  <2>3. CASE /\ DoBulk(sent + 1)
             /\ sent' = sent + 1
             /\ committed' = IF mode = "append" THEN committed + 1 ELSE committed
             /\ UNCHANGED <<conn, mode, prepared, believes, pc, out>>
    <3>1. sent' \in 0 .. MaxChunks
      BY <1>8, <2>3 DEF WriteChunk
    <3>. QED
      BY <2>1, <2>3, <3>1
  <2>. QED
    BY <1>2, <1>3, <1>8, <2>2, <2>3 DEF WriteChunk
<1>9. CASE AppendDone
  BY <1>9 DEF AppendDone
<1>10. CASE Merge
  <2>1. CASE Acknowledged(DoMerge) /\ pc' = "merged"
             /\ UNCHANGED <<prepared, believes, sent>>
    BY <2>1 DEF Acknowledged
  <2>2. CASE Lost(DoMerge, "atomic")
    BY <2>2 DEF Lost
  <2>. QED
    BY <1>2, <1>10, <2>1, <2>2 DEF Merge
<1>11. CASE Commit
  <2>1. CASE Lost(DoCommit, FailureFacts)
    BY <1>3, <2>1 DEF Lost
  <2>2. CASE /\ DoCommit
             /\ Reports("succeeded", "atomic")
             /\ conn' = "lost"
             /\ UNCHANGED <<mode, prepared, sent, committed>>
    BY <2>2
  <2>. QED
    BY <1>2, <1>3, <1>11, <2>1, <2>2 DEF Commit
<1>12. CASE Abandon
  BY <1>12 DEF Abandon, AppendFacts
<1>13. CASE Crash
  BY <1>13 DEF Crash
<1>14. CASE UNCHANGED vars
  BY <1>14 DEF vars
<1>. QED
  BY <1>1, <1>4, <1>5, <1>6, <1>7, <1>8, <1>9, <1>10, <1>11, <1>12, <1>13, <1>14
  DEF Next, Session

-----------------------------------------------------------------------------
\* How a session ends: the table is as it was or whole, a success is whole, and
\* the connection is gone.
LEMMA EndKeeps ==
  ASSUME IInv, TypeOK', Active,
         pc' \in {"over", "dead"},
         UNCHANGED <<mode, sent, committed>>,
         conn' = "lost" \/ (conn' = "closed" /\ Rolled),
         Transactional => table' \in {{Old}, Whole},
         mode = "append" =>
           table' \in {{Old} \union 1 .. sent, {Old} \union 1 .. sent + 1},
         out'.status = "succeeded" => table' = Whole
  PROVE  IInv'
<1>1. ActiveInv' /\ CountInv' /\ ConnInv'
  BY DEF IInv, ActiveInv, CountInv, ConnInv, Active, Rolled
<1>2. Whole' = Whole
  BY DEF Whole
<1>3. AllOrNothing'
  BY <1>2 DEF AllOrNothing, Transactional
<1>4. CountedIsCommitted'
  <2>1. mode = "append" => committed = sent /\ sent \in Nat
    BY DEF IInv, CountInv, TypeOK
  <2>2. ASSUME mode = "append" PROVE 1 .. sent \subseteq 1 .. sent + 1
    BY <2>1, <2>2
  <2>. QED
    BY <2>1, <2>2 DEF CountedIsCommitted
<1>. QED
  BY <1>1, <1>3, <1>4 DEF IInv

\* The table while a session is under way.
LEMMA ActiveTable ==
  ASSUME IInv, Active
  PROVE  /\ Transactional => table = {Old}
         /\ mode = "append" => table = {Old} \union 1 .. sent
         /\ conn = "up" /\ believes = tran /\ out = Pending
  BY DEF IInv, ActiveInv

LEMMA RefusedKeeps ==
  ASSUME IInv, TypeOK', Active, NEW facts, Refused(facts)
  PROVE  IInv'
<1>1. /\ pc' = "over" /\ out'.status = "failed"
      /\ UNCHANGED <<table, mode, sent, committed>>
  BY DEF Refused, Reports
<1>2. conn' = "lost" \/ (conn' = "closed" /\ Rolled)
  BY DEF Refused, RollsBack
<1>. QED
  BY <1>1, <1>2, ActiveTable, EndKeeps

LEMMA NextIInv == IInv /\ [Next]_vars => IInv'
<1> SUFFICES ASSUME IInv, [Next]_vars PROVE IInv'
  OBVIOUS
<1>0. TypeOK /\ TypeOK'
  BY NextTypeOK DEF IInv
<1>1. CASE Notice
  <2>1. ~Active /\ ~Active' /\ ~tran'
    BY <1>1 DEF Notice, client, Active, IInv, ConnInv, Rolled
  <2>2. UNCHANGED <<table, mode, sent, committed, pc, out>>
    BY <1>1 DEF Notice, client
  <2>3. ActiveInv' /\ CountInv' /\ ConnInv'
    BY <1>1, <2>1, <2>2 DEF IInv, ActiveInv, CountInv, ConnInv, Notice, Rolled
  <2>4. AllOrNothing' /\ CountedIsCommitted'
    BY <2>2 DEF IInv, AllOrNothing, CountedIsCommitted, Whole, Transactional
  <2>. QED
    BY <1>0, <2>3, <2>4 DEF IInv
<1>2. CASE NotValid
  BY <1>0, <1>2, RefusedKeeps DEF NotValid, Active
<1>3. CASE PrepareAppend
  <2>1. Active /\ Active' /\ pc' = "open" /\ mode = "append"
    BY <1>0, <1>3, SqlServerAssumption DEF PrepareAppend, Active, Transactional, TypeOK
  <2>. QED
    BY <1>0, <1>3, <2>1
    DEF PrepareAppend, server, IInv, ActiveInv, CountInv, ConnInv, AllOrNothing,
        CountedIsCommitted, Whole, Transactional
<1>4. CASE BeginTran
  <2>1. Active /\ Idle /\ sent = 0 /\ conn = "up" /\ out = Pending
    BY <1>4 DEF BeginTran, Active, IInv, ActiveInv
  <2>2. CASE Acknowledged(DoBegin) /\ believes' = TRUE /\ pc' = "preparing"
             /\ UNCHANGED <<prepared, sent>>
    <3>1. /\ ActiveInv' /\ CountInv' /\ ConnInv'
      BY <1>4, <2>1, <2>2
      DEF BeginTran, Acknowledged, DoBegin, Idle, Active, IInv, ActiveInv, CountInv,
          ConnInv, Transactional
    <3>2. AllOrNothing' /\ CountedIsCommitted'
      BY <1>4, <2>1, <2>2
      DEF BeginTran, Acknowledged, DoBegin, Idle, Transactional, AllOrNothing,
          CountedIsCommitted, Pending
    <3>. QED
      BY <1>0, <3>1, <3>2 DEF IInv
  <2>3. CASE Lost(DoBegin, "not_applicable")
    <3>1. /\ UNCHANGED <<table, mode, sent, committed>>
          /\ conn' = "lost" /\ pc' = "over" /\ out'.status = "failed"
      BY <2>3 DEF Lost, DoBegin, DoNothing, Reports
    <3>. QED
      BY <1>0, <2>1, <3>1, ActiveTable, EndKeeps
  <2>. QED
    BY <1>0, <1>4, <2>1, <2>2, <2>3, RefusedKeeps DEF BeginTran
<1>5. CASE PrepareTable
  <2>1. /\ Active /\ Transactional /\ table = {Old} /\ working = {Old}
        /\ stage = {} /\ tran /\ sent = 0 /\ conn = "up" /\ out = Pending
    BY <1>0, <1>5, SqlServerAssumption
    DEF PrepareTable, Active, IInv, ActiveInv, Transactional, TypeOK
  <2>. DEFINE effect == IF mode = "full_refresh" THEN DoDelete ELSE DoNothing
  <2>2. effect => /\ UNCHANGED <<table, stage, tran>>
                  /\ working' = IF mode = "full_refresh" THEN {} ELSE working
    BY DEF DoDelete, DoNothing
  <2>. HIDE DEF effect
  <2>3. CASE Acknowledged(effect) /\ prepared' = TRUE /\ pc' = "open"
             /\ UNCHANGED <<believes, sent>>
    <3>1. /\ ActiveInv' /\ CountInv' /\ ConnInv'
      BY <2>1, <2>2, <2>3
      DEF Acknowledged, Active, IInv, ActiveInv, CountInv, ConnInv, Transactional
    <3>2. AllOrNothing' /\ CountedIsCommitted'
      BY <2>1, <2>2, <2>3
      DEF Acknowledged, Transactional, AllOrNothing, CountedIsCommitted, Pending
    <3>. QED
      BY <1>0, <3>1, <3>2 DEF IInv
  <2>4. CASE Lost(effect, FailureFacts)
    <3>1. /\ UNCHANGED <<table, mode, sent, committed>>
          /\ conn' = "lost" /\ pc' = "over" /\ out'.status = "failed"
      BY <2>2, <2>4 DEF Lost, DoNothing, Reports
    <3>. QED
      BY <1>0, <2>1, <3>1, ActiveTable, EndKeeps
  <2>. QED
    BY <1>0, <1>5, <2>1, <2>3, <2>4, RefusedKeeps DEF PrepareTable, effect
<1>6. CASE WriteChunk
  <2>1. Active /\ conn = "up" /\ sent \in Nat
    BY <1>0, <1>6 DEF WriteChunk, Active, IInv, ActiveInv, TypeOK
  <2>2. 1 .. sent + 1 = 1 .. sent \union {sent + 1}
    BY <2>1
  <2>3. CASE /\ DoBulk(sent + 1)
             /\ sent' = sent + 1
             /\ committed' = IF mode = "append" THEN committed + 1 ELSE committed
             /\ UNCHANGED <<conn, mode, prepared, believes, pc, out>>
    <3>1. /\ Active' /\ out' = Pending /\ 1 .. sent' = 1 .. sent \union {sent + 1}
      BY <2>1, <2>2, <2>3 DEF Active, IInv, ActiveInv
    <3>2. CASE mode = "append"
      BY <1>0, <1>6, <2>1, <2>3, <3>1, <3>2
      DEF WriteChunk, DoBulk, IInv, ActiveInv, CountInv, ConnInv, AllOrNothing,
          CountedIsCommitted, Whole, Transactional, Pending
    <3>3. CASE mode = "full_refresh"
      <4>1. /\ Transactional /\ table = {Old} /\ tran /\ believes = tran
            /\ working = 1 .. sent
        BY <1>6, <2>1, <3>3 DEF WriteChunk, IInv, ActiveInv, Transactional
      <4>2. /\ Transactional' /\ UNCHANGED <<table, tran, believes, mode>>
            /\ working' = 1 .. sent' /\ committed' = committed
        BY <2>3, <3>1, <3>3, <4>1 DEF DoBulk, Transactional
      <4>3. ActiveInv'
        BY <1>6, <2>1, <2>3, <3>1, <3>3, <4>1, <4>2
        DEF WriteChunk, ActiveInv, Transactional
      <4>4. CountInv' /\ ConnInv'
        BY <2>1, <2>3, <3>1, <3>3, <4>2 DEF IInv, CountInv, ConnInv
      <4>5. AllOrNothing' /\ CountedIsCommitted'
        BY <3>1, <3>3, <4>1, <4>2 DEF AllOrNothing, CountedIsCommitted, Pending
      <4>. QED
        BY <1>0, <4>3, <4>4, <4>5 DEF IInv
    <3>4. CASE mode = "merge"
      <4>1. /\ Transactional /\ table = {Old} /\ tran /\ believes = tran
            /\ working = {Old} /\ stage = 1 .. sent
        BY <1>6, <2>1, <3>4 DEF WriteChunk, IInv, ActiveInv, Transactional
      <4>2. /\ Transactional' /\ UNCHANGED <<table, tran, believes, mode>>
            /\ working' = {Old} /\ stage' = 1 .. sent' /\ committed' = committed
        BY <2>3, <3>1, <3>4, <4>1 DEF DoBulk, Transactional
      <4>3. ActiveInv'
        BY <1>6, <2>1, <2>3, <3>1, <3>4, <4>1, <4>2
        DEF WriteChunk, ActiveInv, Transactional
      <4>4. CountInv' /\ ConnInv'
        BY <2>1, <2>3, <3>1, <3>4, <4>2 DEF IInv, CountInv, ConnInv
      <4>5. AllOrNothing' /\ CountedIsCommitted'
        BY <3>1, <3>4, <4>1, <4>2 DEF AllOrNothing, CountedIsCommitted, Pending
      <4>. QED
        BY <1>0, <4>3, <4>4, <4>5 DEF IInv
    <3>. QED
      BY <1>0, <3>2, <3>3, <3>4, SqlServerAssumption DEF TypeOK
  <2>4. CASE Lost(DoBulk(sent + 1), WriteFacts)
    <3>1. /\ UNCHANGED <<mode, sent, committed>>
          /\ conn' = "lost" /\ pc' = "over" /\ out'.status = "failed"
      BY <2>4 DEF Lost, Reports
    <3>2. /\ Transactional => table' = table
          /\ mode = "append" => table' \in {table, table \union {sent + 1}}
      BY <1>0, <2>4, SqlServerAssumption
      DEF Lost, DoBulk, DoNothing, Transactional, TypeOK
    <3>. QED
      BY <1>0, <2>1, <2>2, <3>1, <3>2, ActiveTable, EndKeeps
  <2>. QED
    BY <1>0, <1>6, <2>1, <2>3, <2>4, RefusedKeeps DEF WriteChunk
<1>7. CASE AppendDone
  <2>1. /\ Active /\ mode = "append" /\ ~Transactional
        /\ table = Whole /\ table = {Old} \union 1 .. sent
    BY <1>0, <1>7, ActiveTable, SqlServerAssumption
    DEF AppendDone, Active, Transactional, Whole, TypeOK
  <2>2. /\ UNCHANGED <<table, mode, sent, committed>>
        /\ conn' = "lost" /\ pc' = "over"
    BY <1>7 DEF AppendDone, Reports
  <2>. QED
    BY <1>0, <2>1, <2>2, EndKeeps
<1>8. CASE Merge
  <2>1. /\ Active /\ mode = "merge" /\ pc = "open" /\ prepared /\ tran
        /\ table = {Old} /\ working = {Old} /\ stage = 1 .. sent
        /\ conn = "up" /\ believes = tran /\ out = Pending
    BY <1>0, <1>8 DEF Merge, Active, IInv, ActiveInv, Transactional, TypeOK
  <2>2. CASE Acknowledged(DoMerge) /\ pc' = "merged"
             /\ UNCHANGED <<prepared, believes, sent>>
    BY <1>0, <2>1, <2>2
    DEF Acknowledged, DoMerge, Active, IInv, ActiveInv, CountInv, ConnInv,
        AllOrNothing, CountedIsCommitted, Whole, Transactional
  <2>3. CASE Lost(DoMerge, "atomic")
    <3>1. /\ UNCHANGED <<table, mode, sent, committed>>
          /\ conn' = "lost" /\ pc' = "over" /\ out'.status = "failed"
      BY <2>3 DEF Lost, DoMerge, DoNothing, Reports
    <3>. QED
      BY <1>0, <2>1, <3>1, ActiveTable, EndKeeps
  <2>. QED
    BY <1>0, <1>8, <2>1, <2>2, <2>3, RefusedKeeps DEF Merge
<1>9. CASE Commit
  <2>1. Active /\ Transactional /\ table = {Old} /\ working = Whole
    BY <1>0, <1>9
    DEF Commit, MayCommit, Active, IInv, ActiveInv, Whole, Transactional, TypeOK
  <2>2. CASE /\ DoCommit
             /\ Reports("succeeded", "atomic")
             /\ conn' = "lost"
             /\ UNCHANGED <<mode, prepared, sent, committed>>
    <3>1. /\ UNCHANGED <<mode, sent, committed>> /\ table' = Whole
          /\ conn' = "lost" /\ pc' = "over"
      BY <2>1, <2>2 DEF DoCommit, Reports
    <3>. QED
      BY <1>0, <2>1, <3>1, EndKeeps DEF Transactional
  <2>3. CASE Lost(DoCommit, FailureFacts)
    <3>1. /\ UNCHANGED <<mode, sent, committed>> /\ table' \in {table, Whole}
          /\ conn' = "lost" /\ pc' = "over" /\ out'.status = "failed"
      BY <2>1, <2>3 DEF Lost, DoCommit, DoNothing, Reports
    <3>. QED
      BY <1>0, <2>1, <3>1, EndKeeps DEF Transactional
  <2>. QED
    BY <1>0, <1>9, <2>1, <2>2, <2>3, RefusedKeeps DEF Commit
<1>10. CASE Abandon
  <2>1. Active
    BY <1>10 DEF Abandon, Active
  <2>2. /\ UNCHANGED <<table, mode, sent, committed>>
        /\ conn' = "lost" \/ (conn' = "closed" /\ Rolled)
        /\ pc' = "over" /\ out'.status = "failed"
    BY <1>10 DEF Abandon, RollsBack, Reports
  <2>. QED
    BY <1>0, <2>1, <2>2, ActiveTable, EndKeeps
<1>11. CASE Crash
  <2>1. Active
    BY <1>11 DEF Crash, Active
  <2>2. /\ UNCHANGED <<table, mode, sent, committed, out>>
        /\ conn' = "lost" /\ pc' = "dead"
    BY <1>11 DEF Crash
  <2>. QED
    BY <1>0, <2>1, <2>2, ActiveTable, EndKeeps DEF Pending
<1>12. CASE UNCHANGED vars
  BY <1>12, <1>0 DEF vars, server, client, IInv, ActiveInv, CountInv, ConnInv,
     AllOrNothing, CountedIsCommitted, Whole, Active, Idle, Transactional
<1>. QED
  BY <1>1, <1>2, <1>3, <1>4, <1>5, <1>6, <1>7, <1>8, <1>9, <1>10, <1>11, <1>12
  DEF Next, Session

(* Every state of a session and its server is well typed.                  *)
THEOREM SqlServerTypeOK == Spec => []TypeOK
<1>1. Init => TypeOK
  BY InitIInv DEF IInv
<1>. QED
  BY <1>1, NextTypeOK, PTL DEF Spec

(* The inductive invariant: what the server holds at every point of a      *)
(* session, whichever statement was lost.                                  *)
THEOREM SqlServerInvariant == Spec => []IInv
  BY InitIInv, NextIInv, PTL DEF Spec

(* The server holds a transaction only over a connection that it has not   *)
(* closed, and a session that is over or dead has none that is up: what    *)
(* Notice still has to roll back is all that can be left.                  *)
THEOREM SqlServerConnection == Spec => []ConnInv
<1>1. IInv => ConnInv
  BY DEF IInv
<1>. QED
  BY <1>1, SqlServerInvariant, PTL

(* A full refresh or a merge is in the table whole or not at all, and a    *)
(* load that reports success is whole in every mode.                       *)
THEOREM SqlServerAllOrNothing == Spec => []AllOrNothing
<1>1. IInv => AllOrNothing
  BY DEF IInv
<1>. QED
  BY <1>1, SqlServerInvariant, PTL

(* The chunks an append counts are committed, and at most one more is.     *)
THEOREM SqlServerCountedIsCommitted == Spec => []CountedIsCommitted
<1>1. IInv => CountedIsCommitted
  BY DEF IInv
<1>. QED
  BY <1>1, SqlServerInvariant, PTL

-----------------------------------------------------------------------------
(* Every step of the session is one of the contract, or none of its.       *)

KeepsContract == [Contract!Next]_Contract!vars

\* How a session writes, for the contract.
LEMMA KindIs ==
  ASSUME IInv
  PROVE  /\ mode = "full_refresh" => KindBar = "replacing"
         /\ mode = "merge" => KindBar = "updating"
         /\ mode = "append" => KindBar = "adding"
         /\ mode \in {"full_refresh", "merge", "append"}
         /\ sent \in 0 .. MaxChunks /\ MaxChunks \in Nat
BY SqlServerAssumption DEF IInv, TypeOK, KindBar

\* A step that shows nothing and hands nothing is none of the contract's.
LEMMA SessionRests ==
  ASSUME UNCHANGED <<mode, sent, table>>, Active <=> Active', ~Active => UNCHANGED out
  PROVE  KeepsContract
<1>1. KindBar' = KindBar /\ EndBar' = EndBar
  BY DEF KindBar, EndBar
<1>. QED
  BY <1>1 DEF KeepsContract, Contract!vars

\* A session that ends without success leaves the table as it was, but for a
\* chunk of an append that landed unacknowledged.
LEMMA SessionGivesUp ==
  ASSUME IInv, Active, ~Active', out'.status # "succeeded", UNCHANGED <<mode, sent>>,
         \/ table' = table
         \/ mode = "append" /\ table' = table \union {sent + 1} /\ sent < MaxChunks
  PROVE  KeepsContract
<1>1. EndBar = "open" /\ EndBar' = "ended" /\ KindBar' = KindBar
  BY DEF EndBar, KindBar
<1>2. CASE table' = table
  <2>1. Contract!GiveUp
    BY <1>1, <1>2 DEF Contract!GiveUp
  <2>. QED
    BY <2>1 DEF KeepsContract, Contract!Next
<1>3. CASE mode = "append" /\ table' = table \union {sent + 1} /\ sent < MaxChunks
  <2>1. table = {Old} \union 1 .. sent /\ sent \in Nat /\ MaxChunks \in Nat
    BY <1>3, ActiveTable, KindIs
  <2>2. table' \in SUBSET ({Old} \union Chunks)
    BY <1>3, <2>1 DEF Chunks
  <2>3. Contract!GiveUp
    BY <1>1, <1>3, <2>2, KindIs DEF Contract!GiveUp
  <2>. QED
    BY <2>3 DEF KeepsContract, Contract!Next
<1>. QED
  BY <1>2, <1>3

\* A session that ends with the whole of what it was handed has landed it.
LEMMA SessionLands ==
  ASSUME IInv, Active, ~Active', UNCHANGED <<mode, sent>>, table' = Whole,
         mode = "append" => table' = table
  PROVE  KeepsContract
<1>1. EndBar = "open" /\ EndBar' \in {"kept", "ended"} /\ KindBar' = KindBar
  BY DEF EndBar, KindBar
<1>2. mode = "full_refresh" => table' = 1 .. sent
  BY DEF Whole
<1>3. mode = "merge" => 1 .. sent \subseteq table' /\ table' \subseteq table \union 1 .. sent
  BY ActiveTable DEF Whole, Transactional
<1>4. mode = "append" => 1 .. sent \subseteq table /\ table' = table
  BY DEF Whole
<1>5. Contract!Landed
  BY <1>2, <1>3, <1>4, KindIs DEF Contract!Landed
<1>6. Contract!Land
  BY <1>1, <1>5 DEF Contract!Land
<1>. QED
  BY <1>6 DEF KeepsContract, Contract!Next

\* A refused statement has had no effect.
LEMMA RefusalGivesUp ==
  ASSUME IInv, Active, NEW facts, Refused(facts) PROVE KeepsContract
<1>1. ~Active' /\ out'.status = "failed" /\ UNCHANGED <<table, mode, sent>>
  BY DEF Refused, Reports, Active
<1>. QED
  BY <1>1, SessionGivesUp

\* The initial states, and the steps, map to the contract's.
LEMMA SessionInit == Init => Contract!Init
<1> SUFFICES ASSUME Init PROVE Contract!Init
  OBVIOUS
<1>1. IInv
  BY InitIInv
<1>2. 1 .. sent = {} /\ EndBar = "open" /\ table = {Old}
  BY DEF Init, EndBar, Active
<1>3. KindBar \in Contract!Kinds
  BY <1>1, KindIs DEF Contract!Kinds
<1>. QED
  BY <1>2, <1>3 DEF Contract!Init

LEMMA SessionStep == ASSUME IInv, [Next]_vars PROVE KeepsContract
<1>0. TypeOK /\ MaxChunks \in Nat
  BY SqlServerAssumption DEF IInv
<1>1. CASE Notice
  <2>1. UNCHANGED <<table, mode, sent, pc, out>>
    BY <1>1 DEF Notice, client
  <2>. QED
    BY <2>1, SessionRests DEF Active
<1>2. CASE NotValid
  BY <1>2, RefusalGivesUp DEF NotValid, Active
<1>3. CASE PrepareAppend
  BY <1>3, SessionRests DEF PrepareAppend, server, Active
<1>4. CASE BeginTran
  <2>1. Active
    BY <1>4 DEF BeginTran, Active
  <2>2. CASE Acknowledged(DoBegin) /\ believes' = TRUE /\ pc' = "preparing"
             /\ UNCHANGED <<prepared, sent>>
    BY <2>1, <2>2, SessionRests DEF Acknowledged, DoBegin, Active
  <2>3. CASE Lost(DoBegin, "not_applicable")
    <3>1. ~Active' /\ out'.status = "failed" /\ UNCHANGED <<table, mode, sent>>
      BY <2>3 DEF Lost, DoBegin, DoNothing, Reports, Active
    <3>. QED
      BY <2>1, <3>1, SessionGivesUp
  <2>. QED
    BY <1>4, <2>1, <2>2, <2>3, RefusalGivesUp DEF BeginTran
<1>5. CASE PrepareTable
  <2> DEFINE effect == IF mode = "full_refresh" THEN DoDelete ELSE DoNothing
  <2>1. Active
    BY <1>5 DEF PrepareTable, Active
  <2>2. effect => UNCHANGED table
    BY DEF DoDelete, DoNothing
  <2>3. \/ Acknowledged(effect) /\ prepared' = TRUE /\ pc' = "open"
             /\ UNCHANGED <<believes, sent>>
        \/ Refused(FailureFacts)
        \/ Lost(effect, FailureFacts)
    BY <1>5 DEF PrepareTable
  <2> HIDE DEF effect
  <2>4. CASE Acknowledged(effect) /\ prepared' = TRUE /\ pc' = "open"
             /\ UNCHANGED <<believes, sent>>
    BY <2>1, <2>2, <2>4, SessionRests DEF Acknowledged, Active
  <2>5. CASE Lost(effect, FailureFacts)
    <3>1. ~Active' /\ out'.status = "failed" /\ UNCHANGED <<table, mode, sent>>
      BY <2>2, <2>5 DEF Lost, DoNothing, Reports, Active
    <3>. QED
      BY <2>1, <3>1, SessionGivesUp
  <2>. QED
    BY <2>1, <2>3, <2>4, <2>5, RefusalGivesUp
<1>6. CASE WriteChunk
  <2>1. Active /\ sent \in Nat /\ sent < MaxChunks
    BY <1>0, <1>6 DEF WriteChunk, Active, TypeOK
  <2>2. mode = "append" => table = {Old} \union 1 .. sent
    BY <2>1, ActiveTable
  <2>3. DoBulk(sent + 1) => table' = IF mode = "append" THEN table \union {sent + 1} ELSE table
    BY KindIs DEF DoBulk
  <2>4. CASE /\ DoBulk(sent + 1)
             /\ sent' = sent + 1
             /\ UNCHANGED <<mode, pc, out>>
    <3>1. EndBar = "open" /\ EndBar' = "open" /\ KindBar' = KindBar
      BY <2>1, <2>4 DEF EndBar, KindBar, Active
    <3>2. 1 .. sent \subseteq 1 .. sent' /\ 1 .. sent' \subseteq {Old} \union Chunks
      BY <1>0, <2>1, <2>4 DEF Chunks
    <3>3. table' = IF KindBar = "adding" THEN table \union 1 .. sent' ELSE table
      <4>1. 1 .. sent' = 1 .. sent \union {sent + 1}
        BY <2>1, <2>4
      <4>. QED
        BY <2>2, <2>3, <2>4, <4>1, KindIs
    <3>4. Contract!Hand
      BY <3>1, <3>2, <3>3 DEF Contract!Hand
    <3>. QED
      BY <3>4 DEF KeepsContract, Contract!Next
  <2>5. CASE Lost(DoBulk(sent + 1), WriteFacts)
    <3>1. ~Active' /\ out'.status = "failed" /\ UNCHANGED <<mode, sent>>
      BY <2>5 DEF Lost, Reports, Active
    <3>2. \/ table' = table
          \/ mode = "append" /\ table' = table \union {sent + 1}
      BY <2>3, <2>5 DEF Lost, DoNothing
    <3>. QED
      BY <2>1, <3>1, <3>2, SessionGivesUp
  <2>. QED
    BY <1>6, <2>1, <2>4, <2>5, RefusalGivesUp DEF WriteChunk
<1>7. CASE AppendDone
  <2>1. /\ Active /\ ~Active' /\ mode = "append" /\ UNCHANGED <<table, mode, sent>>
    BY <1>7, KindIs DEF AppendDone, Reports, Active, Transactional
  <2>2. table' = Whole
    BY <2>1, ActiveTable DEF Whole
  <2>. QED
    BY <2>1, <2>2, SessionLands
<1>8. CASE Merge
  <2>1. Active
    BY <1>8 DEF Merge, Active
  <2>2. CASE Acknowledged(DoMerge) /\ pc' = "merged" /\ UNCHANGED <<prepared, believes, sent>>
    BY <2>1, <2>2, SessionRests DEF Acknowledged, DoMerge, Active
  <2>3. CASE Lost(DoMerge, "atomic")
    <3>1. ~Active' /\ out'.status = "failed" /\ UNCHANGED <<table, mode, sent>>
      BY <2>3 DEF Lost, DoMerge, DoNothing, Reports, Active
    <3>. QED
      BY <2>1, <3>1, SessionGivesUp
  <2>. QED
    BY <1>8, <2>1, <2>2, <2>3, RefusalGivesUp DEF Merge
<1>9. CASE Commit
  <2>1. Active /\ mode \in {"full_refresh", "merge"} /\ working = Whole
    <3>1. CASE pc = "merged"
      <4>1. Active
        BY <3>1 DEF Active
      <4>. QED
        BY <3>1, <4>1, KindIs DEF IInv, ActiveInv, Transactional, Whole
    <3>2. CASE pc = "open" /\ mode = "full_refresh" /\ sent > 0
      <4>1. Active
        BY <3>2 DEF Active
      <4>2. prepared
        BY <3>2, <4>1, KindIs DEF IInv, ActiveInv
      <4>. QED
        BY <3>2, <4>1, <4>2 DEF IInv, ActiveInv, Transactional, Whole
    <3>. QED
      BY <1>9, <3>1, <3>2 DEF Commit, MayCommit
  <2>2. CASE /\ DoCommit
             /\ Reports("succeeded", "atomic")
             /\ conn' = "lost"
             /\ UNCHANGED <<mode, prepared, sent, committed>>
    <3>1. ~Active' /\ table' = Whole /\ UNCHANGED <<mode, sent>>
      BY <2>1, <2>2 DEF DoCommit, Reports, Active
    <3>. QED
      BY <2>1, <3>1, SessionLands
  <2>3. CASE Lost(DoCommit, FailureFacts)
    <3>1. ~Active' /\ out'.status = "failed" /\ UNCHANGED <<mode, sent>>
      BY <2>3 DEF Lost, Reports, Active
    <3>2. table' = Whole \/ table' = table
      BY <2>1, <2>3 DEF Lost, DoCommit, DoNothing
    <3>. QED
      BY <2>1, <3>1, <3>2, SessionLands, SessionGivesUp
  <2>. QED
    BY <1>9, <2>1, <2>2, <2>3, RefusalGivesUp DEF Commit
<1>10. CASE Abandon
  <2>1. Active /\ ~Active' /\ out'.status = "failed" /\ UNCHANGED <<table, mode, sent>>
    BY <1>10 DEF Abandon, Reports, Active
  <2>. QED
    BY <2>1, SessionGivesUp
<1>11. CASE Crash
  <2>1. Active /\ ~Active' /\ out' = Pending /\ UNCHANGED <<table, mode, sent>>
    BY <1>11, ActiveTable DEF Crash, Active
  <2>. QED
    BY <2>1, SessionGivesUp DEF Pending
<1>12. CASE UNCHANGED vars
  BY <1>12, SessionRests DEF vars, server, client, Active
<1>. QED
  BY <1>1, <1>2, <1>3, <1>4, <1>5, <1>6, <1>7, <1>8, <1>9, <1>10, <1>11, <1>12
  DEF Next, Session

(* The session implements the contract of the port, whichever statement    *)
(* fails or loses its answer (session.rs: Writer::write_chunk, commit,     *)
(* abandon, drop).                                                         *)
THEOREM SqlServerImplementsSession == Spec => ImplementsSession
<1>1. IInv /\ [Next]_vars => KeepsContract
  BY SessionStep
<1>. QED
  BY SessionInit, SqlServerInvariant, <1>1, PTL DEF Spec, ImplementsSession, Contract!Spec, KeepsContract
=============================================================================
