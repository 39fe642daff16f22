------------------------- MODULE ParquetDatasetProofs -------------------------
(***************************************************************************)
(* Theorems about ParquetDataset, for any sessions, schemas and load       *)
(* modes, any number of chunks and any number of faults.                   *)
(***************************************************************************)
EXTENDS ParquetDataset, Integers, FiniteSetTheorems, TLAPS

Stands == {"idle", "open", "staged", "removing", "renaming", "over", "dead"}
Parts == [by : Writers, chunk : Nat, schema : Schemas]
Reports == [status : {"pending", "failed", "succeeded"},
            facts : {"none", "not_applicable", "best_effort"}, committed : Nat]

TypeOK ==
  /\ exists \in BOOLEAN
  /\ parts \subseteq Parts
  /\ temps \subseteq Writers
  /\ staging \subseteq Writers
  /\ mode \in [Writers -> Modes]
  /\ plan \in [Writers -> Schemas]
  /\ seen \in [Writers -> Schemas \union {None}]
  /\ wrote \in [Writers -> Nat]
  /\ pc \in [Writers -> Stands]
  /\ out \in [Writers -> Reports]
  /\ touched \subseteq Writers
  /\ broken \in BOOLEAN
  /\ met \in [Writers -> SUBSET Writers]
  /\ faults \in Nat

\* What each stand of a session says of its mode and its progress.
StandInv ==
  \A w \in Writers :
    /\ pc[w] = "staged" => mode[w] = "append" /\ Aligns(w)
    /\ pc[w] \in {"removing", "renaming"} =>
         mode[w] = "full_refresh" /\ wrote[w] > 0
    /\ pc[w] = "idle" => wrote[w] = 0 /\ met[w] = {}

\* Every file has its session: a part counts among what the session wrote, a
\* full refresh shows parts once it succeeded only, and temporary files and
\* staging directories belong to sessions that still use them or died.
FilesInv ==
  /\ \A p \in parts :
       /\ p.chunk < wrote[p.by] /\ p.schema = plan[p.by]
       /\ mode[p.by] = "full_refresh" => out[p.by].status = "succeeded"
  /\ \A w \in temps : pc[w] \in {"staged", "dead"} /\ mode[w] = "append"
  /\ \A w \in staging :
       pc[w] \in {"open", "removing", "renaming", "dead"} /\ mode[w] = "full_refresh"

\* What a session reports against what it did.
ReportInv ==
  \A w \in Writers :
    /\ pc[w] # "over" => out[w] = Pending
    /\ pc[w] = "over" =>
         /\ mode[w] = "append" \/ out[w].status = "succeeded" =>
              out[w].committed = wrote[w]
         /\ out[w].facts = "not_applicable" => w \notin touched
    /\ pc[w] \in {"idle", "open", "staged"} /\ w \in touched =>
         mode[w] = "append" /\ wrote[w] > 0

\* The parts of a full refresh, all of them.
Whole(w) == { [by |-> w, chunk |-> n, schema |-> plan[w]] : n \in 0 .. wrote[w] - 1 }

WholeInv ==
  ~broken /\ (\A v \in Writers : pc[v] # "removing") =>
    \A w \in Writers :
      mode[w] = "full_refresh" => PartsOf(w) \in {{}, Whole(w)}

\* One of two sessions was under way when the other one opened.
Overlap(v, w) == v \in met[w] \/ w \in met[v]

\* Two live sessions overlap, and a live append has seen the schema of every
\* part that is neither its own nor of a session it overlaps.
OverlapInv ==
  /\ \A v, w \in Live : v # w => Overlap(v, w)
  /\ \A w \in Live, p \in parts :
       mode[w] = "append" =>
         p.by = w \/ Overlap(w, p.by) \/ p.schema = seen[w]
  /\ SchemasAgree

\* While full refreshes only overlap and nothing fails, whoever removes the
\* dataset that a success left will put its own there.
StaysInv ==
  (/\ faults = 0 /\ \A w \in Writers : mode[w] = "full_refresh"
   /\ \E w \in Writers : out[w].status = "succeeded") =>
      \/ parts # {}
      \/ \E v \in Writers : pc[v] = "renaming"
      \/ exists /\ \E v \in Writers : pc[v] = "removing"

IInv ==
  /\ TypeOK /\ StandInv /\ FilesInv /\ ReportInv
  /\ WholeInv /\ OverlapInv /\ StaysInv

-----------------------------------------------------------------------------
LEMMA InitIInv == Init => IInv
<1> SUFFICES ASSUME Init PROVE IInv
  OBVIOUS
<1>1. TypeOK
  BY DEF Init, TypeOK, Stands, Reports, Pending
<1>2. StandInv /\ FilesInv /\ ReportInv /\ WholeInv
  BY DEF Init, StandInv, FilesInv, ReportInv, WholeInv, PartsOf, Pending
<1>3. OverlapInv /\ StaysInv
  BY DEF Init, OverlapInv, SchemasAgree, Live, StaysInv, Pending
<1>. QED
  BY <1>1, <1>2, <1>3 DEF IInv

-----------------------------------------------------------------------------
(* Types.                                                                  *)

LEMMA EndsType ==
  ASSUME TypeOK, NEW w \in Writers, NEW status \in {"failed", "succeeded"},
         NEW facts \in {"not_applicable", "best_effort"}, NEW committed \in Nat,
         Ends(w, status, facts, committed)
  PROVE  /\ pc' \in [Writers -> Stands] /\ out' \in [Writers -> Reports]
         /\ staging' \subseteq Writers
  BY DEF Ends, TypeOK, Stands, Reports

LEMMA AppendEndsType ==
  ASSUME TypeOK, NEW w \in Writers, AppendEnds(w)
  PROVE  /\ pc' \in [Writers -> Stands] /\ out' \in [Writers -> Reports]
         /\ staging' \subseteq Writers
<1>1. wrote[w] \in Nat
  BY DEF TypeOK
<1>2. CASE wrote[w] > 0
  BY <1>1, <1>2, EndsType DEF AppendEnds
<1>3. CASE ~(wrote[w] > 0)
  BY <1>1, <1>3, EndsType DEF AppendEnds
<1>. QED
  BY <1>2, <1>3

LEMMA UntouchedType ==
  ASSUME TypeOK, NEW w \in Writers, Untouched(w)
  PROVE  /\ pc' \in [Writers -> Stands] /\ out' \in [Writers -> Reports]
         /\ staging' \subseteq Writers
  BY EndsType DEF Untouched

LEMMA NextTypeOK == TypeOK /\ [Next]_vars => TypeOK'
<1> SUFFICES ASSUME TypeOK, [Next]_vars PROVE TypeOK'
  OBVIOUS
<1> USE DEF dir, session
<1>1. ASSUME NEW w \in Writers, BeginRefresh(w) PROVE TypeOK'
  BY <1>1 DEF BeginRefresh, Opens, TypeOK, Stands, Live
<1>2. ASSUME NEW w \in Writers, BeginAppend(w) PROVE TypeOK'
  BY <1>2 DEF BeginAppend, Opens, TypeOK, Stands, Live
<1>3. ASSUME NEW w \in Writers, BeginFails(w) PROVE TypeOK'
  <2>1. exists' \in BOOLEAN
    BY <1>3, Zenon DEF BeginFails
  <2>2. faults' \in Nat
    BY <1>3 DEF BeginFails, Fault, TypeOK
  <2>. QED
    BY <1>3, <2>1, <2>2, UntouchedType DEF BeginFails, Opens, TypeOK, Live
<1>4. ASSUME NEW w \in Writers, StagePart(w) PROVE TypeOK'
  BY <1>4 DEF StagePart, TypeOK
<1>5. ASSUME NEW w \in Writers, StageFails(w) PROVE TypeOK'
  BY <1>5, UntouchedType DEF StageFails, Fault, TypeOK
<1>6. ASSUME NEW w \in Writers, Misaligned(w) PROVE TypeOK'
  BY <1>6, AppendEndsType DEF Misaligned, TypeOK
<1>7. ASSUME NEW w \in Writers, WriteTemp(w) PROVE TypeOK'
  BY <1>7 DEF WriteTemp, TypeOK, Stands
<1>8. ASSUME NEW w \in Writers, WriteTempFails(w) PROVE TypeOK'
  BY <1>8, AppendEndsType DEF WriteTempFails, Fault, TypeOK
<1>9. ASSUME NEW w \in Writers, CommitPart(w) PROVE TypeOK'
  BY <1>9 DEF CommitPart, TypeOK, Stands, Parts
<1>10. ASSUME NEW w \in Writers, CommitPartFails(w) PROVE TypeOK'
  BY <1>10, EndsType DEF CommitPartFails, Fault, TypeOK
<1>11. ASSUME NEW w \in Writers, AppendDone(w) PROVE TypeOK'
  BY <1>11, EndsType DEF AppendDone, TypeOK
<1>12. ASSUME NEW w \in Writers, Abandon(w) PROVE TypeOK'
  BY <1>12, AppendEndsType, UntouchedType DEF Abandon, TypeOK
<1>13. ASSUME NEW w \in Writers, StartCommit(w) PROVE TypeOK'
  BY <1>13 DEF StartCommit, TypeOK, Stands
<1>14. ASSUME NEW w \in Writers, RemoveEntry(w) PROVE TypeOK'
  BY <1>14 DEF RemoveEntry, TypeOK
<1>15. ASSUME NEW w \in Writers, RemoveDirectory(w) PROVE TypeOK'
  BY <1>15 DEF RemoveDirectory, TypeOK, Stands
<1>16. ASSUME NEW w \in Writers, RemoveFails(w) PROVE TypeOK'
  BY <1>16, EndsType DEF RemoveFails, Fault, TypeOK
<1>17. ASSUME NEW w \in Writers, Rename(w) PROVE TypeOK'
  <2>1. parts' \subseteq Parts
    BY <1>17 DEF Rename, TypeOK, Parts
  <2>. QED
    BY <1>17, <2>1, EndsType DEF Rename, TypeOK
<1>18. ASSUME NEW w \in Writers, RenameFails(w) PROVE TypeOK'
  BY <1>18, EndsType DEF RenameFails, Fault, TypeOK
<1>19. ASSUME NEW w \in Writers, Crash(w) PROVE TypeOK'
  <2>1. broken' \in BOOLEAN
    BY <1>19, Zenon DEF Crash
  <2>. QED
    BY <1>19, <2>1 DEF Crash, Fault, TypeOK, Stands
<1>20. CASE UNCHANGED vars
  BY <1>20 DEF vars, TypeOK
<1>. QED
  BY <1>1, <1>2, <1>3, <1>4, <1>5, <1>6, <1>7, <1>8, <1>9, <1>10, <1>11, <1>12,
     <1>13, <1>14, <1>15, <1>16, <1>17, <1>18, <1>19, <1>20 DEF Next

-----------------------------------------------------------------------------
(* The inductive step.                                                     *)

\* Overlap is for good once a session has met another.
LEMMA OverlapStays ==
  ASSUME TypeOK, StandInv, NEW w \in Writers,
         met' = met \/ Opens(w),
         NEW u \in Writers, NEW v \in Writers, Overlap(u, v)
  PROVE  Overlap(u, v)'
BY DEF Overlap, Opens, TypeOK, StandInv

\* Sessions end and parts vanish: what is left still overlaps.
LEMMA OverlapKeeps ==
  ASSUME IInv, NEW w \in Writers, met' = met \/ Opens(w),
         Live' \subseteq Live, parts' \subseteq parts, UNCHANGED <<mode, seen>>
  PROVE  OverlapInv'
<1>1. /\ TypeOK /\ Live \subseteq Writers
      /\ \A p \in parts : p.by \in Writers
  BY DEF IInv, TypeOK, Parts, Live
<1>2. \A u, v \in Writers : Overlap(u, v) => Overlap(u, v)'
  BY <1>1, OverlapStays DEF IInv
<1>3. \A p, q \in parts : p.schema # q.schema => Overlap(p.by, q.by)
  BY DEF IInv, OverlapInv, SchemasAgree, Overlap
<1>4. SchemasAgree'
  <2>1. \A p, q \in parts : p.schema # q.schema => Overlap(p.by, q.by)'
    BY <1>1, <1>2, <1>3
  <2>. QED
    BY <2>1 DEF SchemasAgree, Overlap
<1>5. \A u, v \in Live' : u # v => Overlap(u, v)'
  BY <1>1, <1>2 DEF IInv, OverlapInv
<1>6. \A u \in Live', p \in parts' :
        mode'[u] = "append" =>
          p.by = u \/ Overlap(u, p.by)' \/ p.schema = seen'[u]
  BY <1>1, <1>2 DEF IInv, OverlapInv
<1>. QED
  BY <1>4, <1>5, <1>6 DEF OverlapInv

\* A session reports, and no other session sees it in the dataset.
LEMMA EndsKeeps ==
  ASSUME IInv, TypeOK', NEW w \in Writers, pc[w] # "over",
         NEW status, NEW facts, NEW committed,
         Ends(w, status, facts, committed),
         UNCHANGED <<parts, mode, plan, seen, wrote, touched>>,
         temps' = temps \ {w}, exists => exists', faults' >= faults,
         met' = met \/ Opens(w),
         broken' = broken \/ broken' = TRUE,
         pc[w] = "removing" => broken',
         mode[w] = "append" \/ status = "succeeded" => committed = wrote[w],
         status = "succeeded" => mode[w] = "append",
         facts = "not_applicable" => w \notin touched,
         \/ pc[w] \notin {"removing", "renaming"}
         \/ pc[w] = "removing" /\ ~exists
         \/ parts # {} \/ faults' # 0 \/ \E v \in Writers : mode[v] = "append"
  PROVE  IInv'
<1>1. /\ pc' = [pc EXCEPT ![w] = "over"]
      /\ out' = [out EXCEPT ![w] = [status |-> status, facts |-> facts,
                                    committed |-> committed]]
      /\ staging' = staging \ {w}
  BY DEF Ends
<1>2. TypeOK
  BY DEF IInv
<1>3. StandInv'
  BY <1>1, <1>2 DEF IInv, StandInv, TypeOK, Aligns, Opens
<1>4. FilesInv'
  BY <1>1, <1>2 DEF IInv, FilesInv, TypeOK, Parts, ReportInv, Pending
<1>5. ReportInv'
  BY <1>1, <1>2 DEF IInv, ReportInv, TypeOK
<1>6. WholeInv'
  BY <1>1, <1>2 DEF IInv, WholeInv, TypeOK, Whole, PartsOf
<1>7. OverlapInv'
  BY <1>1, <1>2, OverlapKeeps DEF IInv, TypeOK, Live
<1>8. StaysInv'
  BY <1>1, <1>2 DEF IInv, StaysInv, TypeOK
<1>. QED
  BY <1>3, <1>4, <1>5, <1>6, <1>7, <1>8 DEF IInv

\* A session opens: every session under way has been met.
LEMMA OpensKeeps ==
  ASSUME IInv, TypeOK', NEW w \in Writers, BeginRefresh(w) \/ BeginAppend(w)
  PROVE  IInv'
<1>1. /\ pc[w] = "idle" /\ pc' = [pc EXCEPT ![w] = "open"]
      /\ met' = [met EXCEPT ![w] = Live] /\ Opens(w)
      /\ UNCHANGED <<parts, temps, mode, plan, wrote, out, touched, broken, faults>>
      /\ staging' \subseteq staging \union {w}
      /\ (w \in staging' => mode[w] = "full_refresh" \/ w \in staging) /\ (exists => exists')
  BY DEF BeginRefresh, BeginAppend, Opens, dir, session
<1>2. TypeOK
  BY DEF IInv
<1>3. \A u \in Writers : u # w => seen'[u] = seen[u]
  BY <1>2 DEF BeginRefresh, BeginAppend, session, TypeOK
<1>4. StandInv' /\ FilesInv' /\ ReportInv' /\ WholeInv' /\ StaysInv'
  <2>1. StandInv'
    BY <1>1, <1>2, <1>3 DEF IInv, StandInv, TypeOK, Aligns
  <2>2. FilesInv'
    BY <1>1, <1>2 DEF IInv, FilesInv, TypeOK
  <2>3. ReportInv'
    BY <1>1, <1>2 DEF IInv, ReportInv, TypeOK
  <2>4. WholeInv'
    BY <1>1, <1>2 DEF IInv, WholeInv, Whole, PartsOf, TypeOK
  <2>5. StaysInv'
    BY <1>1, <1>2 DEF IInv, StaysInv, TypeOK
  <2>. QED
    BY <2>1, <2>2, <2>3, <2>4, <2>5
<1>5. OverlapInv'
  <2>1. /\ Live' = Live \union {w} /\ w \notin Live
        /\ \A u \in Live : Overlap(u, w)' /\ Overlap(w, u)'
    BY <1>1, <1>2 DEF TypeOK, Live, Overlap
  <2>2. \A u, v \in Writers : Overlap(u, v) => Overlap(u, v)'
    BY <1>1, <1>2, OverlapStays DEF IInv
  <2>3. \A p \in parts : p.by \in Writers
    BY <1>2 DEF TypeOK, Parts
  <2>4. SchemasAgree'
    <3>1. \A p, q \in parts : p.schema # q.schema => Overlap(p.by, q.by)
      BY DEF IInv, OverlapInv, SchemasAgree, Overlap
    <3>2. \A p, q \in parts : p.schema # q.schema => Overlap(p.by, q.by)'
      BY <2>2, <2>3, <3>1
    <3>. QED
      BY <1>1, <3>2 DEF SchemasAgree, Overlap
  <2>5. \A u, v \in Live' : u # v => Overlap(u, v)'
    BY <2>1, <2>2 DEF IInv, OverlapInv, Live
  <2>6. mode[w] = "append" => \A p \in parts : p.schema = seen'[w]
    BY <1>1, <1>2 DEF BeginAppend, BeginRefresh, ExistingSchema, TypeOK
  <2>7. ASSUME NEW u \in Live', NEW p \in parts', mode'[u] = "append"
        PROVE  p.by = u \/ Overlap(u, p.by)' \/ p.schema = seen'[u]
    <3>1. CASE u = w
      BY <1>1, <2>6, <2>7, <3>1
    <3>2. CASE u # w
      <4>1. u \in Live /\ u \in Writers /\ seen'[u] = seen[u]
        BY <1>2, <1>3, <2>1, <3>2 DEF Live, TypeOK
      <4>. QED
        BY <1>1, <2>2, <2>3, <2>7, <4>1 DEF IInv, OverlapInv
    <3>. QED
      BY <3>1, <3>2
  <2>. QED
    BY <2>4, <2>5, <2>7 DEF OverlapInv
<1>. QED
  BY <1>4, <1>5 DEF IInv

\* An append's rename: its part agrees with every part of a session that it
\* does not overlap.
LEMMA CommitPartKeeps ==
  ASSUME IInv, TypeOK', NEW w \in Writers, CommitPart(w)
  PROVE  IInv'
<1> DEFINE new == [by |-> w, chunk |-> wrote[w], schema |-> plan[w]]
<1>1. /\ pc[w] = "staged" /\ pc' = [pc EXCEPT ![w] = "open"]
      /\ temps' = temps \ {w} /\ parts' = parts \union {new}
      /\ wrote' = [wrote EXCEPT ![w] = @ + 1] /\ touched' = touched \union {w}
      /\ UNCHANGED <<exists, staging, mode, plan, seen, out, broken, met, faults>>
  BY DEF CommitPart
<1>2. TypeOK /\ mode[w] = "append" /\ seen[w] \in {None, plan[w]}
  BY <1>1 DEF IInv, StandInv, Aligns
<1>3. StandInv' /\ FilesInv' /\ ReportInv'
  <2>1. StandInv'
    BY <1>1, <1>2 DEF IInv, StandInv, TypeOK, Aligns
  <2>2. FilesInv'
    BY <1>1, <1>2 DEF IInv, FilesInv, TypeOK, Parts
  <2>3. ReportInv'
    BY <1>1, <1>2 DEF IInv, ReportInv, TypeOK
  <2>. QED
    BY <2>1, <2>2, <2>3
<1>4. WholeInv'
  <2>1. \A u \in Writers : u # w => PartsOf(u)' = PartsOf(u) /\ Whole(u)' = Whole(u)
    BY <1>1, <1>2 DEF PartsOf, Whole, TypeOK
  <2>. QED
    BY <1>1, <1>2, <2>1 DEF IInv, WholeInv, TypeOK
<1>5. StaysInv'
  BY <1>1, <1>2 DEF IInv, StaysInv, TypeOK
<1>6. OverlapInv'
  <2>1. /\ Live' = Live /\ w \in Live /\ Live \subseteq Writers
        /\ \A u, v : Overlap(u, v)' = Overlap(u, v)
        /\ \A u, v : Overlap(u, v) = Overlap(v, u)
    BY <1>1, <1>2 DEF Live, TypeOK, Overlap
  <2>2. \A p, q \in parts : p.schema # q.schema => Overlap(p.by, q.by)
    BY DEF IInv, OverlapInv, SchemasAgree, Overlap
  <2>3. ASSUME NEW p \in parts, p.schema # plan[w] PROVE Overlap(w, p.by)
    <3>1. p.by = w \/ Overlap(w, p.by) \/ p.schema = seen[w]
      BY <1>2, <2>1 DEF IInv, OverlapInv
    <3>2. p.schema \in Schemas /\ (p.by = w => p.schema = plan[w])
      BY <1>2 DEF TypeOK, Parts, IInv, FilesInv
    <3>. QED
      BY <1>2, <2>3, <3>1, <3>2, ParquetAssumption
  <2>4. SchemasAgree'
    <3>1. \A p, q \in parts' : p.schema # q.schema => Overlap(p.by, q.by)
      BY <1>1, <2>1, <2>2, <2>3
    <3>. QED
      BY <1>1, <3>1 DEF SchemasAgree, Overlap
  <2>5. \A u, v \in Live' : u # v => Overlap(u, v)'
    BY <2>1 DEF IInv, OverlapInv
  <2>6. ASSUME NEW u \in Live', NEW p \in parts', mode'[u] = "append"
        PROVE  p.by = u \/ Overlap(u, p.by)' \/ p.schema = seen'[u]
    <3>1. CASE p \in parts
      BY <1>1, <2>1, <2>6, <3>1 DEF IInv, OverlapInv
    <3>2. CASE p = new
      BY <2>1, <2>5, <3>2
    <3>. QED
      BY <1>1, <3>1, <3>2
  <2>. QED
    BY <2>4, <2>5, <2>6 DEF OverlapInv
<1>. QED
  BY <1>3, <1>4, <1>5, <1>6 DEF IInv

\* A refresh's rename: its parts, all of them, are the dataset.
LEMMA RenameKeeps ==
  ASSUME IInv, TypeOK', NEW w \in Writers, Rename(w)
  PROVE  IInv'
<1>1. /\ pc[w] = "renaming" /\ pc' = [pc EXCEPT ![w] = "over"]
      /\ out' = [out EXCEPT ![w] = [status |-> "succeeded", facts |-> "best_effort",
                                    committed |-> wrote[w]]]
      /\ staging' = staging \ {w} /\ parts' = Whole(w) /\ exists'
      /\ touched' = touched \union {w}
      /\ UNCHANGED <<temps, mode, plan, seen, wrote, broken, met, faults>>
  BY DEF Rename, Ends, Whole, session
<1>2. TypeOK /\ mode[w] = "full_refresh" /\ wrote[w] > 0
  BY <1>1 DEF IInv, StandInv
<1>3. /\ \A p \in parts' : p.by = w /\ p.chunk < wrote[w] /\ p.schema = plan[w]
      /\ parts' # {}
  <2>1. wrote[w] \in Nat /\ 0 \in 0 .. wrote[w] - 1
    BY <1>2 DEF TypeOK
  <2>2. \A n \in 0 .. wrote[w] - 1 : n < wrote[w]
    BY <2>1
  <2>3. [by |-> w, chunk |-> 0, schema |-> plan[w]] \in Whole(w)
    BY <2>1 DEF Whole
  <2>4. \A p \in Whole(w) : p.by = w /\ p.chunk < wrote[w] /\ p.schema = plan[w]
    BY <2>2 DEF Whole
  <2>. QED
    BY <1>1, <2>3, <2>4
<1>4. StandInv' /\ FilesInv' /\ ReportInv'
  <2>1. StandInv'
    BY <1>1, <1>2 DEF IInv, StandInv, TypeOK, Aligns
  <2>2. FilesInv'
    BY <1>1, <1>2, <1>3 DEF IInv, FilesInv, TypeOK
  <2>3. ReportInv'
    BY <1>1, <1>2 DEF IInv, ReportInv, TypeOK
  <2>. QED
    BY <2>1, <2>2, <2>3
<1>5. WholeInv'
  <2>1. Whole(w)' = Whole(w) /\ PartsOf(w)' = Whole(w)
    BY <1>1, <1>3 DEF Whole, PartsOf
  <2>2. \A u \in Writers : u # w => PartsOf(u)' = {}
    BY <1>3 DEF PartsOf
  <2>. QED
    BY <2>1, <2>2 DEF WholeInv
<1>6. OverlapInv'
  <2>1. Live' \subseteq Live /\ w \in Live /\ w \notin Live' /\ \A u, v : Overlap(u, v)' = Overlap(u, v)
    BY <1>1, <1>2 DEF Live, TypeOK, Overlap
  <2>2. SchemasAgree'
    BY <1>3 DEF SchemasAgree
  <2>3. \A u, v \in Live' : u # v => Overlap(u, v)'
    BY <2>1 DEF IInv, OverlapInv
  <2>4. \A u \in Live', p \in parts' : Overlap(u, p.by)'
    BY <1>3, <2>1 DEF IInv, OverlapInv
  <2>. QED
    BY <2>2, <2>3, <2>4 DEF OverlapInv
<1>7. StaysInv'
  BY <1>3 DEF StaysInv
<1>. QED
  BY <1>4, <1>5, <1>6, <1>7 DEF IInv

LEMMA NextIInv == IInv /\ [Next]_vars => IInv'
<1> SUFFICES ASSUME IInv, [Next]_vars PROVE IInv'
  OBVIOUS
<1>0. TypeOK /\ TypeOK'
  BY NextTypeOK DEF IInv
<1> USE <1>0 DEF dir, session
<1>a. \A w \in Writers : w \notin temps \/ pc[w] \in {"staged", "dead"}
  BY DEF IInv, FilesInv
<1>b. \A w \in Writers : temps = temps \ {w} \/ pc[w] \in {"staged", "dead"}
  BY <1>a
<1>1. ASSUME NEW w \in Writers, BeginRefresh(w) PROVE IInv'
  BY <1>1, OpensKeeps
<1>2. ASSUME NEW w \in Writers, BeginAppend(w) PROVE IInv'
  BY <1>2, OpensKeeps
<1>3. ASSUME NEW w \in Writers, BeginFails(w) PROVE IInv'
  <2>1. /\ Opens(w) /\ Ends(w, "failed", "not_applicable", 0)
        /\ UNCHANGED <<parts, temps, mode, plan, seen, wrote, touched, broken>>
        /\ exists => exists'
    BY <1>3 DEF BeginFails, Untouched
  <2>2. faults' >= faults
    BY <1>3 DEF BeginFails, Fault, TypeOK
  <2>3. pc[w] = "idle" /\ wrote[w] = 0 /\ w \notin touched
    BY <2>1 DEF Opens, IInv, StandInv, ReportInv
  <2>. QED
    BY <1>b, <2>1, <2>2, <2>3, EndsKeeps
<1>4. ASSUME NEW w \in Writers, StagePart(w) PROVE IInv'
  <2>1. /\ pc[w] = "open" /\ mode[w] = "full_refresh"
        /\ wrote' = [wrote EXCEPT ![w] = @ + 1]
        /\ UNCHANGED <<exists, parts, temps, staging, mode, plan, seen, pc, out,
                       touched, broken, met, faults>>
    BY <1>4 DEF StagePart
  <2>2. \A p \in parts : p.by # w
    BY <2>1 DEF IInv, FilesInv, ReportInv, Pending
  <2>3. StandInv' /\ FilesInv' /\ ReportInv'
    <3>1. StandInv'
      BY <2>1 DEF IInv, StandInv, TypeOK, Aligns
    <3>2. FilesInv'
      BY <2>1, <2>2 DEF IInv, FilesInv, TypeOK, Parts
    <3>3. ReportInv'
      BY <2>1 DEF IInv, ReportInv, TypeOK
    <3>. QED
      BY <3>1, <3>2, <3>3
  <2>4. WholeInv'
    <3>1. PartsOf(w)' = {}
      BY <2>1, <2>2 DEF PartsOf
    <3>2. \A u \in Writers : u # w => PartsOf(u)' = PartsOf(u) /\ Whole(u)' = Whole(u)
      BY <2>1 DEF PartsOf, Whole, TypeOK
    <3>. QED
      BY <2>1, <3>1, <3>2 DEF IInv, WholeInv
  <2>5. OverlapInv'
    BY <2>1, OverlapKeeps DEF Live
  <2>6. StaysInv'
    BY <2>1 DEF IInv, StaysInv
  <2>. QED
    BY <2>3, <2>4, <2>5, <2>6 DEF IInv
<1>5. ASSUME NEW w \in Writers, StageFails(w) PROVE IInv'
  <2>1. /\ pc[w] = "open" /\ mode[w] = "full_refresh" /\ faults' >= faults
        /\ Ends(w, "failed", "not_applicable", 0)
        /\ UNCHANGED <<exists, parts, temps, mode, plan, seen, wrote, touched, broken, met>>
    BY <1>5 DEF StageFails, Untouched, Fault, TypeOK
  <2>2. w \notin touched
    BY <2>1 DEF IInv, ReportInv
  <2>. QED
    BY <1>b, <2>1, <2>2, EndsKeeps
\* An append that gives up between two chunks.
<1>c. ASSUME NEW w \in Writers, pc[w] = "open", mode[w] = "append", AppendEnds(w),
             UNCHANGED <<exists, parts, temps, mode, plan, seen, wrote, touched,
                         broken, met>>, faults' >= faults
      PROVE  IInv'
  <2>1. wrote[w] > 0 \/ w \notin touched
    BY <1>c DEF IInv, ReportInv
  <2>2. CASE wrote[w] > 0
    BY <1>b, <1>c, <2>2, EndsKeeps DEF AppendEnds
  <2>3. CASE ~(wrote[w] > 0)
    BY <1>b, <1>c, <2>1, <2>3, EndsKeeps DEF AppendEnds
  <2>. QED
    BY <2>2, <2>3
<1>6. ASSUME NEW w \in Writers, Misaligned(w) PROVE IInv'
  BY <1>6, <1>c DEF Misaligned, TypeOK
<1>7. ASSUME NEW w \in Writers, WriteTemp(w) PROVE IInv'
  <2>1. /\ pc[w] = "open" /\ mode[w] = "append" /\ Aligns(w)
        /\ temps' = temps \union {w} /\ pc' = [pc EXCEPT ![w] = "staged"]
        /\ UNCHANGED <<exists, parts, staging, mode, plan, seen, wrote, out,
                       touched, broken, met, faults>>
    BY <1>7 DEF WriteTemp
  <2>2. w \notin staging
    BY <2>1 DEF IInv, FilesInv
  <2>3. StandInv'
    BY <2>1 DEF IInv, StandInv, TypeOK, Aligns
  <2>4. FilesInv'
    BY <2>1, <2>2 DEF IInv, FilesInv, TypeOK
  <2>5. ReportInv' /\ WholeInv'
    BY <2>1 DEF IInv, ReportInv, WholeInv, PartsOf, Whole, TypeOK
  <2>6. OverlapInv'
    BY <2>1, OverlapKeeps DEF Live, TypeOK
  <2>7. StaysInv'
    BY <2>1 DEF IInv, StaysInv, TypeOK
  <2>. QED
    BY <2>3, <2>4, <2>5, <2>6, <2>7 DEF IInv
<1>8. ASSUME NEW w \in Writers, WriteTempFails(w) PROVE IInv'
  BY <1>8, <1>c DEF WriteTempFails, Fault, TypeOK
<1>9. ASSUME NEW w \in Writers, CommitPart(w) PROVE IInv'
  BY <1>9, CommitPartKeeps
<1>10. ASSUME NEW w \in Writers, CommitPartFails(w) PROVE IInv'
  <2>1. /\ pc[w] = "staged" /\ faults' >= faults /\ temps' = temps \ {w}
        /\ Ends(w, "failed", "best_effort", wrote[w])
        /\ UNCHANGED <<exists, parts, mode, plan, seen, wrote, touched, broken, met>>
    BY <1>10 DEF CommitPartFails, Fault, TypeOK
  <2>. QED
    BY <2>1, EndsKeeps
<1>11. ASSUME NEW w \in Writers, AppendDone(w) PROVE IInv'
  <2>1. /\ pc[w] = "open" /\ mode[w] = "append" /\ faults' >= faults
        /\ Ends(w, "succeeded", "best_effort", wrote[w])
        /\ UNCHANGED <<exists, parts, temps, mode, plan, seen, wrote, touched, broken, met>>
    BY <1>11 DEF AppendDone, TypeOK
  <2>. QED
    BY <1>b, <2>1, EndsKeeps
<1>12. ASSUME NEW w \in Writers, Abandon(w) PROVE IInv'
  <2>1. /\ pc[w] = "open" /\ faults' >= faults
        /\ UNCHANGED <<exists, parts, temps, mode, plan, seen, wrote, touched, broken, met>>
    BY <1>12 DEF Abandon, TypeOK
  <2>2. CASE mode[w] = "append"
    BY <1>12, <1>c, <2>1, <2>2 DEF Abandon
  <2>3. CASE mode[w] # "append"
    <3>1. w \notin touched
      BY <2>1, <2>3 DEF IInv, ReportInv
    <3>. QED
      BY <1>12, <1>b, <2>1, <2>3, <3>1, EndsKeeps DEF Abandon, Untouched
  <2>. QED
    BY <2>2, <2>3
<1>13. ASSUME NEW w \in Writers, StartCommit(w) PROVE IInv'
  <2>1. /\ pc[w] = "open" /\ mode[w] = "full_refresh" /\ wrote[w] > 0
        /\ pc' = [pc EXCEPT ![w] = IF exists THEN "removing" ELSE "renaming"]
        /\ UNCHANGED <<exists, parts, temps, staging, mode, plan, seen, wrote, out,
                       touched, broken, met, faults>>
    BY <1>13 DEF StartCommit
  <2>2. StandInv' /\ FilesInv'
    BY <2>1 DEF IInv, StandInv, FilesInv, TypeOK, Aligns
  <2>3. ReportInv' /\ WholeInv'
    BY <2>1 DEF IInv, ReportInv, WholeInv, PartsOf, Whole, TypeOK
  <2>4. OverlapInv'
    BY <2>1, OverlapKeeps DEF Live, TypeOK
  <2>5. StaysInv'
    BY <2>1 DEF IInv, StaysInv, TypeOK
  <2>. QED
    BY <2>2, <2>3, <2>4, <2>5 DEF IInv
<1>14. ASSUME NEW w \in Writers, RemoveEntry(w) PROVE IInv'
  <2>1. /\ pc[w] = "removing" /\ exists /\ mode[w] = "full_refresh"
        /\ parts' \subseteq parts /\ temps' \subseteq temps
        /\ touched' = touched \union {w}
        /\ UNCHANGED <<exists, staging, mode, plan, seen, wrote, pc, out, broken,
                       met, faults>>
    BY <1>14 DEF RemoveEntry, IInv, StandInv
  <2>2. StandInv' /\ FilesInv' /\ ReportInv'
    BY <2>1 DEF IInv, StandInv, FilesInv, ReportInv, TypeOK, Aligns
  <2>3. WholeInv' /\ StaysInv'
    BY <2>1 DEF WholeInv, StaysInv
  <2>4. OverlapInv'
    BY <2>1, OverlapKeeps DEF Live
  <2>. QED
    BY <2>2, <2>3, <2>4 DEF IInv
<1>15. ASSUME NEW w \in Writers, RemoveDirectory(w) PROVE IInv'
  <2>1. /\ pc[w] = "removing" /\ mode[w] = "full_refresh" /\ parts = {}
        /\ pc' = [pc EXCEPT ![w] = "renaming"] /\ touched' = touched \union {w}
        /\ UNCHANGED <<parts, temps, staging, mode, plan, seen, wrote, out, broken,
                       met, faults>>
    BY <1>15 DEF RemoveDirectory, Empty, IInv, StandInv
  <2>2. StandInv' /\ FilesInv' /\ ReportInv'
    BY <2>1 DEF IInv, StandInv, FilesInv, ReportInv, TypeOK, Aligns
  <2>3. WholeInv'
    BY <2>1 DEF WholeInv, PartsOf
  <2>4. StaysInv'
    BY <2>1 DEF StaysInv, TypeOK
  <2>5. OverlapInv'
    BY <2>1, OverlapKeeps DEF Live, TypeOK
  <2>. QED
    BY <2>2, <2>3, <2>4, <2>5 DEF IInv
<1>16. ASSUME NEW w \in Writers, RemoveFails(w) PROVE IInv'
  <2>1. /\ pc[w] = "removing" /\ faults' >= faults /\ mode[w] = "full_refresh"
        /\ Ends(w, "failed", "best_effort", 0) /\ broken'
        /\ UNCHANGED <<exists, parts, temps, mode, plan, seen, wrote, touched, met>>
    BY <1>16 DEF RemoveFails, Fault, TypeOK, IInv, StandInv
  <2>2. ~exists \/ faults' # 0 \/ \E v \in Writers : mode[v] = "append"
    BY <1>16 DEF RemoveFails, Fault, TypeOK, Live
  <2>3. broken' = TRUE
    BY <1>16 DEF RemoveFails
  <2>. QED
    BY <1>b, <2>1, <2>2, <2>3, EndsKeeps
<1>17. ASSUME NEW w \in Writers, Rename(w) PROVE IInv'
  BY <1>17, RenameKeeps
<1>18. ASSUME NEW w \in Writers, RenameFails(w) PROVE IInv'
  <2>1. /\ pc[w] = "renaming" /\ faults' >= faults /\ mode[w] = "full_refresh"
        /\ Ends(w, "failed", "best_effort", 0)
        /\ UNCHANGED <<exists, parts, temps, mode, plan, seen, wrote, touched, broken, met>>
    BY <1>18 DEF RenameFails, Fault, TypeOK, IInv, StandInv
  <2>2. parts # {} \/ faults' # 0 \/ \E v \in Writers : mode[v] = "append"
    <3>1. ~Empty \/ faults' # 0
      BY <1>18 DEF RenameFails, Fault, TypeOK
    <3>. QED
      BY <3>1 DEF Empty, IInv, FilesInv, TypeOK
  <2>. QED
    BY <1>b, <2>1, <2>2, EndsKeeps
<1>19. ASSUME NEW w \in Writers, Crash(w) PROVE IInv'
  <2>1. /\ pc[w] \notin {"idle", "over", "dead"} /\ faults' # 0
        /\ pc' = [pc EXCEPT ![w] = "dead"]
        /\ broken \/ pc[w] = "removing" => broken'
        /\ UNCHANGED <<exists, parts, temps, staging, mode, plan, seen, wrote, out,
                       touched, met>>
    <3>1. broken \/ pc[w] = "removing" => broken'
      BY <1>19, Zenon DEF Crash
    <3>. QED
      BY <1>19, <3>1 DEF Crash, Live, Fault, TypeOK
  <2>2. StandInv' /\ FilesInv' /\ ReportInv'
    BY <2>1 DEF IInv, StandInv, FilesInv, ReportInv, TypeOK, Aligns
  <2>3. WholeInv'
    BY <2>1 DEF IInv, WholeInv, PartsOf, Whole, TypeOK
  <2>4. StaysInv'
    BY <2>1 DEF StaysInv
  <2>5. OverlapInv'
    BY <2>1, OverlapKeeps DEF Live, TypeOK
  <2>. QED
    BY <2>2, <2>3, <2>4, <2>5 DEF IInv
<1>20. CASE UNCHANGED vars
  <2>1. UNCHANGED <<exists, parts, temps, staging, mode, plan, seen, wrote, pc, out,
                    touched, broken, met, faults>>
    BY <1>20 DEF vars
  <2>2. StandInv' /\ FilesInv' /\ ReportInv'
    BY <2>1 DEF IInv, StandInv, FilesInv, ReportInv, Aligns
  <2>3. WholeInv' /\ StaysInv'
    BY <2>1 DEF IInv, WholeInv, PartsOf, Whole, StaysInv
  <2>4. OverlapInv'
    BY <2>1 DEF IInv, OverlapInv, SchemasAgree, Overlap, Live
  <2>. QED
    BY <2>2, <2>3, <2>4 DEF IInv
<1>. QED
  BY <1>1, <1>2, <1>3, <1>4, <1>5, <1>6, <1>7, <1>8, <1>9, <1>10, <1>11, <1>12,
     <1>13, <1>14, <1>15, <1>16, <1>17, <1>18, <1>19, <1>20 DEF Next

-----------------------------------------------------------------------------
(* The theorems.                                                           *)

\* A refresh that wrote so many chunks has so many parts.
LEMMA WholeCardinality ==
  ASSUME TypeOK, NEW w \in Writers
  PROVE  Cardinality(Whole(w)) = wrote[w]
<1> DEFINE I == 0 .. wrote[w] - 1
           f == [n \in I |-> [by |-> w, chunk |-> n, schema |-> plan[w]]]
<1>1. wrote[w] \in Nat
  BY DEF TypeOK
<1>2. IsFiniteSet(I) /\ Cardinality(I) = wrote[w]
  <2>1. IsFiniteSet(I) /\ Cardinality(I) = IF 0 > wrote[w] - 1 THEN 0
                                           ELSE (wrote[w] - 1) - 0 + 1
    BY <1>1, FS_Interval, SMTT(30)
  <2>. QED
    BY <1>1, <2>1
<1>3. f \in Injection(I, Whole(w))
  BY DEF Whole, Injection, IsInjective
<1>4. f \in Surjection(I, Whole(w))
  BY DEF Whole, Surjection
<1>5. ExistsBijection(I, Whole(w))
  BY <1>3, <1>4 DEF ExistsBijection, Bijection
<1> HIDE DEF I
<1>. QED
  BY <1>2, <1>5, FS_Bijection

\* The inductive invariant: what the files, the reports and the overlaps of the
\* sessions have to do with each other.
THEOREM ParquetInvariant == Spec => []IInv
<1>. QED
  BY InitIInv, NextIInv, PTL DEF Spec

\* Every variable keeps its type.
THEOREM ParquetTypeOK == Spec => []TypeOK
<1>1. IInv => TypeOK
  BY DEF IInv
<1>. QED
  BY <1>1, ParquetInvariant, PTL

\* A report of not_applicable has left what readers see alone, and no part of an
\* append is visible that its report does not count, whatever overlaps.
THEOREM ParquetFactsHonest == Spec => []FactsHonest
<1>1. IInv => FactsHonest
  <2> SUFFICES ASSUME IInv, NEW w \in Writers, pc[w] = "over"
               PROVE  /\ out[w].facts = "not_applicable" => w \notin touched
                      /\ \A p \in PartsOf(w) : p.chunk < out[w].committed
    BY DEF FactsHonest
  <2>1. out[w].facts = "not_applicable" => w \notin touched
    BY DEF IInv, ReportInv
  <2>2. ASSUME NEW p \in PartsOf(w) PROVE p.chunk < out[w].committed
    <3>1. p \in parts /\ p.by = w /\ p.chunk < wrote[w]
      BY DEF PartsOf, IInv, FilesInv
    <3>2. mode[w] = "append" \/ out[w].status = "succeeded"
      BY <3>1, ParquetAssumption DEF IInv, FilesInv, TypeOK
    <3>. QED
      BY <3>1, <3>2 DEF IInv, ReportInv
  <2>. QED
    BY <2>1, <2>2
<1>. QED
  BY <1>1, ParquetInvariant, PTL

\* A full refresh is visible whole or not at all, whatever sessions overlap,
\* unless its removal is under way or stopped part-way.
THEOREM ParquetRefreshWhole == Spec => []RefreshWhole
<1>1. IInv => RefreshWhole
  <2> SUFFICES ASSUME IInv, ~broken, \A v \in Writers : pc[v] # "removing",
                      NEW w \in Writers, mode[w] = "full_refresh", PartsOf(w) # {}
               PROVE  out[w].status = "succeeded" /\ Cardinality(PartsOf(w)) = wrote[w]
    BY DEF RefreshWhole
  <2>1. PartsOf(w) = Whole(w)
    BY DEF IInv, WholeInv
  <2>2. out[w].status = "succeeded"
    BY DEF IInv, FilesInv, PartsOf
  <2>. QED
    BY <2>1, <2>2, WholeCardinality DEF IInv
<1>. QED
  BY <1>1, ParquetInvariant, PTL

\* A session that reported leaves neither a staging directory nor a temporary
\* file behind.
THEOREM ParquetNothingLeftBehind == Spec => []NothingLeftBehind
<1>1. IInv => NothingLeftBehind
  BY DEF IInv, FilesInv, NothingLeftBehind
<1>. QED
  BY <1>1, ParquetInvariant, PTL

\* While only full refreshes run and no file operation fails, a success is never
\* followed by an absent or empty dataset.
THEOREM ParquetSuccessStays == Spec => []SuccessStays
<1>1. IInv => SuccessStays
  BY DEF IInv, StaysInv, SuccessStays, Live
<1>. QED
  BY <1>1, ParquetInvariant, PTL

\* Two parts of different schemas come from sessions that overlapped.
THEOREM ParquetSchemasAgree == Spec => []SchemasAgree
<1>1. IInv => SchemasAgree
  BY DEF IInv, OverlapInv
<1>. QED
  BY <1>1, ParquetInvariant, PTL
=============================================================================
