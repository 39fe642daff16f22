--------------------------- MODULE ParquetDataset ---------------------------
(***************************************************************************)
(* The Parquet destination: a directory of part files that the sessions of *)
(* several loads write, some replacing it (ParquetFullRefreshWriter), some *)
(* adding parts (ParquetAppendWriter).  A part becomes visible by a rename *)
(* only; replacing the directory is not atomic: the old entries are        *)
(* removed one by one, then the staging directory is renamed.              *)
(***************************************************************************)
EXTENDS Naturals, FiniteSets

CONSTANTS
  Writers,     \* sessions, one per load
  Schemas,     \* what a chunk may be made of
  None,        \* a dataset without parts has no schema
  Modes,       \* the load modes in use
  MaxChunks,   \* bound: chunks of a load
  MaxFaults    \* bound: file operations that fail, and processes that die

ASSUME ParquetAssumption ==
  /\ Modes \subseteq {"full_refresh", "append"}
  /\ None \notin Schemas
  /\ {MaxChunks, MaxFaults} \subseteq Nat

VARIABLES
  exists,    \* the dataset directory is there
  parts,     \* its part-*.parquet files: writer, chunk and schema
  temps,     \* writers with a .part-*.tmp file in it
  staging,   \* writers with a staging directory beside it
  mode,      \* of each session
  plan,      \* the schema of a session's chunks
  seen,      \* ParquetAppendWriter.destination_schema
  wrote,     \* progress: parts staged, or chunks committed
  pc,        \* where each session is
  out,       \* what a session reported: status, facts, committed chunks
  touched,   \* sessions that changed what a reader of the directory sees
  broken,    \* a removal stopped part-way
  met,       \* the sessions under way when a session opened
  faults

dir == <<exists, parts, temps>>
session == <<mode, plan, seen, wrote>>
vars == <<dir, staging, session, pc, out, touched, broken, met, faults>>

Pending == [status |-> "pending", facts |-> "none", committed |-> 0]

Init ==
  /\ exists \in BOOLEAN
  /\ parts = {} /\ temps = {} /\ staging = {}
  /\ mode \in [Writers -> Modes]
  /\ plan \in [Writers -> Schemas]
  /\ seen = [w \in Writers |-> None]
  /\ wrote = [w \in Writers |-> 0]
  /\ pc = [w \in Writers |-> "idle"]
  /\ out = [w \in Writers |-> Pending]
  /\ met = [w \in Writers |-> {}]
  /\ touched = {} /\ broken = FALSE /\ faults = 0

Live == {w \in Writers : pc[w] \notin {"idle", "over", "dead"}}
PartsOf(w) == {p \in parts : p.by = w}
Empty == parts = {} /\ temps = {}

Fault == faults < MaxFaults /\ faults' = faults + 1

\* Definitions named Bug... are not part of the model: each is a plausible
\* mistake in the definition that follows it.

(* The session is over and reports; its writer is dropped, which removes   *)
(* an uncommitted staging directory.                                       *)
BugNoDrop(w, status, facts, committed) ==
  /\ pc' = [pc EXCEPT ![w] = "over"]
  /\ out' = [out EXCEPT ![w] = [status |-> status, facts |-> facts,
                                committed |-> committed]]
  /\ UNCHANGED staging

Ends(w, status, facts, committed) ==
  /\ pc' = [pc EXCEPT ![w] = "over"]
  /\ out' = [out EXCEPT ![w] = [status |-> status, facts |-> facts,
                                committed |-> committed]]
  /\ staging' = staging \ {w}

(* chunk_failure, append_abandoned: an append that committed a chunk has   *)
(* changed the destination.                                                *)
BugPreBoundary(w) == Ends(w, "failed", "not_applicable", wrote[w])

AppendEnds(w) ==
  Ends(w, "failed",
       IF wrote[w] > 0 THEN "best_effort" ELSE "not_applicable", wrote[w])

Untouched(w) == Ends(w, "failed", "not_applicable", 0)

(***************************************************************************)
(* Opening a session.                                                      *)
(***************************************************************************)

Opens(w) == pc[w] = "idle" /\ met' = [met EXCEPT ![w] = Live]

BeginRefresh(w) ==
  /\ Opens(w) /\ mode[w] = "full_refresh"
  /\ staging' = staging \union {w}
  /\ pc' = [pc EXCEPT ![w] = "open"]
  /\ UNCHANGED <<dir, session, out, touched, broken, faults>>

(* existing_parquet_schema: one schema, or none, or the session does not   *)
(* open.                                                                   *)
ExistingSchema(s) ==
  IF parts = {} THEN s = None ELSE \A p \in parts : p.schema = s

BeginAppend(w) ==
  /\ Opens(w) /\ mode[w] = "append"
  /\ exists' = TRUE
  /\ \E s \in Schemas \union {None} :
       ExistingSchema(s) /\ seen' = [seen EXCEPT ![w] = s]
  /\ pc' = [pc EXCEPT ![w] = "open"]
  /\ UNCHANGED <<parts, temps, staging, mode, plan, wrote, out, touched,
                 broken, faults>>

BeginFails(w) ==
  /\ Opens(w)
  /\ \/ mode[w] = "append" /\ \A s \in Schemas \union {None} : ~ExistingSchema(s)
        /\ UNCHANGED faults
     \/ Fault
  /\ exists' = (exists \/ mode[w] = "append")
  /\ Untouched(w)
  /\ UNCHANGED <<parts, temps, session, touched, broken>>

(***************************************************************************)
(* Writing chunks.                                                         *)
(***************************************************************************)

BugStageInPlace(w) ==
  /\ pc[w] = "open" /\ mode[w] = "full_refresh" /\ wrote[w] < MaxChunks
  /\ exists' = TRUE
  /\ parts' = parts \union {[by |-> w, chunk |-> wrote[w], schema |-> plan[w]]}
  /\ wrote' = [wrote EXCEPT ![w] = @ + 1]
  /\ UNCHANGED <<temps, staging, mode, plan, seen, pc, out, touched, broken, met, faults>>

StagePart(w) ==
  /\ pc[w] = "open" /\ mode[w] = "full_refresh" /\ wrote[w] < MaxChunks
  /\ wrote' = [wrote EXCEPT ![w] = @ + 1]
  /\ UNCHANGED <<dir, staging, mode, plan, seen, pc, out, touched, broken, met, faults>>

StageFails(w) ==
  /\ pc[w] = "open" /\ mode[w] = "full_refresh" /\ wrote[w] < MaxChunks
  /\ Fault
  /\ Untouched(w)
  /\ UNCHANGED <<dir, session, touched, broken, met>>

(* align_batch_to_destination_schema.                                      *)
BugNotAligned(w) == TRUE

Aligns(w) == seen[w] \in {None, plan[w]}

Misaligned(w) ==
  /\ pc[w] = "open" /\ mode[w] = "append" /\ wrote[w] < MaxChunks
  /\ ~Aligns(w)
  /\ AppendEnds(w)
  /\ UNCHANGED <<dir, session, touched, broken, met, faults>>

WriteTemp(w) ==
  /\ pc[w] = "open" /\ mode[w] = "append" /\ wrote[w] < MaxChunks
  /\ Aligns(w) /\ exists
  /\ temps' = temps \union {w}
  /\ pc' = [pc EXCEPT ![w] = "staged"]
  /\ UNCHANGED <<exists, parts, staging, session, out, touched, broken, met, faults>>

(* The temporary file cannot be created or written; it is removed again.   *)
WriteTempFails(w) ==
  /\ pc[w] = "open" /\ mode[w] = "append" /\ wrote[w] < MaxChunks
  /\ Aligns(w)
  /\ (~exists /\ UNCHANGED faults) \/ Fault
  /\ AppendEnds(w)
  /\ UNCHANGED <<dir, session, touched, broken, met>>

CommitPart(w) ==
  /\ pc[w] = "staged" /\ w \in temps
  /\ temps' = temps \ {w}
  /\ parts' = parts \union {[by |-> w, chunk |-> wrote[w], schema |-> plan[w]]}
  /\ wrote' = [wrote EXCEPT ![w] = @ + 1]
  /\ touched' = touched \union {w}
  /\ pc' = [pc EXCEPT ![w] = "open"]
  /\ UNCHANGED <<exists, staging, mode, plan, seen, out, broken, met, faults>>

(* The rename fails, or a refresh removed the temporary file before it.    *)
CommitPartFails(w) ==
  /\ pc[w] = "staged"
  /\ (w \notin temps /\ UNCHANGED faults) \/ Fault
  /\ temps' = temps \ {w}
  /\ Ends(w, "failed", "best_effort", wrote[w])
  /\ UNCHANGED <<exists, parts, session, touched, broken, met>>

AppendDone(w) ==
  /\ pc[w] = "open" /\ mode[w] = "append" /\ wrote[w] > 0
  /\ Ends(w, "succeeded", "best_effort", wrote[w])
  /\ UNCHANGED <<dir, session, touched, broken, met, faults>>

(* The load fails elsewhere while the session is open.                     *)
Abandon(w) ==
  /\ pc[w] = "open"
  /\ IF mode[w] = "append" THEN AppendEnds(w) ELSE Untouched(w)
  /\ UNCHANGED <<dir, session, touched, broken, met, faults>>

(***************************************************************************)
(* The terminal commit of a full refresh: remove_path_if_exists, then      *)
(* rename.                                                                 *)
(***************************************************************************)

StartCommit(w) ==
  /\ pc[w] = "open" /\ mode[w] = "full_refresh" /\ wrote[w] > 0
  /\ pc' = [pc EXCEPT ![w] = IF exists THEN "removing" ELSE "renaming"]
  /\ UNCHANGED <<dir, staging, session, out, touched, broken, met, faults>>

RemoveEntry(w) ==
  /\ pc[w] = "removing" /\ exists
  /\ \/ \E p \in parts : parts' = parts \ {p} /\ UNCHANGED temps
     \/ \E v \in temps : temps' = temps \ {v} /\ UNCHANGED parts
  /\ touched' = touched \union {w}
  /\ UNCHANGED <<exists, staging, session, pc, out, broken, met, faults>>

RemoveDirectory(w) ==
  /\ pc[w] = "removing" /\ exists /\ Empty
  /\ exists' = FALSE
  /\ touched' = touched \union {w}
  /\ pc' = [pc EXCEPT ![w] = "renaming"]
  /\ UNCHANGED <<parts, temps, staging, session, out, broken, met, faults>>

(* An entry cannot be removed; another refresh removed the directory; or   *)
(* an entry came after the listing, and the directory is not empty.        *)
RemoveFails(w) ==
  /\ pc[w] = "removing"
  /\ \/ ~exists /\ UNCHANGED faults
     \/ \E v \in Live : mode[v] = "append" /\ v \in temps \union {p.by : p \in parts}
        /\ UNCHANGED faults
     \/ Fault
  /\ Ends(w, "failed", "best_effort", 0)
  /\ broken' = TRUE
  /\ UNCHANGED <<dir, session, touched, met>>

Rename(w) ==
  /\ pc[w] = "renaming"
  /\ exists => Empty
  /\ exists' = TRUE
  /\ parts' = {[by |-> w, chunk |-> n, schema |-> plan[w]] : n \in 0 .. wrote[w] - 1}
  /\ touched' = touched \union {w}
  /\ Ends(w, "succeeded", "best_effort", wrote[w])
  /\ UNCHANGED <<temps, session, broken, met, faults>>

BugCleanDestination(w) ==
  /\ pc[w] = "renaming"
  /\ (exists /\ ~Empty /\ UNCHANGED faults) \/ Fault
  /\ Ends(w, "failed", "best_effort", 0)
  /\ exists' = FALSE /\ parts' = {} /\ temps' = {}
  /\ UNCHANGED <<session, touched, broken, met>>

(* A directory that is not empty is not replaced by a rename.              *)
RenameFails(w) ==
  /\ pc[w] = "renaming"
  /\ (exists /\ ~Empty /\ UNCHANGED faults) \/ Fault
  /\ Ends(w, "failed", "best_effort", 0)
  /\ UNCHANGED <<dir, session, touched, broken, met>>

Crash(w) ==
  /\ w \in Live
  /\ Fault
  /\ pc' = [pc EXCEPT ![w] = "dead"]
  /\ broken' = (broken \/ pc[w] = "removing")
  /\ UNCHANGED <<dir, staging, session, out, touched, met>>

Next ==
  \E w \in Writers :
    \/ BeginRefresh(w) \/ BeginAppend(w) \/ BeginFails(w)
    \/ StagePart(w) \/ StageFails(w)
    \/ Misaligned(w) \/ WriteTemp(w) \/ WriteTempFails(w)
    \/ CommitPart(w) \/ CommitPartFails(w) \/ AppendDone(w) \/ Abandon(w)
    \/ StartCommit(w) \/ RemoveEntry(w) \/ RemoveDirectory(w) \/ RemoveFails(w)
    \/ Rename(w) \/ RenameFails(w)
    \/ Crash(w)

Spec == Init /\ [][Next]_vars

-----------------------------------------------------------------------------

(* A session that reports not_applicable has changed nothing a reader of   *)
(* the dataset can see, whatever overlapped it; and no part of an append   *)
(* is visible that its report does not count (ADR-0047).                   *)
FactsHonest ==
  \A w \in Writers :
    pc[w] = "over" =>
      /\ out[w].facts = "not_applicable" => w \notin touched
      /\ \A p \in PartsOf(w) : p.chunk < out[w].committed

(* A full refresh is visible whole or not at all, whatever sessions        *)
(* overlap, unless the removal of it is under way or stopped part-way      *)
(* (ADR-0047: one terminal rename).                                        *)
RefreshWhole ==
  ~broken /\ (\A v \in Writers : pc[v] # "removing") =>
    \A w \in Writers :
      mode[w] = "full_refresh" /\ PartsOf(w) # {} =>
        out[w].status = "succeeded" /\ Cardinality(PartsOf(w)) = wrote[w]

(* Nothing of an uncommitted session outlives it, unless its process died. *)
NothingLeftBehind ==
  \A w \in Writers : pc[w] = "over" => w \notin staging \union temps

(* When full refreshes overlap and no file operation fails, a success is   *)
(* never followed by an absent or empty dataset.                           *)
SuccessStays ==
  (faults = 0 /\ Live = {} /\ \A w \in Writers : mode[w] = "full_refresh") =>
    ((\E w \in Writers : out[w].status = "succeeded") => parts # {})

(* Sessions that did not overlap never leave parts of two schemas: a later *)
(* append aligns with what it finds at session start (ADR-0047).  Those of *)
(* overlapping sessions may disagree, and then no later append opens.      *)
SchemasAgree ==
  \A p, q \in parts :
    p.schema # q.schema => p.by \in met[q.by] \/ q.by \in met[p.by]
=============================================================================
