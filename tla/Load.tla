-------------------------------- MODULE Load --------------------------------
(***************************************************************************)
(* Loads of one load definition: run_load and execute_supported_load.  A   *)
(* load judges the definition, reads the pin, reads and resolves the       *)
(* source, judges the reject threshold, persists the pin it produced or    *)
(* extended, runs the write phase, and writes its report.  Several loads   *)
(* share the pin file and the dataset, one after the other or overlapping; *)
(* a load may die between any two steps.                                   *)
(*                                                                         *)
(* The definition phase is LoadDefinition, the pass over the source is     *)
(* TwoPass and Schema, and the write phase is WritePhase; here they are    *)
(* the results they hand back.  The definitions accepted name a pin.       *)
(***************************************************************************)
EXTENDS Integers, Sequences, FiniteSets, SequencesExt

CONSTANTS
  Loads,            \* the runs of the definition
  Fields,           \* dataset field names
  Definitions,      \* the load definitions in use
  RejectThreshold,
  DuplicateHeaders, \* whether a CSV header may name a field twice
  MaxWidth,         \* bound: fields of a source
  MaxRejected,      \* bound: records a source has that are rejected
  MaxChunks,        \* bound: chunks of a load
  MaxTears,         \* bound: pin files left half-written
  MaxAttempt,       \* bound: the attempts whose wait is computed
  Unset, Environment, MaxWord, MaxPrecision  \* of LoadDefinition

Definition ==
  INSTANCE LoadDefinition
    WITH MaxInt <- 1, MaxExponent <- 1, FractionDigits <- 1, UnitDigits <- 1

(* What a definition lists is a sequence (a Vec).                          *)
IsList(list) == Len(list) \in Nat /\ DOMAIN list = 1 .. Len(list)

ASSUME LoadAssumption ==
  /\ \A d \in Definitions :
       Definition!DefinitionCode(d) = "ok" =>
         d.schema # Unset /\ d.schema.path # Unset
  /\ \A d \in Definitions :
       /\ d.dataset \in {Unset, Definition!Blank, "plain", "dotted"}
       /\ IsList(Definition!OrEmpty(d.merge))
       /\ d.schema # Unset => IsList(Definition!OrEmpty(d.schema.overrides))
       /\ {Definition!RetryPolicy(d).initial, Definition!RetryPolicy(d).max}
            \subseteq 0 .. MaxWord
  /\ MaxWord \in Nat
  /\ DuplicateHeaders \in BOOLEAN
  /\ {RejectThreshold, MaxWidth, MaxRejected, MaxChunks, MaxTears, MaxAttempt}
       \subseteq Nat

VARIABLES
  definition,  \* the load definition
  overlapped,  \* a load started while another was under way
  pc,          \* where each load is
  pin,         \* the pinned schema file
  tears,       \* times the pin was left half-written
  commits,     \* what the destination committed, in order: load and columns
  job,         \* what a load has established
  done,        \* chunks of a load the destination committed
  result,      \* what execute_supported_load returned
  report       \* the loads whose load-report.json exists

setting == <<definition, overlapped>>
vars == <<setting, pc, pin, tears, commits, job, done, result, report>>

Columns == UNION {[1 .. n -> Fields] : n \in 0 .. MaxWidth}

Refusal == Definition!DefinitionCode(definition)
Policy == Definition!DriftPolicy(definition)
Mode == Definition!LoadMode(definition)

(* A source has at least one field: read_csv_header and read_jsonl fail    *)
(* otherwise.  The JSONL key union has no repetition; a CSV header may.    *)
Shapes == {s \in Columns : s # <<>> /\ (DuplicateHeaders \/ IsInjective(s))}

NoPin == [exists |-> FALSE, fields |-> <<>>]
PinOf(fields) == [exists |-> TRUE, fields |-> fields]

\* Definitions named Bug... are not part of the model: each is a plausible
\* mistake in the definition that follows it.

(* PinnedSchema::from_yaml accepts the file.  A file cut short of its      *)
(* first whole field, or of its version, is the empty sequence.            *)
Parses(file) == file.fields # <<>> /\ IsInjective(file.fields)

(* The fields of a source at some of its places, in source order.          *)
FieldsAt(shape, places) ==
  [n \in 1 .. Cardinality(places) |->
     shape[CHOOSE k \in places : Cardinality({j \in places : j <= k}) = n]]

(* match_shape: by name; the fields of the pin no record carries, and the  *)
(* columns the pin does not name, in source order.                         *)
Missing(file, shape) == Range(file.fields) \ Range(shape)
Unpinned(file, shape) == {k \in DOMAIN shape : shape[k] \notin Range(file.fields)}
Added(file, shape) == FieldsAt(shape, Unpinned(file, shape))

MatchesPin(file, shape) ==
  /\ IsInjective(shape)
  /\ Missing(file, shape) = {}
  /\ \/ Policy = "allow_additive_nullable"
     \/ Added(file, shape) = <<>>

BugSourceOrder(file, shape) ==
  FieldsAt(shape, DOMAIN shape \ Unpinned(file, shape)) \o Added(file, shape)

(* assemble_pinned_plan, and inferred_plan for a pin not yet there: the    *)
(* pinned fields in pin order, then the added ones.                        *)
Planned(file, shape) == file.fields \o Added(file, shape)

BugExtensionNotWritten(file, shape) == ~file.exists

(* pinned_schema_write is Some.                                            *)
WritesPin(file, shape) == ~file.exists \/ Added(file, shape) # <<>>

Resolves(file, shape) == ~file.exists \/ MatchesPin(file, shape)
PlanFor(file, shape) == IF file.exists THEN Planned(file, shape) ELSE shape

Idle == [directive |-> NoPin, shape |-> <<>>, misfits |-> 0, rejected |-> 0,
         poisoned |-> FALSE, writes |-> FALSE, persisted |-> FALSE,
         plan |-> <<>>, total |-> 0]
Pending == [code |-> "pending", posture |-> "none", committed |-> 0,
            claimsPin |-> FALSE]

(* A pin may be there from an earlier load.                                *)
Init ==
  /\ definition \in Definitions
  /\ pc = [l \in Loads |-> "idle"]
  /\ pin \in {NoPin} \union {PinOf(s) : s \in {t \in Shapes : IsInjective(t)}}
  /\ overlapped = FALSE
  /\ tears = 0
  /\ commits = <<>>
  /\ job = [l \in Loads |-> Idle]
  /\ done = [l \in Loads |-> 0]
  /\ result = [l \in Loads |-> Pending]
  /\ report = {}

Gone == {"idle", "over", "dead"}
Live == {l \in Loads : pc[l] \notin Gone}

Starts(l) == pc[l] = "idle" /\ overlapped' = (overlapped \/ Live # {})

(* A failure with the not_started posture: no record batch was exchanged.  *)
(* The schema decision a load resolved travels with it, and says           *)
(* pinned_schema_persisted whenever a pin was to be written.               *)
NotStarted(l, code) ==
  result' = [result EXCEPT ![l] = [code |-> code, posture |-> "not_started",
                                   committed |-> 0,
                                   claimsPin |-> job[l].writes]]

(***************************************************************************)
(* The definition phase.                                                   *)
(***************************************************************************)

(* The first check of the definition that fails, before the pin is read.   *)
BrokenDefinition(l) ==
  /\ Starts(l)
  /\ Refusal # "ok"
  /\ pc' = [pc EXCEPT ![l] = "report"]
  /\ NotStarted(l, Refusal)
  /\ UNCHANGED <<definition, pin, tears, commits, job, done, report>>

(* The last step of resolve_schema_directive: the pin file is read, found  *)
(* absent, or fails the load.                                              *)
ReadPin(l) ==
  /\ Starts(l)
  /\ Refusal = "ok"
  /\ ~pin.exists \/ Parses(pin)
  /\ pc' = [pc EXCEPT ![l] = "read"]
  /\ job' = [job EXCEPT ![l].directive = pin]
  /\ UNCHANGED <<definition, pin, tears, commits, done, result, report>>

PinUnusable(l) ==
  /\ Starts(l)
  /\ Refusal = "ok"
  /\ pin.exists
  /\ pc' = [pc EXCEPT ![l] = "report"]
  /\ NotStarted(l, IF Parses(pin) THEN "pinned_schema_read_failed"
                                  ELSE "invalid_pinned_schema")
  /\ UNCHANGED <<definition, pin, tears, commits, job, done, report>>

(***************************************************************************)
(* The read: pass 1.  The source's format is looked at before the source   *)
(* is opened (LocalFileSource::read).  A source has a shape, records that  *)
(* are rejected, and chunks.  The sink counts every rejection unless an    *)
(* artifact write failed; then it counts no more than there are.           *)
(***************************************************************************)

FormatUnsupported(l) ==
  /\ pc[l] = "read"
  /\ ~Definition!FormatSupported(definition)
  /\ pc' = [pc EXCEPT ![l] = "report"]
  /\ NotStarted(l, "unsupported_source_format")
  /\ UNCHANGED <<setting, pin, tears, commits, job, done, report>>

SourceOf(l, shape, misfits, rejected, poisoned) ==
  /\ pc[l] = "read"
  /\ Definition!FormatSupported(definition)
  /\ rejected <= misfits
  /\ poisoned \/ rejected = misfits

(* What the pass over the source found, and what was decided on it.        *)
Observed(l, shape, misfits, rejected, poisoned) ==
  [job[l] EXCEPT !.shape = shape, !.misfits = misfits, !.rejected = rejected,
                 !.poisoned = poisoned]

Decided(l, found, total) ==
  [found EXCEPT !.total = total,
                !.plan = PlanFor(job[l].directive, found.shape),
                !.writes = WritesPin(job[l].directive, found.shape)]

Resolve(l) ==
  \E shape \in Shapes, misfits, rejected \in 0 .. MaxRejected,
     poisoned \in BOOLEAN, total \in 1 .. MaxChunks :
    /\ SourceOf(l, shape, misfits, rejected, poisoned)
    /\ poisoned => misfits > 0
    /\ Resolves(job[l].directive, shape)
    /\ pc' = [pc EXCEPT ![l] = "gate"]
    /\ job' = [job EXCEPT ![l] =
         Decided(l, Observed(l, shape, misfits, rejected, poisoned), total)]
    /\ UNCHANGED <<setting, pin, tears, commits, done, result, report>>

Drift(l) ==
  \E shape \in Shapes, misfits, rejected \in 0 .. MaxRejected,
     poisoned \in BOOLEAN :
    /\ SourceOf(l, shape, misfits, rejected, poisoned)
    /\ ~Resolves(job[l].directive, shape)
    /\ pc' = [pc EXCEPT ![l] = "report"]
    /\ job' = [job EXCEPT ![l] = Observed(l, shape, misfits, rejected, poisoned)]
    /\ NotStarted(l, "schema_drift")
    /\ UNCHANGED <<setting, pin, tears, commits, done, report>>

(* The source cannot be read, or no record of it has a field: there is no  *)
(* schema decision, and apply_pending_reject_threshold judges what was     *)
(* already rejected.                                                       *)
ReadFails(l) ==
  \E misfits, rejected \in 0 .. MaxRejected, poisoned \in BOOLEAN :
    /\ SourceOf(l, <<>>, misfits, rejected, poisoned)
    /\ pc' = [pc EXCEPT ![l] = "report"]
    /\ job' = [job EXCEPT ![l] = Observed(l, <<>>, misfits, rejected, poisoned)]
    /\ NotStarted(l, IF rejected > RejectThreshold
                     THEN "reject_threshold_exceeded" ELSE "source_read_failed")
    /\ UNCHANGED <<setting, pin, tears, commits, done, report>>

(***************************************************************************)
(* The threshold gate and the pin.                                         *)
(***************************************************************************)

AfterGate(l) == IF job[l].writes THEN "persist" ELSE "open"

BugThresholdOffByOne(l) ==
  /\ pc[l] = "gate"
  /\ IF job[l].rejected > RejectThreshold + 1
     THEN /\ pc' = [pc EXCEPT ![l] = "report"]
          /\ NotStarted(l, "reject_threshold_exceeded")
     ELSE /\ pc' = [pc EXCEPT ![l] = AfterGate(l)]
          /\ UNCHANGED result
  /\ UNCHANGED <<setting, pin, tears, commits, job, done, report>>

Gate(l) ==
  /\ pc[l] = "gate"
  /\ IF job[l].rejected > RejectThreshold
     THEN /\ pc' = [pc EXCEPT ![l] = "report"]
          /\ NotStarted(l, "reject_threshold_exceeded")
     ELSE /\ pc' = [pc EXCEPT ![l] = AfterGate(l)]
          /\ UNCHANGED result
  /\ UNCHANGED <<setting, pin, tears, commits, job, done, report>>

PersistFailed(l) ==
  /\ pc' = [pc EXCEPT ![l] = "report"]
  /\ NotStarted(l, "pinned_schema_write_failed")

(* persist_pinned_schema: fs::write opens and truncates, then writes.      *)
PersistUnopened(l) ==
  /\ pc[l] = "persist"
  /\ PersistFailed(l)
  /\ UNCHANGED <<setting, pin, tears, commits, job, done, report>>

PersistTruncate(l) ==
  /\ pc[l] = "persist"
  /\ pc' = [pc EXCEPT ![l] = "persisting"]
  /\ pin' = PinOf(<<>>)
  /\ UNCHANGED <<setting, tears, commits, job, done, result, report>>

(* The text goes in at the start of the file; what an overlapping load     *)
(* wrote past its end stays, as whole fields or as text that parses to     *)
(* none.                                                                   *)
Overlaid(old, new) ==
  IF Len(old) <= Len(new) THEN {new}
  ELSE {new \o SubSeq(old, Len(new) + 1, Len(old)), <<>>}

PersistWrite(l) ==
  /\ pc[l] = "persisting"
  /\ \E fields \in Overlaid(pin.fields, job[l].plan) : pin' = PinOf(fields)
  /\ pc' = [pc EXCEPT ![l] = "open"]
  /\ job' = [job EXCEPT ![l].persisted = TRUE]
  /\ UNCHANGED <<setting, tears, commits, done, result, report>>

(* The write stops part-way: the disk is full.                             *)
PersistTorn(l) ==
  /\ pc[l] = "persisting" /\ tears < MaxTears
  /\ \E n \in 0 .. Len(job[l].plan) - 1 :
       pin' = PinOf(SubSeq(job[l].plan, 1, n))
  /\ PersistFailed(l)
  /\ tears' = tears + 1
  /\ UNCHANGED <<setting, commits, job, done, report>>

(***************************************************************************)
(* The write phase, as its contract: the session does not open, or chunks  *)
(* land one by one (append) or all at once (full refresh) and then the     *)
(* phase succeeds, or it fails with what landed counted.                   *)
(***************************************************************************)

OpenFails(l) ==
  /\ pc[l] = "open"
  /\ pc' = [pc EXCEPT ![l] = "report"]
  /\ NotStarted(l, "destination_write_failed")
  /\ UNCHANGED <<setting, pin, tears, commits, job, done, report>>

Open(l) ==
  /\ pc[l] = "open"
  /\ pc' = [pc EXCEPT ![l] = "session"]
  /\ UNCHANGED <<setting, pin, tears, commits, job, done, result, report>>

Land(l) ==
  /\ pc[l] = "session"
  /\ done[l] < job[l].total
  /\ done' = [done EXCEPT ![l] = IF Mode = "append" THEN @ + 1
                                 ELSE job[l].total]
  /\ commits' = Append(commits, [load |-> l, columns |-> job[l].plan])
  /\ UNCHANGED <<setting, pc, pin, tears, job, result, report>>

InSession(l, code) ==
  /\ pc' = [pc EXCEPT ![l] = "report"]
  /\ result' = [result EXCEPT ![l] =
       [code |-> code, posture |-> "arrow_record_batch",
        committed |-> done[l], claimsPin |-> job[l].writes]]
  /\ UNCHANGED <<setting, pin, tears, commits, job, done, report>>

SessionFails(l) == pc[l] = "session" /\ InSession(l, "destination_write_failed")

SessionSucceeds(l) ==
  /\ pc[l] = "session"
  /\ done[l] = job[l].total
  /\ InSession(l, "succeeded")

(***************************************************************************)
(* The end of run_load, and the death of the process.                      *)
(***************************************************************************)

BugIgnoreSinkError(l) ==
  /\ pc[l] = "report"
  /\ pc' = [pc EXCEPT ![l] = "over"]
  /\ report' = report \union {l}
  /\ UNCHANGED <<setting, pin, tears, commits, job, done, result>>

(* take_io_error aborts before any report, and so does a report that       *)
(* cannot be written.                                                      *)
Report(l) ==
  /\ pc[l] = "report"
  /\ pc' = [pc EXCEPT ![l] = "over"]
  /\ \/ ~job[l].poisoned /\ report' = report \union {l}
     \/ UNCHANGED report
  /\ UNCHANGED <<setting, pin, tears, commits, job, done, result>>

Crash(l) ==
  /\ l \in Live
  /\ pc[l] = "persisting" => tears < MaxTears
  /\ pc' = [pc EXCEPT ![l] = "dead"]
  /\ tears' = IF pc[l] = "persisting" THEN tears + 1 ELSE tears
  /\ UNCHANGED <<setting, pin, commits, job, done, result, report>>

Next ==
  \E l \in Loads :
    \/ BrokenDefinition(l) \/ ReadPin(l) \/ PinUnusable(l)
    \/ FormatUnsupported(l) \/ Resolve(l) \/ Drift(l) \/ ReadFails(l)
    \/ Gate(l)
    \/ PersistUnopened(l) \/ PersistTruncate(l) \/ PersistWrite(l)
    \/ PersistTorn(l)
    \/ OpenFails(l) \/ Open(l) \/ Land(l)
    \/ SessionFails(l) \/ SessionSucceeds(l)
    \/ Report(l) \/ Crash(l)

Spec == Init /\ [][Next]_vars

-----------------------------------------------------------------------------

LandedBy(l) == {i \in DOMAIN commits : commits[i].load = l}

(* A load whose source breaches the reject threshold leaves the pin        *)
(* unpersisted and the destination untouched (ADR-0019, ADR-0036), unless  *)
(* an artifact write failed and the sink lost count; that load never       *)
(* reports.                                                                *)
BreachTouchesNothing ==
  \A l \in Loads :
    job[l].misfits > RejectThreshold /\ ~job[l].poisoned =>
      ~job[l].persisted /\ LandedBy(l) = {}

(* Loads of one definition, one after the other, keep the columns of the   *)
(* dataset: under the default policy they never change, under the additive *)
(* one they grow at the end only, whatever order the source has its fields *)
(* in and whatever load failed or died in between (ADR-0033, ADR-0034).    *)
(* A pin file left half-written ends the promise.                          *)
ColumnsGrowOnly ==
  ~overlapped /\ tears = 0 =>
    \A i, j \in DOMAIN commits :
      i < j => IF Policy = "fail"
               THEN commits[j].columns = commits[i].columns
               ELSE IsPrefix(commits[i].columns, commits[j].columns)

(* A field once committed under the pin stays in the pin, so a later       *)
(* source without it is caught as drift (ADR-0033).                        *)
NothingForgotten ==
  (~overlapped /\ tears = 0 /\ \A l \in Loads : pc[l] # "persisting") =>
    \A i \in DOMAIN commits :
      Range(commits[i].columns) \subseteq Range(pin.fields)

(* While the pin is what a load persisted, the same source resolves to the *)
(* same plan and rewrites nothing: a retry converges on the same pin, even *)
(* after a failed write (execute_supported_load).                          *)
RetryConverges ==
  \A l \in Loads :
    job[l].persisted /\ pin = PinOf(job[l].plan) =>
      /\ Parses(pin)
      /\ Resolves(pin, job[l].shape)
      /\ PlanFor(pin, job[l].shape) = job[l].plan
      /\ ~WritesPin(pin, job[l].shape)

(* What a load-report.json says happened at the destination did happen,    *)
(* a load that got as far as a session and claims the pin did persist it,  *)
(* and a success is whole: every chunk landed, no more rejections than     *)
(* tolerated, all of them in the artifact.                                 *)
ReportHonest ==
  \A l \in report :
    /\ result[l].posture = "not_started" => LandedBy(l) = {}
    /\ result[l].committed =
         IF Mode = "append" THEN Cardinality(LandedBy(l))
         ELSE IF LandedBy(l) = {} THEN 0 ELSE job[l].total
    /\ result[l].posture # "not_started" /\ result[l].claimsPin =>
         job[l].persisted
    /\ result[l].code = "succeeded" =>
         /\ result[l].committed = job[l].total
         /\ job[l].misfits <= RejectThreshold
         /\ job[l].rejected = job[l].misfits

(* What a load persists or lands, it does under a definition that is sound *)
(* in every respect the definition phase and the read judge, each stated   *)
(* here on its own and not in the order judged: a definition with a fault, *)
(* or with several, never bootstraps a pin nor touches the destination     *)
(* (ADR-0019, ADR-0040), whatever the other loads do meanwhile.            *)
Sound(d) ==
  LET connector == d.destination.connector
      format == IF d.source.format = Unset THEN d.source.extension
                ELSE d.source.format
  IN /\ d.version = 1 /\ format \in {"csv", "jsonl"}
     /\ IF Mode = "merge"
          THEN /\ connector # "parquet"
               /\ Cardinality(Range(d.merge)) = Len(d.merge)
          ELSE d.merge = Unset
     /\ connector # "parquet" => d.dataset \in {"plain", "dotted"}
     /\ connector = "sqlserver" =>
          d.dataset = "plain" /\ d.destination.password_env \in Environment
     /\ d.transform # Unset /\ d.transform.flatten # Unset => format = "jsonl"
     /\ d.schema.overrides # Unset =>
          \A i, j \in DOMAIN d.schema.overrides :
            d.schema.overrides[i].name = d.schema.overrides[j].name => i = j

OnlySoundLoads ==
  commits # <<>> \/ (\E l \in Loads : job[l].persisted) => Sound(definition)

(* The wait before an attempt, computed in saturating words, is what the   *)
(* documented formula gives in exact arithmetic, min(initial * 2^(n-2),    *)
(* max): no doubling wraps, at any attempt, whatever the policy (ADR-0049, *)
(* delay_before_attempt_ms).                                               *)
BackoffExact ==
  Refusal = "ok" =>
    LET policy == Definition!RetryPolicy(definition)
        exact(n) == policy.initial * 2 ^ (n - 2)
    IN \A n \in 2 .. MaxAttempt :
         Definition!Delay(policy, n) =
           IF exact(n) < policy.max THEN exact(n) ELSE policy.max
=============================================================================
