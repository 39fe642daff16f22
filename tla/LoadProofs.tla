------------------------------ MODULE LoadProofs ------------------------------
(***************************************************************************)
(* Theorems about Load, for any runs, fields, load definitions and reject  *)
(* threshold, and for sources of any width, chunks and rejections.         *)
(***************************************************************************)
EXTENDS Load, FiniteSetTheorems, SequenceTheorems, TLAPS

-----------------------------------------------------------------------------
(* Numbers, ranks and sequences.                                           *)

\* A set of naturals that is not empty has a least element.
LEMMA LeastNumber ==
  ASSUME NEW T \in SUBSET Nat, T # {}
  PROVE  \E n \in T : \A m \in T : n <= m
<1> DEFINE below == { pair \in Nat \X Nat : pair[1] < pair[2] }
<1>1. IsWellFoundedOn(below, Nat)
  BY NatLessThanWellFounded DEF OpToRel
<1>2. PICK n \in T : \A m \in T : <<m, n>> \notin below
  <2> HIDE DEF below
  <2>. QED
    BY <1>1, WFMin
<1>3. \A m \in T : ~(m < n)
  BY <1>2
<1>. QED
  BY <1>3

\* A rank that tells the members of a finite set apart takes every value from
\* 1 to their number.
LEMMA Ranking ==
  ASSUME NEW D, IsFiniteSet(D), NEW rank \in [D -> 1 .. Cardinality(D)],
         \A x, y \in D : rank[x] = rank[y] => x = y
  PROVE  \A n \in 1 .. Cardinality(D) : \E x \in D : rank[x] = n
<1> DEFINE T == 1 .. Cardinality(D)
<1>1. Cardinality(D) \in Nat
  BY FS_CardinalityType
<1>2. IsFiniteSet(T) /\ Cardinality(T) = Cardinality(D)
  BY <1>1, FS_Interval
<1> HIDE DEF T
<1>3. rank \in [D -> T]
  BY DEF T
<1>4. rank \in Injection(D, T)
  BY <1>3 DEF Injection, IsInjective
<1>5. rank \in Surjection(D, T)
  BY <1>2, <1>4, FS_Injection
<1>. QED
  BY <1>5 DEF Surjection, T

\* Lists that repeat nothing and share nothing concatenate to such a list.
LEMMA InjectiveConcat ==
  ASSUME NEW S, NEW s \in Seq(S), NEW u \in Seq(S), IsInjective(s), IsInjective(u),
         Range(s) \intersect Range(u) = {}
  PROVE  IsInjective(s \o u)
<1> SUFFICES ASSUME NEW i \in 1 .. Len(s \o u), NEW j \in 1 .. Len(s \o u),
                    (s \o u)[i] = (s \o u)[j]
             PROVE  i = j
  BY DEF IsInjective
<1>1. CASE i <= Len(s) /\ j <= Len(s)
  BY <1>1 DEF IsInjective
<1>2. CASE i > Len(s) /\ j > Len(s)
  <2>1. /\ i - Len(s) \in 1 .. Len(u) /\ j - Len(s) \in 1 .. Len(u)
        /\ u[i - Len(s)] = u[j - Len(s)]
    BY <1>2
  <2>2. i - Len(s) = j - Len(s)
    BY <2>1 DEF IsInjective
  <2>. QED
    BY <2>2
<1>3. CASE i <= Len(s) /\ j > Len(s)
  <2>1. s[i] = u[j - Len(s)] /\ i \in 1 .. Len(s) /\ j - Len(s) \in 1 .. Len(u)
    BY <1>3
  <2>. QED
    BY <2>1 DEF Range
<1>4. CASE i > Len(s) /\ j <= Len(s)
  <2>1. u[i - Len(s)] = s[j] /\ j \in 1 .. Len(s) /\ i - Len(s) \in 1 .. Len(u)
    BY <1>4
  <2>. QED
    BY <2>1 DEF Range
<1>. QED
  BY <1>1, <1>2, <1>3, <1>4

-----------------------------------------------------------------------------
Stands == {"idle", "read", "gate", "persist", "persisting", "open", "session",
           "report", "over", "dead"}
Files == [exists : BOOLEAN, fields : Seq(Fields)]
Commits == [load : Loads, columns : Seq(Fields)]
Jobs == [directive : Files, shape : Seq(Fields), misfits : Nat, rejected : Nat,
         poisoned : BOOLEAN, writes : BOOLEAN, persisted : BOOLEAN,
         plan : Seq(Fields), total : Nat]
\* What the definition phase says.
RefusalCodes ==
  {"ok", "load_definition_read_failed", "invalid_load_definition_yaml",
   "missing_load_definition_version", "unsupported_load_definition_version",
   "missing_source", "missing_destination", "unsupported_load_mode",
   "missing_merge_keys", "invalid_merge_config", "unsupported_source_connector",
   "missing_dataset", "invalid_dataset_name", "invalid_destination_config",
   "unresolved_credential_reference", "unsupported_destination_connector",
   "unsupported_load_mode_for_destination", "invalid_transform_config",
   "invalid_schema_config", "unsupported_drift_policy",
   "unsupported_override_type"}

Codes ==
  {"pending", "succeeded", "pinned_schema_read_failed", "invalid_pinned_schema",
   "unsupported_source_format", "schema_drift", "reject_threshold_exceeded",
   "source_read_failed", "pinned_schema_write_failed", "destination_write_failed"}
  \union RefusalCodes
Results == [code : Codes, posture : {"none", "not_started", "arrow_record_batch"},
            committed : Nat, claimsPin : BOOLEAN]

TypeOK ==
  /\ definition \in Definitions
  /\ overlapped \in BOOLEAN
  /\ pc \in [Loads -> Stands]
  /\ pin \in Files
  /\ tears \in Nat
  /\ commits \in Seq(Commits)
  /\ job \in [Loads -> Jobs]
  /\ done \in [Loads -> Nat]
  /\ result \in [Loads -> Results]
  /\ report \subseteq Loads

\* No load gets past the check it failed, and what was persisted or landed was
\* persisted or landed by a load that passed them all.
Accepted == Refusal = "ok" /\ Definition!FormatSupported(definition)

AcceptedInv ==
  /\ \A l \in Loads :
       /\ pc[l] = "read" => Refusal = "ok"
       /\ pc[l] \in {"gate", "persist", "persisting", "open", "session"} => Accepted
       /\ job[l].persisted => Accepted
  /\ commits # <<>> => Accepted

\* The sink lost count of nothing, and the load was let through the gate.
Tolerated(l) ==
  /\ job[l].rejected <= RejectThreshold
  /\ job[l].poisoned \/ job[l].rejected = job[l].misfits

\* What each load has established by the time it stands where it does.
StandInv ==
  \A l \in Loads :
    /\ pc[l] \in {"idle", "read", "gate", "persist", "persisting"} =>
         ~job[l].persisted
    /\ pc[l] \in {"idle", "read", "gate", "persist", "persisting", "open"} =>
         LandedBy(l) = {}
    /\ pc[l] = "gate" => job[l].poisoned \/ job[l].rejected = job[l].misfits
    /\ pc[l] \in {"persist", "persisting", "open", "session"} => Tolerated(l)
    /\ pc[l] \in {"open", "session"} => (job[l].writes => job[l].persisted)
    /\ pc[l] \in {"gate", "persist", "persisting", "open", "session"} =>
         job[l].total > 0
    /\ job[l].persisted \/ LandedBy(l) # {} => Tolerated(l)

\* The chunks counted are the chunks that landed.
CountInv ==
  \A l \in Loads :
    /\ IsFiniteSet(LandedBy(l))
    /\ done[l] = IF Mode = "append" THEN Cardinality(LandedBy(l))
                 ELSE IF LandedBy(l) = {} THEN 0 ELSE job[l].total

\* What a load that has a result says, and what it has.
ResultInv ==
  /\ \A l \in Loads :
       pc[l] \in {"report", "over"} =>
         /\ result[l].posture = "not_started" =>
              /\ LandedBy(l) = {} /\ result[l].committed = 0
              /\ result[l].code # "succeeded"
         /\ result[l].posture # "not_started" =>
              /\ result[l].committed = done[l]
              /\ result[l].claimsPin => job[l].persisted
         /\ result[l].code = "succeeded" => done[l] = job[l].total /\ Tolerated(l)
  /\ \A l \in report : pc[l] = "over" /\ ~job[l].poisoned

\* A load's plan is what its source made of the pin it read.
PlanInv ==
  \A l \in Loads :
    /\ job[l].directive.exists => pc[l] # "idle" /\ Parses(job[l].directive)
    /\ \/ pc[l] \in {"gate", "persist", "persisting", "open", "session"}
       \/ job[l].persisted
       =>
         /\ job[l].shape \in Shapes
         /\ Resolves(job[l].directive, job[l].shape)
         /\ job[l].plan = PlanFor(job[l].directive, job[l].shape)
         /\ job[l].writes = WritesPin(job[l].directive, job[l].shape)
    /\ pc[l] \in {"persist", "persisting"} => job[l].writes

\* Every commit fits a pin: equal to it, or a prefix of it.
Grows(columns, fields) ==
  IF Policy = "fail" THEN fields = columns ELSE IsPrefix(columns, fields)
Kept(file) ==
  \A i \in DOMAIN commits : file.exists /\ Grows(commits[i].columns, file.fields)

\* Loads one after the other, with no pin file half-written: the pin is what
\* the load under way read or wrote, and holds what was committed.
PinInv ==
  ~overlapped /\ tears = 0 =>
    /\ \A l, m \in Live : l = m
    /\ \A l \in Loads :
         /\ pc[l] \in {"read", "gate", "persist"} => pin = job[l].directive
         /\ pc[l] = "persisting" => pin = PinOf(<<>>) /\ Kept(job[l].directive)
         /\ pc[l] \in {"open", "session"} => pin = PinOf(job[l].plan)
    /\ (\A l \in Loads : pc[l] # "persisting") => Kept(pin)

IInv ==
  /\ TypeOK /\ AcceptedInv /\ StandInv /\ CountInv /\ ResultInv
  /\ PlanInv /\ PinInv /\ ColumnsGrowOnly

-----------------------------------------------------------------------------
(* The definition phase: it says ok exactly when no check fails.           *)

LEMMA FirstCodeResult ==
  ASSUME NEW S, NEW codes \in Seq(S)
  PROVE  LET first == Definition!FirstCode(codes)
         IN \/ first = "ok" /\ \A k \in DOMAIN codes : codes[k] = "ok"
            \/ first # "ok" /\ first \in S
<1> DEFINE wrong == { k \in 1 .. Len(codes) : codes[k] # "ok" }
           first == Definition!FirstCode(codes)
<1>1. CASE wrong = {}
  BY <1>1 DEF Definition!FirstCode, Definition!SelectInSeq
<1>2. CASE wrong # {}
  <2>1. PICK k \in wrong : \A j \in wrong : k <= j
    <3>1. wrong \in SUBSET Nat /\ wrong # {}
      BY <1>2
    <3> HIDE DEF wrong
    <3>. QED
      BY <3>1, LeastNumber
  <2>2. Definition!Min(wrong) \in wrong
    <3> HIDE DEF wrong
    <3>. QED
      BY <2>1 DEF Definition!Min
  <2>3. Definition!Min(wrong) # 0 /\ first = codes[Definition!Min(wrong)]
    BY <1>2, <2>2 DEF Definition!FirstCode, Definition!SelectInSeq
  <2>. QED
    BY <2>2, <2>3
<1>. QED
  BY <1>1, <1>2


LEMMA TextCodes ==
  ASSUME NEW d
  PROVE  {Definition!TextCode(d), Definition!VersionCode(d),
          Definition!PresenceCode(d), Definition!LoadModeCode(d),
          Definition!SourceCode(d), Definition!SupportCode(d)} \subseteq RefusalCodes
<1>2. \A x \in RefusalCodes, y \in RefusalCodes :
        Definition!FirstCode(<<x, y>>) \in RefusalCodes
  <2> SUFFICES ASSUME NEW x \in RefusalCodes, NEW y \in RefusalCodes
               PROVE  Definition!FirstCode(<<x, y>>) \in RefusalCodes
    OBVIOUS
  <2>1. <<x, y>> \in Seq(RefusalCodes) /\ "ok" \in RefusalCodes
    BY DEF RefusalCodes
  <2>. QED
    BY <2>1, FirstCodeResult
<1>3. Definition!TextCode(d) \in RefusalCodes
  BY <1>2, ZenonT(60) DEF Definition!TextCode, Definition!Code, RefusalCodes
<1>4. Definition!VersionCode(d) \in RefusalCodes
  BY <1>2, ZenonT(60) DEF Definition!VersionCode, Definition!Code, RefusalCodes
<1>5. Definition!PresenceCode(d) \in RefusalCodes
  BY <1>2, ZenonT(60) DEF Definition!PresenceCode, Definition!Code, RefusalCodes
<1>6. Definition!LoadModeCode(d) \in RefusalCodes
  BY DEF Definition!LoadModeCode, Definition!Code, RefusalCodes
<1>7. Definition!SourceCode(d) \in RefusalCodes
  BY DEF Definition!SourceCode, Definition!Code, RefusalCodes
<1>8. Definition!SupportCode(d) \in RefusalCodes
  BY DEF Definition!SupportCode, Definition!Code, RefusalCodes
<1>. QED
  BY <1>3, <1>4, <1>5, <1>6, <1>7, <1>8

LEMMA MergeResult ==
  ASSUME NEW d
  PROVE  /\ Definition!MergeCode(d) \in RefusalCodes
         /\ Definition!MergeCode(d) = "ok" =>
              /\ Definition!LoadMode(d) = "merge" <=> d.merge # Unset
              /\ Definition!IsInjective(Definition!OrEmpty(d.merge))
<1> DEFINE a == Definition!Code(Definition!LoadMode(d) = "merge" /\ d.merge = Unset,
                                "missing_merge_keys")
           b == Definition!Code(d.merge # Unset /\ Definition!LoadMode(d) # "merge",
                                "invalid_merge_config")
           c == Definition!Code(d.merge = <<>>, "invalid_merge_config")
           e == Definition!Code(~Definition!IsInjective(Definition!OrEmpty(d.merge)),
                                "invalid_merge_config")
<1>1. /\ a \in RefusalCodes /\ b \in RefusalCodes /\ c \in RefusalCodes
      /\ e \in RefusalCodes
      /\ a = "ok" => ~(Definition!LoadMode(d) = "merge" /\ d.merge = Unset)
      /\ b = "ok" => ~(d.merge # Unset /\ Definition!LoadMode(d) # "merge")
      /\ e = "ok" => Definition!IsInjective(Definition!OrEmpty(d.merge))
  BY DEF Definition!Code, RefusalCodes
<1>2. Definition!MergeCode(d) = Definition!FirstCode(<<a, b, c, e>>)
  BY DEF Definition!MergeCode
<1> HIDE DEF a, b, c, e
<1>3. <<a, b, c, e>> \in Seq(RefusalCodes) /\ "ok" \in RefusalCodes
  BY <1>1 DEF RefusalCodes
<1>4. /\ Definition!MergeCode(d) \in RefusalCodes
      /\ Definition!MergeCode(d) = "ok" =>
           \A k \in DOMAIN <<a, b, c, e>> : <<a, b, c, e>>[k] = "ok"
  BY <1>2, <1>3, FirstCodeResult
<1>5. (\A k \in DOMAIN <<a, b, c, e>> : <<a, b, c, e>>[k] = "ok")
        => a = "ok" /\ b = "ok" /\ e = "ok"
  OBVIOUS
<1>. QED
  BY <1>1, <1>4, <1>5

LEMMA DatasetResult ==
  ASSUME NEW d
  PROVE  /\ Definition!DatasetCode(d) \in RefusalCodes
         /\ Definition!DatasetCode(d) = "ok" =>
              d.dataset \notin {Unset, Definition!Blank}
BY DEF Definition!DatasetCode, Definition!Code, RefusalCodes

LEMMA SqlServerResult ==
  ASSUME NEW d
  PROVE  /\ Definition!SqlServerCode(d) \in RefusalCodes
         /\ Definition!SqlServerCode(d) = "ok" =>
              /\ d.dataset \notin {Unset, Definition!Blank, "dotted"}
              /\ d.destination.password_env \in Environment
<1> DEFINE block == d.destination
           a == Definition!Code({block.host, block.database, block.user,
                                 block.password_env}
                                  \intersect {Unset, Definition!Blank} # {},
                                "invalid_destination_config")
           b == Definition!Code(block.encryption \notin {Unset, "required", "optional"},
                                "invalid_destination_config")
           c == Definition!Code(block.schema \in {Definition!Blank, "dotted"},
                                "invalid_destination_config")
           e == Definition!DatasetCode(d)
           f == Definition!Code(d.dataset = "dotted", "invalid_dataset_name")
           g == Definition!Code(block.password_env \notin Environment,
                                "unresolved_credential_reference")
<1>1. /\ a \in RefusalCodes /\ b \in RefusalCodes /\ c \in RefusalCodes
      /\ e \in RefusalCodes /\ f \in RefusalCodes /\ g \in RefusalCodes
      /\ e = "ok" => d.dataset \notin {Unset, Definition!Blank}
      /\ f = "ok" => d.dataset # "dotted"
      /\ g = "ok" => block.password_env \in Environment
  BY DatasetResult DEF Definition!Code, RefusalCodes
<1>2. Definition!SqlServerCode(d) = Definition!FirstCode(<<a, b, c, e, f, g>>)
  BY DEF Definition!SqlServerCode
<1> HIDE DEF a, b, c, e, f, g
<1>3. <<a, b, c, e, f, g>> \in Seq(RefusalCodes) /\ "ok" \in RefusalCodes
  BY <1>1 DEF RefusalCodes
<1>4. /\ Definition!SqlServerCode(d) \in RefusalCodes
      /\ Definition!SqlServerCode(d) = "ok" =>
           \A k \in DOMAIN <<a, b, c, e, f, g>> : <<a, b, c, e, f, g>>[k] = "ok"
  BY <1>2, <1>3, FirstCodeResult
<1>5. (\A k \in DOMAIN <<a, b, c, e, f, g>> : <<a, b, c, e, f, g>>[k] = "ok")
        => e = "ok" /\ f = "ok" /\ g = "ok"
  OBVIOUS
<1>. QED
  BY <1>1, <1>4, <1>5

LEMMA DestinationResult ==
  ASSUME NEW d
  PROVE  /\ Definition!DestinationCode(d) \in RefusalCodes
         /\ Definition!DestinationCode(d) = "ok" /\ d.destination # Unset =>
              /\ d.destination.connector \in {"parquet", "duckdb", "sqlserver"}
              /\ d.destination.connector = "duckdb" =>
                   Definition!DatasetCode(d) = "ok"
              /\ d.destination.connector = "sqlserver" =>
                   Definition!SqlServerCode(d) = "ok"
<1>1. /\ "ok" \in RefusalCodes
      /\ "unsupported_destination_connector" \in RefusalCodes
      /\ "unsupported_destination_connector" # "ok"
  BY DEF RefusalCodes
<1>2. CASE d.destination = Unset
  BY <1>1, <1>2, Zenon DEF Definition!DestinationCode
<1>3. CASE d.destination # Unset /\ d.destination.connector = "parquet"
  <2>1. Definition!DestinationCode(d) = "ok"
    BY <1>3, Zenon DEF Definition!DestinationCode
  <2>. QED
    BY <1>1, <1>3, <2>1
<1>4. CASE d.destination # Unset /\ d.destination.connector = "duckdb"
  <2>1. Definition!DestinationCode(d) = Definition!DatasetCode(d)
    BY <1>4, Zenon DEF Definition!DestinationCode
  <2>. QED
    BY <1>4, <2>1, DatasetResult
<1>5. CASE d.destination # Unset /\ d.destination.connector = "sqlserver"
  <2>1. Definition!DestinationCode(d) = Definition!SqlServerCode(d)
    BY <1>5, Zenon DEF Definition!DestinationCode
  <2>. QED
    BY <1>5, <2>1, SqlServerResult
<1>6. CASE /\ d.destination # Unset
           /\ d.destination.connector \notin {"parquet", "duckdb", "sqlserver"}
  <2>1. /\ ~(d.destination.connector = "parquet")
        /\ ~(d.destination.connector = "duckdb")
        /\ ~(d.destination.connector = "sqlserver")
    BY <1>6
  <2>2. Definition!DestinationCode(d) = "unsupported_destination_connector"
    BY <1>6, <2>1, Zenon DEF Definition!DestinationCode
  <2>. QED
    BY <1>1, <2>2
<1>. QED
  BY <1>2, <1>3, <1>4, <1>5, <1>6

\* No entry names a field an earlier one names.
Distinct(overrides) ==
  \A i, j \in DOMAIN overrides : overrides[i].name = overrides[j].name => i = j

LEMMA EntryResult ==
  ASSUME NEW overrides, NEW k
  PROVE  /\ Definition!EntryCode(overrides, k) \in RefusalCodes
         /\ Definition!EntryCode(overrides, k) = "ok" =>
              \A j \in 1 .. k - 1 : overrides[j].name # overrides[k].name
<1> DEFINE a == Definition!Code(\E j \in 1 .. k - 1 : overrides[j].name = overrides[k].name,
                                "invalid_schema_config")
           b == Definition!Code(~overrides[k].type.ok /\ ~overrides[k].nullable.ok,
                                "invalid_schema_config")
           c == Definition!Code(overrides[k].type.ok
                                  /\ ~Definition!KnownType(overrides[k].type.value),
                                "unsupported_override_type")
<1>1. /\ a \in RefusalCodes /\ b \in RefusalCodes /\ c \in RefusalCodes
      /\ a = "ok" => ~(\E j \in 1 .. k - 1 : overrides[j].name = overrides[k].name)
  BY DEF Definition!Code, RefusalCodes
<1>2. Definition!EntryCode(overrides, k) = Definition!FirstCode(<<a, b, c>>)
  BY DEF Definition!EntryCode
<1> HIDE DEF a, b, c
<1>3. <<a, b, c>> \in Seq(RefusalCodes) /\ "ok" \in RefusalCodes
  BY <1>1 DEF RefusalCodes
<1>4. /\ Definition!EntryCode(overrides, k) \in RefusalCodes
      /\ Definition!EntryCode(overrides, k) = "ok" =>
           \A n \in DOMAIN <<a, b, c>> : <<a, b, c>>[n] = "ok"
  BY <1>2, <1>3, FirstCodeResult
<1>5. (\A n \in DOMAIN <<a, b, c>> : <<a, b, c>>[n] = "ok") => a = "ok"
  OBVIOUS
<1>. QED
  BY <1>1, <1>4, <1>5

LEMMA OverridesResult ==
  ASSUME NEW overrides, IsList(overrides)
  PROVE  /\ Definition!OverridesCode(overrides) \in RefusalCodes
         /\ Definition!OverridesCode(overrides) = "ok" => Distinct(overrides)
<1> DEFINE codes == [k \in DOMAIN overrides |-> Definition!EntryCode(overrides, k)]
           size == Len(overrides)
<1>1. size \in Nat /\ DOMAIN overrides = 1 .. size
  BY DEF IsList
<1>2. \A k \in DOMAIN overrides :
        /\ codes[k] = Definition!EntryCode(overrides, k)
        /\ codes[k] \in RefusalCodes
        /\ codes[k] = "ok" =>
             \A j \in 1 .. k - 1 : overrides[j].name # overrides[k].name
  BY EntryResult
<1>3. Definition!OverridesCode(overrides) = Definition!FirstCode(codes)
  BY DEF Definition!OverridesCode
<1>4. DOMAIN codes = 1 .. size /\ codes = [k \in 1 .. size |-> codes[k]]
  BY <1>1
<1> HIDE DEF codes, size
<1>5. codes \in Seq(RefusalCodes) /\ "ok" \in RefusalCodes
  BY <1>1, <1>2, <1>4 DEF RefusalCodes
<1>6. Definition!FirstCode(codes) \in RefusalCodes
  BY <1>5, FirstCodeResult
<1>7. ASSUME Definition!FirstCode(codes) = "ok" PROVE Distinct(overrides)
  <2>1. \A k \in 1 .. size : codes[k] = "ok"
    BY <1>4, <1>5, <1>7, FirstCodeResult
  <2>2. ASSUME NEW i \in 1 .. size, NEW j \in 1 .. size, i < j
        PROVE  overrides[i].name # overrides[j].name
    BY <1>1, <1>2, <2>1, <2>2
  <2>. QED
    BY <1>1, <2>2 DEF Distinct
<1>. QED
  BY <1>3, <1>6, <1>7

LEMMA BlockResult ==
  ASSUME NEW block, IsList(Definition!OrEmpty(block.overrides))
  PROVE  /\ Definition!BlockCode(block) \in RefusalCodes
         /\ Definition!BlockCode(block) = "ok" =>
              /\ block.policy \in {Unset, "fail", "allow_additive_nullable"}
              /\ Distinct(Definition!OrEmpty(block.overrides))
<1> DEFINE a == Definition!Code(block.path = Definition!Blank \/ block.overrides = <<>>,
                                "invalid_schema_config")
           b == Definition!Code(block.path = Unset
                                  /\ (block.policy # Unset \/ block.overrides = Unset),
                                "invalid_schema_config")
           c == Definition!Code(block.policy \notin
                                  {Unset, "fail", "allow_additive_nullable"},
                                "unsupported_drift_policy")
           e == Definition!OverridesCode(Definition!OrEmpty(block.overrides))
<1>1. /\ a \in RefusalCodes /\ b \in RefusalCodes /\ c \in RefusalCodes
      /\ e \in RefusalCodes
      /\ c = "ok" => block.policy \in {Unset, "fail", "allow_additive_nullable"}
      /\ e = "ok" => Distinct(Definition!OrEmpty(block.overrides))
  BY OverridesResult DEF Definition!Code, RefusalCodes
<1>2. Definition!BlockCode(block) = Definition!FirstCode(<<a, b, c, e>>)
  BY DEF Definition!BlockCode
<1> HIDE DEF a, b, c, e
<1>3. <<a, b, c, e>> \in Seq(RefusalCodes) /\ "ok" \in RefusalCodes
  BY <1>1 DEF RefusalCodes
<1>4. /\ Definition!BlockCode(block) \in RefusalCodes
      /\ Definition!BlockCode(block) = "ok" =>
           \A k \in DOMAIN <<a, b, c, e>> : <<a, b, c, e>>[k] = "ok"
  BY <1>2, <1>3, FirstCodeResult
<1>5. (\A k \in DOMAIN <<a, b, c, e>> : <<a, b, c, e>>[k] = "ok")
        => c = "ok" /\ e = "ok"
  OBVIOUS
<1>. QED
  BY <1>1, <1>4, <1>5

LEMMA SchemaResult ==
  ASSUME NEW transform, NEW block, NEW format,
         block # Unset => IsList(Definition!OrEmpty(block.overrides))
  PROVE  /\ Definition!SchemaCode(transform, block, format) \in RefusalCodes
         /\ Definition!SchemaCode(transform, block, format) = "ok" =>
              /\ transform # Unset => Definition!TransformValid(transform, format)
              /\ block # Unset => Definition!BlockCode(block) = "ok"
<1> DEFINE a == Definition!Code(transform # Unset
                                  /\ ~Definition!TransformValid(transform, format),
                                "invalid_transform_config")
           b == IF block = Unset THEN "ok" ELSE Definition!BlockCode(block)
<1>1. /\ a \in RefusalCodes /\ b \in RefusalCodes
      /\ a = "ok" =>
           ~(transform # Unset /\ ~Definition!TransformValid(transform, format))
      /\ b = "ok" => (block # Unset => Definition!BlockCode(block) = "ok")
  BY BlockResult DEF Definition!Code, RefusalCodes
<1>2. Definition!SchemaCode(transform, block, format) = Definition!FirstCode(<<a, b>>)
  BY DEF Definition!SchemaCode
<1> HIDE DEF a, b
<1>3. <<a, b>> \in Seq(RefusalCodes) /\ "ok" \in RefusalCodes
  BY <1>1 DEF RefusalCodes
<1>4. /\ Definition!SchemaCode(transform, block, format) \in RefusalCodes
      /\ Definition!SchemaCode(transform, block, format) = "ok" =>
           \A k \in DOMAIN <<a, b>> : <<a, b>>[k] = "ok"
  BY <1>2, <1>3, FirstCodeResult
<1>5. (\A k \in DOMAIN <<a, b>> : <<a, b>>[k] = "ok") => a = "ok" /\ b = "ok"
  OBVIOUS
<1>. QED
  BY <1>1, <1>4, <1>5

\* The whole phase: the code is one it has, and ok means every check passed.
LEMMA DefinitionResult ==
  ASSUME NEW d \in Definitions
  PROVE  /\ Definition!DefinitionCode(d) \in RefusalCodes
         /\ Definition!DefinitionCode(d) = "ok" =>
              /\ Definition!VersionCode(d) = "ok" /\ Definition!PresenceCode(d) = "ok"
              /\ Definition!MergeCode(d) = "ok" /\ Definition!DestinationCode(d) = "ok"
              /\ Definition!SupportCode(d) = "ok"
              /\ d.source # Unset =>
                   Definition!SchemaCode(d.transform, d.schema,
                                         Definition!SourceFormat(d)) = "ok"
<1> DEFINE a == Definition!TextCode(d)
           b == Definition!VersionCode(d)
           c == Definition!PresenceCode(d)
           e == Definition!LoadModeCode(d)
           f == Definition!MergeCode(d)
           g == Definition!SourceCode(d)
           h == Definition!DestinationCode(d)
           i == Definition!SupportCode(d)
           s == IF d.source = Unset THEN "ok"
                ELSE Definition!SchemaCode(d.transform, d.schema,
                                           Definition!SourceFormat(d))
           codes == <<a, b, c, e, f, g, h, i, s>>
<1>1. "ok" \in RefusalCodes
  BY DEF RefusalCodes
<1>2. /\ a \in RefusalCodes /\ b \in RefusalCodes /\ c \in RefusalCodes
      /\ e \in RefusalCodes /\ g \in RefusalCodes /\ i \in RefusalCodes
  BY TextCodes
<1>3. f \in RefusalCodes /\ h \in RefusalCodes
  BY MergeResult, DestinationResult
<1>4. s \in RefusalCodes
  BY <1>1, SchemaResult, LoadAssumption
<1>5. Definition!DefinitionCode(d) = Definition!FirstCode(codes)
  BY DEF Definition!DefinitionCode
<1>6. s = "ok" /\ d.source # Unset =>
        Definition!SchemaCode(d.transform, d.schema, Definition!SourceFormat(d)) = "ok"
  OBVIOUS
<1> HIDE DEF a, b, c, e, f, g, h, i, s
<1>7. codes \in Seq(RefusalCodes)
  BY <1>2, <1>3, <1>4
<1>8. (\A k \in DOMAIN codes : codes[k] = "ok") =>
        b = "ok" /\ c = "ok" /\ f = "ok" /\ h = "ok" /\ i = "ok" /\ s = "ok"
  OBVIOUS
<1> HIDE DEF codes
<1>9. /\ Definition!DefinitionCode(d) \in RefusalCodes
      /\ Definition!DefinitionCode(d) = "ok" => \A k \in DOMAIN codes : codes[k] = "ok"
  BY <1>1, <1>5, <1>7, FirstCodeResult
<1>. QED
  BY <1>6, <1>8, <1>9 DEF b, c, f, h, i

LEMMA DistinctCardinality ==
  ASSUME NEW list, IsList(list), IsInjective(list)
  PROVE  Cardinality(Range(list)) = Len(list)
<1> DEFINE size == Len(list)
           f == [k \in 1 .. size |-> list[k]]
           S == Range(list)
<1>1. size \in Nat /\ DOMAIN list = 1 .. size
  BY DEF IsList
<1>2. \A k \in 1 .. size : f[k] = list[k] /\ list[k] \in S
  BY <1>1 DEF Range
<1>3. \A x \in S : \E k \in 1 .. size : list[k] = x
  BY <1>1 DEF Range
<1>4. \A j, k \in 1 .. size : list[j] = list[k] => j = k
  BY <1>1 DEF IsInjective
<1>5. f \in [1 .. size -> S]
  BY <1>2
<1> HIDE DEF f, S, size
<1>6. f \in Bijection(1 .. size, S)
  BY <1>2, <1>3, <1>4, <1>5 DEF Bijection, Injection, Surjection, IsInjective
<1>7. IsFiniteSet(1 .. size) /\ Cardinality(1 .. size) = size
  BY <1>1, FS_Interval
<1>8. ExistsBijection(1 .. size, S)
  BY <1>6 DEF ExistsBijection
<1>. QED
  BY <1>7, <1>8, FS_Bijection DEF S, size

\* What the phase and the read accept is sound.
LEMMA AcceptedSound ==
  ASSUME definition \in Definitions, Accepted
  PROVE  Sound(definition)
<1> DEFINE d == definition
           connector == d.destination.connector
           format == Definition!SourceFormat(d)
<1>1. /\ Definition!DefinitionCode(d) = "ok" /\ format \in {"csv", "jsonl"}
      /\ Mode = Definition!LoadMode(d)
  BY DEF Accepted, Refusal, Definition!FormatSupported, Mode
<1>2. /\ Definition!VersionCode(d) = "ok" /\ Definition!PresenceCode(d) = "ok"
      /\ Definition!MergeCode(d) = "ok" /\ Definition!DestinationCode(d) = "ok"
      /\ Definition!SupportCode(d) = "ok"
      /\ d.source # Unset =>
           Definition!SchemaCode(d.transform, d.schema, format) = "ok"
  BY <1>1, DefinitionResult
<1>3. d.version = 1
  <2>1. Definition!Code(d.version # 1, "unsupported_load_definition_version") = "ok"
    <3> DEFINE a == Definition!Code(d.version = Unset, "missing_load_definition_version")
               b == Definition!Code(d.version # 1, "unsupported_load_definition_version")
    <3>1. Definition!VersionCode(d) = Definition!FirstCode(<<a, b>>)
      BY DEF Definition!VersionCode
    <3>2. a \in RefusalCodes /\ b \in RefusalCodes
      BY DEF Definition!Code, RefusalCodes
    <3> HIDE DEF a, b
    <3>3. <<a, b>> \in Seq(RefusalCodes)
      BY <3>2
    <3>4. \A k \in DOMAIN <<a, b>> : <<a, b>>[k] = "ok"
      BY <1>2, <3>1, <3>3, FirstCodeResult
    <3>5. b = "ok"
      BY <3>4
    <3>. QED
      BY <3>5 DEF b
  <2>. QED
    BY <2>1 DEF Definition!Code
<1>4. d.source # Unset /\ d.destination # Unset
  <2> DEFINE a == Definition!Code(d.source = Unset, "missing_source")
             b == Definition!Code(d.destination = Unset, "missing_destination")
  <2>1. Definition!PresenceCode(d) = Definition!FirstCode(<<a, b>>)
    BY DEF Definition!PresenceCode
  <2>2. /\ a \in RefusalCodes /\ b \in RefusalCodes
        /\ a = "ok" => d.source # Unset
        /\ b = "ok" => d.destination # Unset
    BY DEF Definition!Code, RefusalCodes
  <2> HIDE DEF a, b
  <2>3. <<a, b>> \in Seq(RefusalCodes)
    BY <2>2
  <2>4. \A k \in DOMAIN <<a, b>> : <<a, b>>[k] = "ok"
    BY <1>2, <2>1, <2>3, FirstCodeResult
  <2>5. a = "ok" /\ b = "ok"
    BY <2>4
  <2>. QED
    BY <2>2, <2>5
<1>5. IF Mode = "merge"
        THEN connector # "parquet" /\ Cardinality(Range(d.merge)) = Len(d.merge)
        ELSE d.merge = Unset
  <2>1. /\ Mode = "merge" <=> d.merge # Unset
        /\ Definition!IsInjective(Definition!OrEmpty(d.merge))
    BY <1>1, <1>2, MergeResult
  <2>2. Mode \in Definition!SupportedModes(connector)
    BY <1>1, <1>2, <1>4 DEF Definition!SupportCode, Definition!Code
  <2>3. ASSUME Mode = "merge" PROVE connector # "parquet"
    BY <2>2, <2>3 DEF Definition!SupportedModes
  <2>4. ASSUME Mode = "merge" PROVE Cardinality(Range(d.merge)) = Len(d.merge)
    <3>1. Definition!OrEmpty(d.merge) = d.merge
      BY <2>1, <2>4 DEF Definition!OrEmpty
    <3>2. IsInjective(d.merge) /\ Len(d.merge) \in Nat /\ DOMAIN d.merge = 1 .. Len(d.merge)
      BY <2>1, <3>1, LoadAssumption DEF IsList, IsInjective, Definition!IsInjective
    <3>. QED
      BY <3>2, DistinctCardinality DEF IsList
  <2>. QED
    BY <2>1, <2>3, <2>4
<1>6. /\ connector # "parquet" => d.dataset \in {"plain", "dotted"}
      /\ connector = "sqlserver" =>
           d.dataset = "plain" /\ d.destination.password_env \in Environment
  BY <1>2, <1>4, DestinationResult, DatasetResult, SqlServerResult, LoadAssumption
<1>7. Definition!SchemaCode(d.transform, d.schema, format) = "ok"
  BY <1>2, <1>4
<1>8. d.transform # Unset /\ d.transform.flatten # Unset => format = "jsonl"
  <2>1. d.transform # Unset => Definition!TransformValid(d.transform, format)
    BY <1>7, SchemaResult, LoadAssumption
  <2>. QED
    BY <1>1, <2>1 DEF Definition!TransformValid, Definition!FlattenValid
<1>9. d.schema.overrides # Unset => Distinct(d.schema.overrides)
  <2>1. d.schema # Unset
    BY <1>1, LoadAssumption
  <2>2. Distinct(Definition!OrEmpty(d.schema.overrides))
    BY <1>7, <2>1, SchemaResult, BlockResult, LoadAssumption
  <2>. QED
    BY <2>2 DEF Definition!OrEmpty
<1>10. format = (IF d.source.format = Unset THEN d.source.extension
                 ELSE d.source.format)
  BY DEF Definition!SourceFormat, Definition!Given
<1>. QED
  BY <1>1, <1>3, <1>5, <1>6, <1>8, <1>9, <1>10 DEF Sound, Distinct

-----------------------------------------------------------------------------
(* The fields of a source at some of its places, in source order.          *)

LEMMA FieldsAtResult ==
  ASSUME NEW S, NEW shape \in Seq(S), NEW places \in SUBSET DOMAIN shape
  PROVE  /\ FieldsAt(shape, places) \in Seq(S)
         /\ Len(FieldsAt(shape, places)) = Cardinality(places)
         /\ Range(FieldsAt(shape, places)) = { shape[k] : k \in places }
         /\ IsInjective(shape) => IsInjective(FieldsAt(shape, places))
<1> DEFINE below(k) == { j \in places : j <= k }
           rank == [k \in places |-> Cardinality(below(k))]
           at(n) == CHOOSE k \in places : Cardinality(below(k)) = n
           size == Cardinality(places)
<1>1. /\ places \subseteq 1 .. Len(shape) /\ Len(shape) \in Nat
      /\ IsFiniteSet(places) /\ size \in Nat
  <2>1. places \subseteq 1 .. Len(shape) /\ Len(shape) \in Nat
    OBVIOUS
  <2>2. IsFiniteSet(1 .. Len(shape))
    BY <2>1, FS_Interval
  <2>3. IsFiniteSet(places)
    BY <2>1, <2>2, FS_Subset
  <2>. QED
    BY <2>1, <2>3, FS_CardinalityType
<1>2. ASSUME NEW k \in places
      PROVE  IsFiniteSet(below(k)) /\ Cardinality(below(k)) \in 1 .. size
  <2>1. below(k) \subseteq places /\ k \in below(k)
    BY <1>1
  <2>2. IsFiniteSet(below(k)) /\ Cardinality(below(k)) <= size
    BY <1>1, <2>1, FS_Subset
  <2>3. Cardinality(below(k)) \in Nat /\ Cardinality(below(k)) # 0
    BY <2>1, <2>2, FS_CardinalityType, FS_EmptySet
  <2>. HIDE DEF below
  <2>. QED
    BY <1>1, <2>2, <2>3
<1>3. ASSUME NEW j \in places, NEW k \in places, j < k
      PROVE  Cardinality(below(j)) # Cardinality(below(k))
  <2>1. below(j) \subseteq below(k) /\ k \in below(k) /\ k \notin below(j)
    BY <1>1, <1>3
  <2>. QED
    BY <1>2, <2>1, FS_Subset
<1>4. /\ rank \in [places -> 1 .. size]
      /\ \A j, k \in places : rank[j] = rank[k] => j = k
  <2>1. rank \in [places -> 1 .. size]
    BY <1>2
  <2>2. ASSUME NEW j \in places, NEW k \in places, rank[j] = rank[k] PROVE j = k
    <3>1. Cardinality(below(j)) = Cardinality(below(k))
      BY <2>2
    <3>2. ~(j < k) /\ ~(k < j)
      BY <1>3, <3>1
    <3>. QED
      BY <1>1, <3>2
  <2>. QED
    BY <2>1, <2>2
<1>5. \A n \in 1 .. size : \E k \in places : rank[k] = n
  <2>. HIDE DEF rank
  <2>. QED
    BY <1>1, <1>4, Ranking
<1>6. ASSUME NEW n \in 1 .. size PROVE at(n) \in places /\ Cardinality(below(at(n))) = n
  <2>1. \E k \in places : Cardinality(below(k)) = n
    BY <1>5
  <2>. HIDE DEF below
  <2>. QED
    BY <2>1
<1>7. FieldsAt(shape, places) = [n \in 1 .. size |-> shape[at(n)]]
  BY DEF FieldsAt
<1>8. ASSUME NEW k \in places PROVE at(rank[k]) = k /\ rank[k] \in 1 .. size
  <2>1. rank[k] \in 1 .. size
    BY <1>2
  <2>2. at(rank[k]) \in places /\ rank[at(rank[k])] = rank[k]
    BY <1>6, <2>1
  <2>. HIDE DEF rank, at
  <2>. QED
    BY <1>4, <2>1, <2>2
<1> HIDE DEF rank, at, size, below
<1>9. FieldsAt(shape, places) \in Seq(S) /\ Len(FieldsAt(shape, places)) = size
  BY <1>1, <1>6, <1>7
<1>10. Range(FieldsAt(shape, places)) = { shape[k] : k \in places }
  <2>1. ASSUME NEW k \in places PROVE shape[k] \in Range(FieldsAt(shape, places))
    BY <1>7, <1>8 DEF Range
  <2>2. ASSUME NEW f \in Range(FieldsAt(shape, places))
        PROVE  f \in { shape[k] : k \in places }
    BY <1>6, <1>7 DEF Range
  <2>. QED
    BY <2>1, <2>2
<1>11. ASSUME IsInjective(shape) PROVE IsInjective(FieldsAt(shape, places))
  BY <1>1, <1>6, <1>7, <1>11 DEF IsInjective
<1>. QED
  BY <1>9, <1>10, <1>11 DEF size

\* Columns are sequences of fields, and so is what a pin and a source plan.
LEMMA ShapeType == ASSUME NEW shape \in Shapes PROVE shape \in Seq(Fields)
<1>1. PICK n \in 0 .. MaxWidth : shape \in [1 .. n -> Fields]
  BY DEF Shapes, Columns
<1>. QED
  BY <1>1, LoadAssumption

LEMMA AddedType ==
  ASSUME NEW file \in Files, NEW shape \in Seq(Fields)
  PROVE  /\ Added(file, shape) \in Seq(Fields)
         /\ Range(Added(file, shape)) = Range(shape) \ Range(file.fields)
         /\ IsInjective(shape) => IsInjective(Added(file, shape))
<1>1. Unpinned(file, shape) \in SUBSET DOMAIN shape
  BY DEF Unpinned
<1>2. { shape[k] : k \in Unpinned(file, shape) } = Range(shape) \ Range(file.fields)
  BY DEF Unpinned, Range
<1>. QED
  BY <1>1, <1>2, FieldsAtResult DEF Added

LEMMA PlanType ==
  ASSUME NEW file \in Files, NEW shape \in Seq(Fields)
  PROVE  PlanFor(file, shape) \in Seq(Fields) /\ WritesPin(file, shape) \in BOOLEAN
<1>1. file.fields \in Seq(Fields) /\ Added(file, shape) \in Seq(Fields)
  BY AddedType DEF Files
<1>. QED
  BY <1>1 DEF PlanFor, Planned, WritesPin

LEMMA InitIInv == Init => IInv
<1> SUFFICES ASSUME Init PROVE IInv
  OBVIOUS
<1> USE DEF Init
<1>1. NoPin \in Files /\ \A s \in Shapes : PinOf(s) \in Files
  BY ShapeType DEF NoPin, PinOf, Files
<1>2. TypeOK
  <2>1. Idle \in Jobs
    BY <1>1 DEF Idle, Jobs
  <2>2. Pending \in Results
    BY DEF Pending, Results, Codes
  <2>3. pin \in Files
    BY <1>1
  <2>4. /\ job \in [Loads -> Jobs] /\ result \in [Loads -> Results]
        /\ pc \in [Loads -> Stands] /\ done \in [Loads -> Nat]
    BY <2>1, <2>2 DEF Stands
  <2>5. definition \in Definitions /\ overlapped \in BOOLEAN
    OBVIOUS
  <2>6. tears \in Nat /\ commits \in Seq(Commits) /\ report \subseteq Loads
    OBVIOUS
  <2>. QED
    BY <2>3, <2>4, <2>5, <2>6 DEF TypeOK
<1>3. \A l \in Loads : LandedBy(l) = {}
  BY DEF LandedBy
<1>4. AcceptedInv
  BY DEF AcceptedInv, Idle
<1>5. StandInv
  BY <1>3 DEF StandInv, Idle
<1>6. CountInv
  BY <1>3, FS_EmptySet DEF CountInv
<1>7. ResultInv
  BY DEF ResultInv
<1>8. PlanInv
  BY DEF PlanInv, Idle, NoPin
<1>9. PinInv
  BY DEF PinInv, Live, Gone, Kept
<1>10. ColumnsGrowOnly
  BY DEF ColumnsGrowOnly
<1>. QED
  BY <1>2, <1>4, <1>5, <1>6, <1>7, <1>8, <1>9, <1>10 DEF IInv

-----------------------------------------------------------------------------
(* Types.                                                                  *)

LEMMA NotStartedType ==
  ASSUME TypeOK, NEW l \in Loads, NEW code \in Codes, NotStarted(l, code)
  PROVE  result' \in [Loads -> Results]
<1>1. job[l].writes \in BOOLEAN
  BY Zenon DEF TypeOK, Jobs
<1>2. [code |-> code, posture |-> "not_started", committed |-> 0,
       claimsPin |-> job[l].writes] \in Results
  BY <1>1 DEF Results
<1>. QED
  BY <1>2 DEF NotStarted, TypeOK

LEMMA StartsType ==
  ASSUME TypeOK, NEW l \in Loads, Starts(l)
  PROVE  overlapped' \in BOOLEAN
BY Zenon DEF Starts, TypeOK

LEMMA NextTypeOK == TypeOK /\ [Next]_vars => TypeOK'
<1> SUFFICES ASSUME TypeOK, [Next]_vars PROVE TypeOK'
  OBVIOUS
<1> USE DEF setting
<1>0. {"pending", "succeeded", "pinned_schema_read_failed", "invalid_pinned_schema",
       "unsupported_source_format", "schema_drift", "reject_threshold_exceeded",
       "source_read_failed", "pinned_schema_write_failed", "destination_write_failed"}
        \subseteq Codes
  BY DEF Codes
<1>1. ASSUME NEW l \in Loads, BrokenDefinition(l) PROVE TypeOK'
  <2>1. Refusal \in Codes
    BY DefinitionResult DEF Codes, Refusal, TypeOK
  <2>. QED
    BY <1>1, <2>1, NotStartedType, StartsType
    DEF BrokenDefinition, TypeOK, Stands
<1>2. ASSUME NEW l \in Loads, ReadPin(l) PROVE TypeOK'
  <2>1. job' \in [Loads -> Jobs]
    BY <1>2 DEF ReadPin, TypeOK, Jobs
  <2>. QED
    BY <1>2, <2>1, StartsType DEF ReadPin, TypeOK, Stands
<1>3. ASSUME NEW l \in Loads, PinUnusable(l) PROVE TypeOK'
  <2>1. (IF Parses(pin) THEN "pinned_schema_read_failed"
                        ELSE "invalid_pinned_schema") \in Codes
    BY <1>0
  <2>. QED
    BY <1>3, <2>1, NotStartedType, StartsType DEF PinUnusable, TypeOK, Stands
<1>4. ASSUME NEW l \in Loads, FormatUnsupported(l) PROVE TypeOK'
  BY <1>0, <1>4, NotStartedType DEF FormatUnsupported, TypeOK, Stands
<1>5. ASSUME NEW l \in Loads, Resolve(l) PROVE TypeOK'
  <2>1. PICK shape \in Shapes, misfits, rejected \in 0 .. MaxRejected,
             poisoned \in BOOLEAN,
             total \in 1 .. MaxChunks :
          /\ SourceOf(l, shape, misfits, rejected, poisoned)
          /\ poisoned => misfits > 0
          /\ Resolves(job[l].directive, shape)
          /\ pc' = [pc EXCEPT ![l] = "gate"]
          /\ job' = [job EXCEPT ![l] =
               Decided(l, Observed(l, shape, misfits, rejected, poisoned), total)]
          /\ UNCHANGED <<setting, pin, tears, commits, done, result, report>>
    BY <1>5, Zenon DEF Resolve
  <2>2. job[l] \in Jobs /\ job[l].directive \in Files /\ shape \in Seq(Fields)
    BY ShapeType DEF TypeOK, Jobs
  <2>3. /\ PlanFor(job[l].directive, shape) \in Seq(Fields)
        /\ WritesPin(job[l].directive, shape) \in BOOLEAN
        /\ misfits \in Nat /\ rejected \in Nat /\ total \in Nat
    BY <2>2, PlanType, LoadAssumption
  <2>4. job' \in [Loads -> Jobs]
    BY <2>1, <2>2, <2>3 DEF Observed, Decided, TypeOK, Jobs
  <2>. QED
    BY <1>5, <2>4 DEF Resolve, TypeOK, Stands
<1>6. ASSUME NEW l \in Loads, Drift(l) PROVE TypeOK'
  <2>1. PICK shape \in Shapes, misfits, rejected \in 0 .. MaxRejected,
             poisoned \in BOOLEAN :
          job' = [job EXCEPT ![l] = Observed(l, shape, misfits, rejected, poisoned)]
    BY <1>6 DEF Drift
  <2>2. shape \in Seq(Fields) /\ misfits \in Nat /\ rejected \in Nat
    BY ShapeType, LoadAssumption
  <2>3. job' \in [Loads -> Jobs]
    BY <2>1, <2>2 DEF Observed, TypeOK, Jobs
  <2>. QED
    BY <1>0, <1>6, <2>3, NotStartedType DEF Drift, TypeOK, Stands
<1>7. ASSUME NEW l \in Loads, ReadFails(l) PROVE TypeOK'
  <2>1. PICK misfits, rejected \in 0 .. MaxRejected, poisoned \in BOOLEAN :
          /\ job' = [job EXCEPT ![l] = Observed(l, <<>>, misfits, rejected, poisoned)]
          /\ NotStarted(l, IF rejected > RejectThreshold
                     THEN "reject_threshold_exceeded" ELSE "source_read_failed")
    BY <1>7 DEF ReadFails
  <2>2. misfits \in Nat /\ rejected \in Nat /\ <<>> \in Seq(Fields)
    BY LoadAssumption
  <2>3. job' \in [Loads -> Jobs]
    BY <2>1, <2>2 DEF Observed, TypeOK, Jobs
  <2>4. (IF rejected > RejectThreshold
         THEN "reject_threshold_exceeded" ELSE "source_read_failed") \in Codes
    BY <1>0
  <2>. QED
    BY <1>7, <2>1, <2>3, <2>4, NotStartedType DEF ReadFails, TypeOK, Stands
<1>8. ASSUME NEW l \in Loads, Gate(l) PROVE TypeOK'
  BY <1>0, <1>8, NotStartedType DEF Gate, AfterGate, TypeOK, Stands
<1>9. ASSUME NEW l \in Loads, PersistUnopened(l) PROVE TypeOK'
  BY <1>0, <1>9, NotStartedType DEF PersistUnopened, PersistFailed, TypeOK, Stands
<1>10. ASSUME NEW l \in Loads, PersistTruncate(l) PROVE TypeOK'
  BY <1>10 DEF PersistTruncate, PinOf, Files, TypeOK, Stands
<1>11. ASSUME NEW l \in Loads, PersistWrite(l) PROVE TypeOK'
  <2>1. PICK fields \in Overlaid(pin.fields, job[l].plan) : pin' = PinOf(fields)
    BY <1>11 DEF PersistWrite
  <2>2. pin.fields \in Seq(Fields) /\ job[l].plan \in Seq(Fields)
    BY DEF TypeOK, Files, Jobs
  <2>3. fields \in Seq(Fields)
    <3>1. CASE Len(pin.fields) <= Len(job[l].plan)
      BY <2>1, <2>2, <3>1 DEF Overlaid
    <3>2. CASE ~(Len(pin.fields) <= Len(job[l].plan))
      <4>1. SubSeq(pin.fields, Len(job[l].plan) + 1, Len(pin.fields)) \in Seq(Fields)
        BY <2>2
      <4>2. CASE fields = <<>>
        BY <4>2
      <4>3. CASE fields = job[l].plan
                       \o SubSeq(pin.fields, Len(job[l].plan) + 1, Len(pin.fields))
        BY <2>2, <4>1, <4>3
      <4>. QED
        BY <2>1, <3>2, <4>2, <4>3 DEF Overlaid
    <3>. QED
      BY <3>1, <3>2
  <2>4. pin' \in Files /\ job' \in [Loads -> Jobs]
    BY <1>11, <2>1, <2>3, ZenonT(60) DEF PersistWrite, PinOf, Files, TypeOK, Jobs
  <2>. QED
    BY <1>11, <2>4 DEF PersistWrite, TypeOK, Stands
<1>12. ASSUME NEW l \in Loads, PersistTorn(l) PROVE TypeOK'
  <2>1. PICK n \in 0 .. Len(job[l].plan) - 1 : pin' = PinOf(SubSeq(job[l].plan, 1, n))
    BY <1>12 DEF PersistTorn
  <2>2. job[l].plan \in Seq(Fields)
    BY DEF TypeOK, Jobs
  <2>3. pin' \in Files
    BY <2>1, <2>2 DEF PinOf, Files
  <2>. QED
    BY <1>0, <1>12, <2>3, NotStartedType DEF PersistTorn, PersistFailed, TypeOK, Stands
<1>13. ASSUME NEW l \in Loads, OpenFails(l) PROVE TypeOK'
  BY <1>0, <1>13, NotStartedType DEF OpenFails, TypeOK, Stands
<1>14. ASSUME NEW l \in Loads, Open(l) PROVE TypeOK'
  BY <1>14 DEF Open, TypeOK, Stands
<1>15. ASSUME NEW l \in Loads, Land(l) PROVE TypeOK'
  <2>1. [load |-> l, columns |-> job[l].plan] \in Commits
    BY DEF Commits, TypeOK, Jobs
  <2>2. done' \in [Loads -> Nat]
    BY <1>15 DEF Land, TypeOK, Jobs
  <2>. QED
    BY <1>15, <2>1, <2>2 DEF Land, TypeOK
<1>a. ASSUME NEW l \in Loads, NEW code \in Codes, InSession(l, code) PROVE TypeOK'
  <2>1. job[l].writes \in BOOLEAN
    BY Zenon DEF TypeOK, Jobs
  <2>2. [code |-> code, posture |-> "arrow_record_batch", committed |-> done[l],
         claimsPin |-> job[l].writes] \in Results
    BY <2>1 DEF Results, TypeOK
  <2>. QED
    BY <1>a, <2>2 DEF InSession, TypeOK, Stands
<1>16. ASSUME NEW l \in Loads, SessionFails(l) PROVE TypeOK'
  BY <1>0, <1>16, <1>a DEF SessionFails
<1>17. ASSUME NEW l \in Loads, SessionSucceeds(l) PROVE TypeOK'
  BY <1>0, <1>17, <1>a DEF SessionSucceeds
<1>18. ASSUME NEW l \in Loads, Report(l) PROVE TypeOK'
  BY <1>18 DEF Report, TypeOK, Stands
<1>19. ASSUME NEW l \in Loads, Crash(l) PROVE TypeOK'
  BY <1>19 DEF Crash, TypeOK, Stands
<1>20. CASE UNCHANGED vars
  BY <1>20 DEF vars, TypeOK
<1>. QED
  BY <1>1, <1>2, <1>3, <1>4, <1>5, <1>6, <1>7, <1>8, <1>9, <1>10, <1>11, <1>12,
     <1>13, <1>14, <1>15, <1>16, <1>17, <1>18, <1>19, <1>20 DEF Next

-----------------------------------------------------------------------------
(* The steps of a load.                                                    *)

\* The definition never changes, and with it what it says.
LEMMA Settled ==
  [Next]_vars =>
    /\ definition' = definition /\ Refusal' = Refusal /\ Accepted' = Accepted
    /\ Mode' = Mode /\ Policy' = Policy
<1> SUFFICES ASSUME [Next]_vars PROVE definition' = definition
  BY DEF Refusal, Accepted, Mode, Policy
<1>1. ASSUME NEW l \in Loads,
             BrokenDefinition(l) \/ ReadPin(l) \/ PinUnusable(l) \/ FormatUnsupported(l)
      PROVE  definition' = definition
  BY <1>1 DEF setting, BrokenDefinition, ReadPin, PinUnusable, FormatUnsupported
<1>2. ASSUME NEW l \in Loads, Resolve(l) \/ Drift(l) \/ ReadFails(l)
      PROVE  definition' = definition
  BY <1>2 DEF setting, Resolve, Drift, ReadFails
<1>3. ASSUME NEW l \in Loads,
             \/ Gate(l) \/ PersistUnopened(l) \/ PersistTruncate(l)
             \/ PersistWrite(l) \/ PersistTorn(l)
      PROVE  definition' = definition
  BY <1>3 DEF setting, Gate, PersistUnopened, PersistTruncate, PersistWrite,
    PersistTorn
<1>4. ASSUME NEW l \in Loads,
             \/ OpenFails(l) \/ Open(l) \/ Land(l) \/ SessionFails(l)
             \/ SessionSucceeds(l) \/ Report(l) \/ Crash(l)
      PROVE  definition' = definition
  BY <1>4 DEF setting, OpenFails, Open, Land, SessionFails, SessionSucceeds,
    InSession, Report, Crash
<1>. QED
  BY <1>1, <1>2, <1>3, <1>4 DEF Next, vars, setting

\* Overlap and torn pins are never forgotten, and only Land commits.
LEMMA Calm ==
  ASSUME TypeOK, [Next]_vars, ~overlapped', tears' = 0
  PROVE  ~overlapped /\ tears = 0
<1> USE DEF setting, TypeOK
<1>1. ASSUME NEW l \in Loads,
             BrokenDefinition(l) \/ ReadPin(l) \/ PinUnusable(l) \/ FormatUnsupported(l)
      PROVE  ~overlapped /\ tears = 0
  BY <1>1 DEF BrokenDefinition, ReadPin, PinUnusable, FormatUnsupported, Starts
<1>2. ASSUME NEW l \in Loads, Resolve(l) \/ Drift(l) \/ ReadFails(l)
      PROVE  ~overlapped /\ tears = 0
  BY <1>2 DEF Resolve, Drift, ReadFails
<1>3. ASSUME NEW l \in Loads,
             \/ Gate(l) \/ PersistUnopened(l) \/ PersistTruncate(l)
             \/ PersistWrite(l) \/ PersistTorn(l)
      PROVE  ~overlapped /\ tears = 0
  BY <1>3 DEF Gate, PersistUnopened, PersistTruncate, PersistWrite, PersistTorn
<1>4. ASSUME NEW l \in Loads,
             \/ OpenFails(l) \/ Open(l) \/ Land(l) \/ SessionFails(l)
             \/ SessionSucceeds(l) \/ Report(l) \/ Crash(l)
      PROVE  ~overlapped /\ tears = 0
  BY <1>4 DEF OpenFails, Open, Land, SessionFails, SessionSucceeds, InSession,
    Report, Crash
<1>. QED
  BY <1>1, <1>2, <1>3, <1>4 DEF Next, vars

LEMMA OnlyLandCommits ==
  ASSUME [Next]_vars
  PROVE  commits' = commits \/ \E l \in Loads : Land(l)
<1>1. ASSUME NEW l \in Loads,
             BrokenDefinition(l) \/ ReadPin(l) \/ PinUnusable(l) \/ FormatUnsupported(l)
      PROVE  commits' = commits
  BY <1>1 DEF BrokenDefinition, ReadPin, PinUnusable, FormatUnsupported
<1>2. ASSUME NEW l \in Loads, Resolve(l) \/ Drift(l) \/ ReadFails(l)
      PROVE  commits' = commits
  BY <1>2 DEF Resolve, Drift, ReadFails
<1>3. ASSUME NEW l \in Loads,
             \/ Gate(l) \/ PersistUnopened(l) \/ PersistTruncate(l)
             \/ PersistWrite(l) \/ PersistTorn(l)
      PROVE  commits' = commits
  BY <1>3 DEF Gate, PersistUnopened, PersistTruncate, PersistWrite, PersistTorn
<1>4. ASSUME NEW l \in Loads,
             \/ OpenFails(l) \/ Open(l) \/ SessionFails(l)
             \/ SessionSucceeds(l) \/ Report(l) \/ Crash(l)
      PROVE  commits' = commits
  BY <1>4 DEF OpenFails, Open, SessionFails, SessionSucceeds, InSession, Report, Crash
<1>. QED
  BY <1>1, <1>2, <1>3, <1>4 DEF Next, vars

LEMMA LandedSame == commits' = commits => \A l \in Loads : LandedBy(l)' = LandedBy(l)
BY DEF LandedBy

LEMMA AcceptedStep == TypeOK /\ AcceptedInv /\ [Next]_vars => AcceptedInv'
<1> SUFFICES ASSUME TypeOK, AcceptedInv, [Next]_vars PROVE AcceptedInv'
  OBVIOUS
<1>0. Refusal' = Refusal /\ Accepted' = Accepted
  BY Settled
<1> USE <1>0 DEF AcceptedInv, TypeOK
<1>1. ASSUME NEW l \in Loads, BrokenDefinition(l) PROVE AcceptedInv'
  BY <1>1 DEF BrokenDefinition
<1>2. ASSUME NEW l \in Loads, ReadPin(l) PROVE AcceptedInv'
  BY <1>2 DEF ReadPin, Jobs
<1>3. ASSUME NEW l \in Loads, PinUnusable(l) PROVE AcceptedInv'
  BY <1>3 DEF PinUnusable
<1>4. ASSUME NEW l \in Loads, FormatUnsupported(l) PROVE AcceptedInv'
  BY <1>4 DEF FormatUnsupported
<1>5. ASSUME NEW l \in Loads, Resolve(l) PROVE AcceptedInv'
  BY <1>5 DEF Resolve, SourceOf, Observed, Decided, Accepted, Jobs
<1>6. ASSUME NEW l \in Loads, Drift(l) PROVE AcceptedInv'
  BY <1>6 DEF Drift, Observed, Jobs
<1>7. ASSUME NEW l \in Loads, ReadFails(l) PROVE AcceptedInv'
  BY <1>7 DEF ReadFails, Observed, Jobs
<1>8. ASSUME NEW l \in Loads, Gate(l) PROVE AcceptedInv'
  BY <1>8 DEF Gate, AfterGate
<1>9. ASSUME NEW l \in Loads, PersistUnopened(l) PROVE AcceptedInv'
  BY <1>9 DEF PersistUnopened, PersistFailed
<1>10. ASSUME NEW l \in Loads, PersistTruncate(l) PROVE AcceptedInv'
  BY <1>10 DEF PersistTruncate
<1>11. ASSUME NEW l \in Loads, PersistWrite(l) PROVE AcceptedInv'
  BY <1>11 DEF PersistWrite, Jobs
<1>12. ASSUME NEW l \in Loads, PersistTorn(l) PROVE AcceptedInv'
  BY <1>12 DEF PersistTorn, PersistFailed
<1>13. ASSUME NEW l \in Loads, OpenFails(l) PROVE AcceptedInv'
  BY <1>13 DEF OpenFails
<1>14. ASSUME NEW l \in Loads, Open(l) PROVE AcceptedInv'
  BY <1>14 DEF Open
<1>15. ASSUME NEW l \in Loads, Land(l) PROVE AcceptedInv'
  BY <1>15 DEF Land
<1>16. ASSUME NEW l \in Loads, SessionFails(l) PROVE AcceptedInv'
  BY <1>16 DEF SessionFails, InSession
<1>17. ASSUME NEW l \in Loads, SessionSucceeds(l) PROVE AcceptedInv'
  BY <1>17 DEF SessionSucceeds, InSession
<1>18. ASSUME NEW l \in Loads, Report(l) PROVE AcceptedInv'
  BY <1>18 DEF Report
<1>19. ASSUME NEW l \in Loads, Crash(l) PROVE AcceptedInv'
  BY <1>19 DEF Crash
<1>20. CASE UNCHANGED vars
  BY <1>20 DEF vars
<1>. QED
  BY <1>1, <1>2, <1>3, <1>4, <1>5, <1>6, <1>7, <1>8, <1>9, <1>10, <1>11, <1>12,
     <1>13, <1>14, <1>15, <1>16, <1>17, <1>18, <1>19, <1>20 DEF Next

\* A commit is one chunk more of the load that made it, and of no other.
LEMMA LandedMore ==
  ASSUME TypeOK, NEW l \in Loads, Land(l), NEW m \in Loads
  PROVE  LandedBy(m)' = IF m = l THEN LandedBy(m) \union {Len(commits) + 1}
                        ELSE LandedBy(m)
<1> DEFINE commit == [load |-> l, columns |-> job[l].plan]
<1>1. commits \in Seq(Commits) /\ commits' = Append(commits, commit) /\ commit.load = l
  BY DEF TypeOK, Land
<1> HIDE DEF commit
<1>2. /\ DOMAIN commits' = DOMAIN commits \union {Len(commits) + 1}
      /\ \A i \in DOMAIN commits : commits'[i] = commits[i]
      /\ commits'[Len(commits) + 1] = commit
  BY <1>1
<1>. QED
  BY <1>1, <1>2 DEF LandedBy

LEMMA StandStep == TypeOK /\ StandInv /\ [Next]_vars => StandInv'
<1> SUFFICES ASSUME TypeOK, StandInv, [Next]_vars PROVE StandInv'
  OBVIOUS
<1>0. commits' = commits => \A l \in Loads : LandedBy(l)' = LandedBy(l)
  BY LandedSame
<1> USE <1>0 DEF StandInv, Tolerated, TypeOK
<1>1. ASSUME NEW l \in Loads, BrokenDefinition(l) PROVE StandInv'
  BY <1>1 DEF BrokenDefinition, Starts
<1>2. ASSUME NEW l \in Loads, ReadPin(l) PROVE StandInv'
  BY <1>2 DEF ReadPin, Starts, Jobs
<1>3. ASSUME NEW l \in Loads, PinUnusable(l) PROVE StandInv'
  BY <1>3 DEF PinUnusable, Starts
<1>4. ASSUME NEW l \in Loads, FormatUnsupported(l) PROVE StandInv'
  BY <1>4 DEF FormatUnsupported
<1>5. ASSUME NEW l \in Loads, Resolve(l) PROVE StandInv'
  <2>1. /\ pc[l] = "read" /\ pc'[l] = "gate" /\ commits' = commits
        /\ \A m \in Loads : m # l => pc'[m] = pc[m] /\ job'[m] = job[m]
    BY <1>5 DEF Resolve, SourceOf
  <2>2. /\ job'[l].persisted = job[l].persisted /\ job'[l].total > 0
        /\ job'[l].poisoned \/ job'[l].rejected = job'[l].misfits
    BY <1>5 DEF Resolve, SourceOf, Observed, Decided, Jobs
  <2>. QED
    BY <2>1, <2>2
<1>6. ASSUME NEW l \in Loads, Drift(l) PROVE StandInv'
  <2>1. /\ pc[l] = "read" /\ pc'[l] = "report" /\ commits' = commits
        /\ \A m \in Loads : m # l => pc'[m] = pc[m] /\ job'[m] = job[m]
    BY <1>6 DEF Drift, SourceOf
  <2>2. job'[l].persisted = job[l].persisted
    BY <1>6 DEF Drift, Observed, Jobs
  <2>. QED
    BY <2>1, <2>2
<1>7. ASSUME NEW l \in Loads, ReadFails(l) PROVE StandInv'
  <2>1. /\ pc[l] = "read" /\ pc'[l] = "report" /\ commits' = commits
        /\ \A m \in Loads : m # l => pc'[m] = pc[m] /\ job'[m] = job[m]
    BY <1>7 DEF ReadFails, SourceOf
  <2>2. job'[l].persisted = job[l].persisted
    BY <1>7 DEF ReadFails, Observed, Jobs
  <2>. QED
    BY <2>1, <2>2
<1>8. ASSUME NEW l \in Loads, Gate(l) PROVE StandInv'
  <2>1. pc[l] = "gate" /\ UNCHANGED <<commits, job>> /\ AfterGate(l) \in {"persist", "open"}
    BY <1>8 DEF Gate, AfterGate
  <2>2. job[l] \in Jobs /\ job[l].rejected \in Nat /\ RejectThreshold \in Nat
    BY LoadAssumption DEF Jobs
  <2>3. CASE job[l].rejected > RejectThreshold
    BY <1>8, <2>1, <2>3 DEF Gate
  <2>4. CASE job[l].rejected <= RejectThreshold
    <3>1. pc' = [pc EXCEPT ![l] = AfterGate(l)]
      BY <1>8, <2>2, <2>4 DEF Gate
    <3>2. AfterGate(l) = "open" => ~job[l].writes
      BY DEF AfterGate
    <3>. QED
      BY <2>1, <2>4, <3>1, <3>2
  <2>. QED
    BY <2>2, <2>3, <2>4
<1>9. ASSUME NEW l \in Loads, PersistUnopened(l) PROVE StandInv'
  BY <1>9 DEF PersistUnopened, PersistFailed
<1>10. ASSUME NEW l \in Loads, PersistTruncate(l) PROVE StandInv'
  BY <1>10 DEF PersistTruncate
<1>11. ASSUME NEW l \in Loads, PersistWrite(l) PROVE StandInv'
  BY <1>11 DEF PersistWrite, Jobs
<1>12. ASSUME NEW l \in Loads, PersistTorn(l) PROVE StandInv'
  BY <1>12 DEF PersistTorn, PersistFailed
<1>13. ASSUME NEW l \in Loads, OpenFails(l) PROVE StandInv'
  BY <1>13 DEF OpenFails
<1>14. ASSUME NEW l \in Loads, Open(l) PROVE StandInv'
  BY <1>14 DEF Open
<1>15. ASSUME NEW l \in Loads, Land(l) PROVE StandInv'
  <2>1. \A m \in Loads : m # l => LandedBy(m)' = LandedBy(m)
    BY <1>15, LandedMore
  <2>2. pc[l] = "session" /\ UNCHANGED <<pc, job>>
    BY <1>15 DEF Land
  <2>. QED
    BY <2>1, <2>2
<1>16. ASSUME NEW l \in Loads, SessionFails(l) PROVE StandInv'
  BY <1>16 DEF SessionFails, InSession
<1>17. ASSUME NEW l \in Loads, SessionSucceeds(l) PROVE StandInv'
  BY <1>17 DEF SessionSucceeds, InSession
<1>18. ASSUME NEW l \in Loads, Report(l) PROVE StandInv'
  BY <1>18 DEF Report
<1>19. ASSUME NEW l \in Loads, Crash(l) PROVE StandInv'
  BY <1>19 DEF Crash
<1>20. CASE UNCHANGED vars
  BY <1>20 DEF vars
<1>. QED
  BY <1>1, <1>2, <1>3, <1>4, <1>5, <1>6, <1>7, <1>8, <1>9, <1>10, <1>11, <1>12,
     <1>13, <1>14, <1>15, <1>16, <1>17, <1>18, <1>19, <1>20 DEF Next

LEMMA CountStep == TypeOK /\ StandInv /\ CountInv /\ [Next]_vars => CountInv'
<1> SUFFICES ASSUME TypeOK, StandInv, CountInv, [Next]_vars PROVE CountInv'
  OBVIOUS
<1>0. /\ commits' = commits => \A l \in Loads : LandedBy(l)' = LandedBy(l)
      /\ Mode' = Mode /\ Cardinality({}) = 0
  BY LandedSame, Settled, FS_EmptySet
<1> USE <1>0 DEF CountInv, TypeOK
<1>1. ASSUME NEW l \in Loads, BrokenDefinition(l) PROVE CountInv'
  BY <1>1 DEF BrokenDefinition, Starts
<1>2. ASSUME NEW l \in Loads, ReadPin(l) PROVE CountInv'
  BY <1>2 DEF ReadPin, Starts, Jobs
<1>3. ASSUME NEW l \in Loads, PinUnusable(l) PROVE CountInv'
  BY <1>3 DEF PinUnusable, Starts
<1>4. ASSUME NEW l \in Loads, FormatUnsupported(l) PROVE CountInv'
  BY <1>4 DEF FormatUnsupported
<1>5. ASSUME NEW l \in Loads, Resolve(l) PROVE CountInv'
  <2>1. pc[l] = "read" /\ commits' = commits /\ done' = done
    BY <1>5 DEF Resolve, SourceOf
  <2>2. \A m \in Loads : m # l => job'[m] = job[m]
    BY <1>5 DEF Resolve
  <2>. QED
    BY <2>1, <2>2 DEF StandInv
<1>6. ASSUME NEW l \in Loads, Drift(l) PROVE CountInv'
  <2>1. pc[l] = "read" /\ commits' = commits /\ done' = done
    BY <1>6 DEF Drift, SourceOf
  <2>2. \A m \in Loads : m # l => job'[m] = job[m]
    BY <1>6 DEF Drift
  <2>. QED
    BY <2>1, <2>2 DEF StandInv
<1>7. ASSUME NEW l \in Loads, ReadFails(l) PROVE CountInv'
  <2>1. pc[l] = "read" /\ commits' = commits /\ done' = done
    BY <1>7 DEF ReadFails, SourceOf
  <2>2. \A m \in Loads : m # l => job'[m] = job[m]
    BY <1>7 DEF ReadFails
  <2>. QED
    BY <2>1, <2>2 DEF StandInv
<1>8. ASSUME NEW l \in Loads, Gate(l) PROVE CountInv'
  BY <1>8 DEF Gate, AfterGate
<1>9. ASSUME NEW l \in Loads, PersistUnopened(l) PROVE CountInv'
  BY <1>9 DEF PersistUnopened, PersistFailed
<1>10. ASSUME NEW l \in Loads, PersistTruncate(l) PROVE CountInv'
  BY <1>10 DEF PersistTruncate
<1>11. ASSUME NEW l \in Loads, PersistWrite(l) PROVE CountInv'
  BY <1>11 DEF PersistWrite, Jobs
<1>12. ASSUME NEW l \in Loads, PersistTorn(l) PROVE CountInv'
  BY <1>12 DEF PersistTorn, PersistFailed
<1>13. ASSUME NEW l \in Loads, OpenFails(l) PROVE CountInv'
  BY <1>13 DEF OpenFails
<1>14. ASSUME NEW l \in Loads, Open(l) PROVE CountInv'
  BY <1>14 DEF Open
<1>15. ASSUME NEW l \in Loads, Land(l) PROVE CountInv'
  <2>1. \A m \in Loads : m # l => LandedBy(m)' = LandedBy(m) /\ done'[m] = done[m]
    BY <1>15, LandedMore DEF Land
  <2>2. LandedBy(l)' = LandedBy(l) \union {Len(commits) + 1} /\ job' = job
    BY <1>15, LandedMore DEF Land
  <2>3. Len(commits) + 1 \notin LandedBy(l) /\ IsFiniteSet(LandedBy(l))
    BY DEF LandedBy
  <2>4. /\ IsFiniteSet(LandedBy(l)')
        /\ Cardinality(LandedBy(l)') = Cardinality(LandedBy(l)) + 1
    BY <2>2, <2>3, FS_AddElement
  <2>5. done'[l] = IF Mode = "append" THEN done[l] + 1 ELSE job[l].total
    BY <1>15 DEF Land
  <2>. QED
    BY <2>1, <2>2, <2>4, <2>5
<1>16. ASSUME NEW l \in Loads, SessionFails(l) PROVE CountInv'
  BY <1>16 DEF SessionFails, InSession
<1>17. ASSUME NEW l \in Loads, SessionSucceeds(l) PROVE CountInv'
  BY <1>17 DEF SessionSucceeds, InSession
<1>18. ASSUME NEW l \in Loads, Report(l) PROVE CountInv'
  BY <1>18 DEF Report
<1>19. ASSUME NEW l \in Loads, Crash(l) PROVE CountInv'
  BY <1>19 DEF Crash
<1>20. CASE UNCHANGED vars
  BY <1>20 DEF vars
<1>. QED
  BY <1>1, <1>2, <1>3, <1>4, <1>5, <1>6, <1>7, <1>8, <1>9, <1>10, <1>11, <1>12,
     <1>13, <1>14, <1>15, <1>16, <1>17, <1>18, <1>19, <1>20 DEF Next

LEMMA ResultStep ==
  TypeOK /\ StandInv /\ CountInv /\ ResultInv /\ [Next]_vars => ResultInv'
<1> SUFFICES ASSUME TypeOK, StandInv, CountInv, ResultInv, [Next]_vars
             PROVE  ResultInv'
  OBVIOUS
<1>0. commits' = commits => \A l \in Loads : LandedBy(l)' = LandedBy(l)
  BY LandedSame
<1> USE <1>0 DEF ResultInv, Tolerated, TypeOK
<1>a. ASSUME NEW l \in Loads,
             \A m \in Loads : m # l =>
               /\ pc'[m] = pc[m] /\ job'[m] = job[m] /\ done'[m] = done[m]
               /\ result'[m] = result[m] /\ LandedBy(m)' = LandedBy(m),
             report' = report, pc[l] \notin {"report", "over"},
             pc'[l] \in {"report", "over"} =>
               /\ result'[l].posture = "not_started" /\ result'[l].committed = 0
               /\ result'[l].code # "succeeded" /\ LandedBy(l)' = {}
      PROVE  ResultInv'
  BY <1>a, SMTT(30)
<1>1. ASSUME NEW l \in Loads, BrokenDefinition(l) PROVE ResultInv'
  BY <1>1, DefinitionResult, ZenonT(60) DEF BrokenDefinition, Refusal, RefusalCodes, StandInv, Starts, NotStarted
<1>2. ASSUME NEW l \in Loads, ReadPin(l) PROVE ResultInv'
  BY <1>2, SMTT(30) DEF ReadPin, StandInv, Starts, Jobs
<1>3. ASSUME NEW l \in Loads, PinUnusable(l) PROVE ResultInv'
  BY <1>3 DEF PinUnusable, StandInv, Starts, NotStarted
<1>4. ASSUME NEW l \in Loads, FormatUnsupported(l) PROVE ResultInv'
  BY <1>4 DEF FormatUnsupported, StandInv, NotStarted
<1>5. ASSUME NEW l \in Loads, Resolve(l) PROVE ResultInv'
  <2>1. /\ pc[l] = "read" /\ LandedBy(l) = {} /\ UNCHANGED <<commits, done, report>>
        /\ \A m \in Loads : m # l =>
             pc'[m] = pc[m] /\ job'[m] = job[m] /\ result'[m] = result[m]
    BY <1>5 DEF Resolve, SourceOf, StandInv, NotStarted
  <2>2. pc'[l] = "gate"
    BY <1>5 DEF Resolve
  <2>. QED
    BY <1>0, <1>a, <2>1, <2>2
<1>6. ASSUME NEW l \in Loads, Drift(l) PROVE ResultInv'
  <2>1. /\ pc[l] = "read" /\ LandedBy(l) = {} /\ UNCHANGED <<commits, done, report>>
        /\ \A m \in Loads : m # l =>
             pc'[m] = pc[m] /\ job'[m] = job[m] /\ result'[m] = result[m]
    BY <1>6 DEF Drift, SourceOf, StandInv, NotStarted
  <2>2. /\ result'[l].posture = "not_started" /\ result'[l].committed = 0
        /\ result'[l].code # "succeeded"
    BY <1>6 DEF Drift, NotStarted
  <2>. QED
    BY <1>0, <1>a, <2>1, <2>2
<1>7. ASSUME NEW l \in Loads, ReadFails(l) PROVE ResultInv'
  <2>1. /\ pc[l] = "read" /\ LandedBy(l) = {} /\ UNCHANGED <<commits, done, report>>
        /\ \A m \in Loads : m # l =>
             pc'[m] = pc[m] /\ job'[m] = job[m] /\ result'[m] = result[m]
    BY <1>7 DEF ReadFails, SourceOf, StandInv, NotStarted
  <2>2. /\ result'[l].posture = "not_started" /\ result'[l].committed = 0
        /\ result'[l].code # "succeeded"
    BY <1>7 DEF ReadFails, NotStarted
  <2>. QED
    BY <1>0, <1>a, <2>1, <2>2
<1>8. ASSUME NEW l \in Loads, Gate(l) PROVE ResultInv'
  BY <1>8 DEF Gate, AfterGate, StandInv, NotStarted
<1>9. ASSUME NEW l \in Loads, PersistUnopened(l) PROVE ResultInv'
  BY <1>9 DEF PersistUnopened, PersistFailed, StandInv, NotStarted
<1>10. ASSUME NEW l \in Loads, PersistTruncate(l) PROVE ResultInv'
  BY <1>10 DEF PersistTruncate, StandInv
<1>11. ASSUME NEW l \in Loads, PersistWrite(l) PROVE ResultInv'
  BY <1>11 DEF PersistWrite, StandInv, Jobs
<1>12. ASSUME NEW l \in Loads, PersistTorn(l) PROVE ResultInv'
  BY <1>12 DEF PersistTorn, PersistFailed, StandInv, NotStarted
<1>13. ASSUME NEW l \in Loads, OpenFails(l) PROVE ResultInv'
  BY <1>13 DEF OpenFails, StandInv, NotStarted
<1>14. ASSUME NEW l \in Loads, Open(l) PROVE ResultInv'
  BY <1>14 DEF Open, StandInv
<1>15. ASSUME NEW l \in Loads, Land(l) PROVE ResultInv'
  <2>1. /\ pc[l] = "session" /\ UNCHANGED <<pc, job, result, report>>
        /\ \A m \in Loads : m # l =>
             LandedBy(m)' = LandedBy(m) /\ done'[m] = done[m]
    BY <1>15, LandedMore DEF Land
  <2>. QED
    BY <1>a, <2>1
<1>16. ASSUME NEW l \in Loads, SessionFails(l) PROVE ResultInv'
  BY <1>16 DEF SessionFails, InSession, StandInv
<1>17. ASSUME NEW l \in Loads, SessionSucceeds(l) PROVE ResultInv'
  BY <1>17 DEF SessionSucceeds, InSession, StandInv
<1>18. ASSUME NEW l \in Loads, Report(l) PROVE ResultInv'
  BY <1>18 DEF Report, StandInv
<1>19. ASSUME NEW l \in Loads, Crash(l) PROVE ResultInv'
  BY <1>19 DEF Crash, Live, Gone, StandInv
<1>20. CASE UNCHANGED vars
  BY <1>20 DEF vars, StandInv
<1>. QED
  BY <1>1, <1>2, <1>3, <1>4, <1>5, <1>6, <1>7, <1>8, <1>9, <1>10, <1>11, <1>12,
     <1>13, <1>14, <1>15, <1>16, <1>17, <1>18, <1>19, <1>20 DEF Next

LEMMA PlanStep == TypeOK /\ StandInv /\ PlanInv /\ [Next]_vars => PlanInv'
<1> SUFFICES ASSUME TypeOK, StandInv, PlanInv, [Next]_vars PROVE PlanInv'
  OBVIOUS
<1>0. Policy' = Policy
  BY Settled
<1> USE <1>0 DEF PlanInv, Resolves, MatchesPin, TypeOK
<1>a. ASSUME NEW l \in Loads,
             \A m \in Loads : m # l => pc'[m] = pc[m] /\ job'[m] = job[m],
             pc'[l] = "report", ~job'[l].persisted,
             job'[l].directive = job[l].directive, pc[l] = "read"
      PROVE  PlanInv'
  BY <1>a, ZenonT(60)
<1>1. ASSUME NEW l \in Loads, BrokenDefinition(l) PROVE PlanInv'
  BY <1>1 DEF BrokenDefinition, Starts
<1>2. ASSUME NEW l \in Loads, ReadPin(l) PROVE PlanInv'
  <2>1. /\ pc[l] = "idle" /\ pc' = [pc EXCEPT ![l] = "read"]
        /\ ~pin.exists \/ Parses(pin)
    BY <1>2 DEF ReadPin, Starts
  <2>2. /\ job'[l].directive = pin /\ job'[l].persisted = job[l].persisted
        /\ \A m \in Loads : m # l => job'[m] = job[m]
    BY <1>2 DEF ReadPin, Jobs
  <2>. QED
    BY <2>1, <2>2, ZenonT(60) DEF StandInv
<1>3. ASSUME NEW l \in Loads, PinUnusable(l) PROVE PlanInv'
  BY <1>3 DEF PinUnusable, Starts
<1>4. ASSUME NEW l \in Loads, FormatUnsupported(l) PROVE PlanInv'
  BY <1>4 DEF FormatUnsupported
<1>5. ASSUME NEW l \in Loads, Resolve(l) PROVE PlanInv'
  <2>1. PICK shape \in Shapes, misfits \in 0 .. MaxRejected,
             rejected \in 0 .. MaxRejected, poisoned \in BOOLEAN,
             total \in 1 .. MaxChunks :
          /\ SourceOf(l, shape, misfits, rejected, poisoned)
          /\ poisoned => misfits > 0
          /\ Resolves(job[l].directive, shape)
          /\ pc' = [pc EXCEPT ![l] = "gate"]
          /\ job' = [job EXCEPT ![l] =
               Decided(l, Observed(l, shape, misfits, rejected, poisoned), total)]
          /\ UNCHANGED <<setting, pin, tears, commits, done, result, report>>
    BY <1>5, Zenon DEF Resolve
  <2>2. /\ job'[l].shape = shape /\ job'[l].directive = job[l].directive
        /\ job'[l].plan = PlanFor(job[l].directive, shape)
        /\ job'[l].writes = WritesPin(job[l].directive, shape)
        /\ \A m \in Loads : m # l => job'[m] = job[m] /\ pc'[m] = pc[m]
        /\ pc[l] = "read" /\ pc'[l] = "gate"
    BY <2>1 DEF SourceOf, Observed, Decided, Jobs
  <2>. QED
    BY <2>1, <2>2, ZenonT(60)
<1>6. ASSUME NEW l \in Loads, Drift(l) PROVE PlanInv'
  <2>1. /\ pc[l] = "read" /\ pc'[l] = "report"
        /\ \A m \in Loads : m # l => pc'[m] = pc[m] /\ job'[m] = job[m]
    BY <1>6 DEF Drift, SourceOf
  <2>2. job'[l].directive = job[l].directive /\ job'[l].persisted = job[l].persisted
    BY <1>6 DEF Drift, Observed, Jobs
  <2>. QED
    BY <1>a, <2>1, <2>2 DEF StandInv
<1>7. ASSUME NEW l \in Loads, ReadFails(l) PROVE PlanInv'
  <2>1. /\ pc[l] = "read" /\ pc'[l] = "report"
        /\ \A m \in Loads : m # l => pc'[m] = pc[m] /\ job'[m] = job[m]
    BY <1>7 DEF ReadFails, SourceOf
  <2>2. job'[l].directive = job[l].directive /\ job'[l].persisted = job[l].persisted
    BY <1>7 DEF ReadFails, Observed, Jobs
  <2>. QED
    BY <1>a, <2>1, <2>2 DEF StandInv
<1>8. ASSUME NEW l \in Loads, Gate(l) PROVE PlanInv'
  BY <1>8 DEF Gate, AfterGate
<1>9. ASSUME NEW l \in Loads, PersistUnopened(l) PROVE PlanInv'
  BY <1>9 DEF PersistUnopened, PersistFailed
<1>10. ASSUME NEW l \in Loads, PersistTruncate(l) PROVE PlanInv'
  BY <1>10 DEF PersistTruncate
<1>11. ASSUME NEW l \in Loads, PersistWrite(l) PROVE PlanInv'
  BY <1>11 DEF PersistWrite, Jobs
<1>12. ASSUME NEW l \in Loads, PersistTorn(l) PROVE PlanInv'
  BY <1>12 DEF PersistTorn, PersistFailed
<1>13. ASSUME NEW l \in Loads, OpenFails(l) PROVE PlanInv'
  BY <1>13 DEF OpenFails
<1>14. ASSUME NEW l \in Loads, Open(l) PROVE PlanInv'
  BY <1>14 DEF Open
<1>15. ASSUME NEW l \in Loads, Land(l) PROVE PlanInv'
  BY <1>15 DEF Land
<1>16. ASSUME NEW l \in Loads, SessionFails(l) PROVE PlanInv'
  BY <1>16 DEF SessionFails, InSession
<1>17. ASSUME NEW l \in Loads, SessionSucceeds(l) PROVE PlanInv'
  BY <1>17 DEF SessionSucceeds, InSession
<1>18. ASSUME NEW l \in Loads, Report(l) PROVE PlanInv'
  BY <1>18 DEF Report
<1>19. ASSUME NEW l \in Loads, Crash(l) PROVE PlanInv'
  BY <1>19 DEF Crash, Live, Gone
<1>20. CASE UNCHANGED vars
  BY <1>20 DEF vars
<1>. QED
  BY <1>1, <1>2, <1>3, <1>4, <1>5, <1>6, <1>7, <1>8, <1>9, <1>10, <1>11, <1>12,
     <1>13, <1>14, <1>15, <1>16, <1>17, <1>18, <1>19, <1>20 DEF Next

\* A load that has nothing to write has read the pin it plans.
LEMMA PlanIsPin ==
  ASSUME NEW file \in Files, NEW shape \in Seq(Fields), ~WritesPin(file, shape)
  PROVE  file = PinOf(PlanFor(file, shape))
<1>1. file.exists /\ file.fields \in Seq(Fields) /\ Added(file, shape) = <<>>
  BY DEF WritesPin, Files
<1>2. PlanFor(file, shape) = file.fields
  BY <1>1 DEF PlanFor, Planned
<1>. QED
  BY <1>1, <1>2 DEF PinOf, Files

\* What fits the pin fits the plan made on it.
LEMMA GrowsPlan ==
  ASSUME NEW file \in Files, NEW shape \in Seq(Fields), NEW columns \in Seq(Fields),
         file.exists, Resolves(file, shape), Grows(columns, file.fields)
  PROVE  Grows(columns, PlanFor(file, shape))
<1>1. /\ file.fields \in Seq(Fields) /\ Added(file, shape) \in Seq(Fields)
      /\ PlanFor(file, shape) = file.fields \o Added(file, shape)
  BY AddedType DEF Files, PlanFor, Planned
<1>2. CASE Policy = "fail"
  <2>1. Added(file, shape) = <<>> /\ file.fields = columns
    BY <1>2 DEF Resolves, MatchesPin, Grows
  <2>2. PlanFor(file, shape) = file.fields
    BY <1>1, <2>1
  <2>. QED
    BY <1>2, <2>1, <2>2 DEF Grows
<1>3. CASE Policy # "fail"
  <2>1. IsPrefix(columns, file.fields)
    BY <1>3 DEF Grows
  <2>2. IsPrefix(columns, file.fields \o Added(file, shape))
    BY <1>1, <2>1 DEF IsPrefix
  <2>. QED
    BY <1>1, <1>3, <2>2 DEF Grows
<1>. QED
  BY <1>2, <1>3

LEMMA PinStep ==
  TypeOK /\ StandInv /\ PlanInv /\ PinInv /\ [Next]_vars => PinInv'
<1> SUFFICES ASSUME TypeOK, StandInv, PlanInv, PinInv, [Next]_vars,
                    ~overlapped', tears' = 0
             PROVE  PinInv'
  BY DEF PinInv
<1>0. Policy' = Policy
  BY Settled
<1> USE <1>0 DEF PinInv, Kept, Grows, Live, Gone, TypeOK
<1>1. ASSUME NEW l \in Loads, BrokenDefinition(l) PROVE PinInv'
  BY <1>1 DEF BrokenDefinition, Starts
<1>2. ASSUME NEW l \in Loads, ReadPin(l) PROVE PinInv'
  <2>1. job'[l].directive = pin /\ \A m \in Loads : m # l => job'[m] = job[m]
    BY <1>2 DEF ReadPin, Jobs
  <2>. QED
    BY <1>2, <2>1, ZenonT(60) DEF ReadPin, Starts
<1>3. ASSUME NEW l \in Loads, PinUnusable(l) PROVE PinInv'
  BY <1>3 DEF PinUnusable, Starts
<1>4. ASSUME NEW l \in Loads, FormatUnsupported(l) PROVE PinInv'
  BY <1>4 DEF FormatUnsupported, setting
<1>5. ASSUME NEW l \in Loads, Resolve(l) PROVE PinInv'
  <2>1. PICK shape \in Shapes, misfits \in 0 .. MaxRejected,
             rejected \in 0 .. MaxRejected, poisoned \in BOOLEAN,
             total \in 1 .. MaxChunks :
          /\ SourceOf(l, shape, misfits, rejected, poisoned)
          /\ poisoned => misfits > 0
          /\ Resolves(job[l].directive, shape)
          /\ pc' = [pc EXCEPT ![l] = "gate"]
          /\ job' = [job EXCEPT ![l] =
               Decided(l, Observed(l, shape, misfits, rejected, poisoned), total)]
          /\ UNCHANGED <<setting, pin, tears, commits, done, result, report>>
    BY <1>5, Zenon DEF Resolve
  <2>2. /\ job'[l].directive = job[l].directive /\ pc[l] = "read"
        /\ \A m \in Loads : m # l => job'[m] = job[m]
        /\ overlapped' = overlapped /\ UNCHANGED <<pin, tears, commits>>
        /\ pc' = [pc EXCEPT ![l] = "gate"]
    BY <2>1 DEF SourceOf, Observed, Decided, Jobs, setting
  <2>. QED
    BY <2>2
<1>6. ASSUME NEW l \in Loads, Drift(l) PROVE PinInv'
  <2>1. /\ pc[l] = "read" /\ pc' = [pc EXCEPT ![l] = "report"]
        /\ \A m \in Loads : m # l => job'[m] = job[m]
        /\ overlapped' = overlapped /\ UNCHANGED <<pin, tears, commits>>
    BY <1>6 DEF Drift, SourceOf, setting
  <2>. QED
    BY <2>1
<1>7. ASSUME NEW l \in Loads, ReadFails(l) PROVE PinInv'
  <2>1. /\ pc[l] = "read" /\ pc' = [pc EXCEPT ![l] = "report"]
        /\ \A m \in Loads : m # l => job'[m] = job[m]
        /\ overlapped' = overlapped /\ UNCHANGED <<pin, tears, commits>>
    BY <1>7 DEF ReadFails, SourceOf, setting
  <2>. QED
    BY <2>1
<1>8. ASSUME NEW l \in Loads, Gate(l) PROVE PinInv'
  <2>1. /\ pc[l] = "gate" /\ overlapped' = overlapped
        /\ UNCHANGED <<pin, tears, commits, job>>
    BY <1>8 DEF Gate, setting
  <2>2. CASE pc' = [pc EXCEPT ![l] = "report"] \/ pc' = [pc EXCEPT ![l] = "persist"]
    BY <2>1, <2>2, SMTT(30)
  <2>3. CASE pc' = [pc EXCEPT ![l] = "open"] /\ ~job[l].writes
    <3>1. pin = job[l].directive /\ pin \in Files
      BY <2>1
    <3>2. /\ job[l].plan = PlanFor(pin, job[l].shape) /\ job[l].shape \in Shapes
          /\ ~WritesPin(pin, job[l].shape)
      BY <2>1, <2>3, <3>1 DEF PlanInv
    <3>3. pin = PinOf(job[l].plan)
      BY <3>1, <3>2, PlanIsPin, ShapeType
    <3>. QED
      BY <2>1, <2>3, <3>3
  <2>. QED
    BY <1>8, <2>2, <2>3 DEF Gate, AfterGate
<1>9. ASSUME NEW l \in Loads, PersistUnopened(l) PROVE PinInv'
  BY <1>9 DEF PersistUnopened, PersistFailed, setting
<1>10. ASSUME NEW l \in Loads, PersistTruncate(l) PROVE PinInv'
  <2>1. /\ pc[l] = "persist" /\ pc' = [pc EXCEPT ![l] = "persisting"]
        /\ pin' = PinOf(<<>>)
        /\ overlapped' = overlapped /\ UNCHANGED <<tears, commits, job>>
    BY <1>10 DEF PersistTruncate, setting
  <2>2. pin = job[l].directive /\ \A m \in Loads : pc[m] # "persisting"
    <3>1. pin = job[l].directive
      BY <2>1
    <3>2. l \in Live
      BY <2>1 DEF Live, Gone
    <3>3. \A m \in Live : m = l
      BY <2>1, <3>2, Zenon
    <3>4. \A m \in Loads : pc[m] = "persisting" => m \in Live
      BY DEF Live, Gone
    <3>5. \A m \in Loads : pc[m] # "persisting"
      BY <2>1, <3>3, <3>4
    <3>. QED
      BY <3>1, <3>5
  <2>3. Kept(job[l].directive)
    <3>. HIDE DEF Kept, Grows
    <3>. QED
      BY <2>1, <2>2
  <2>4. Kept(job[l].directive)'
    BY <2>1, <2>3
  <2>. HIDE DEF Kept, Grows
  <2>. QED
    BY <2>1, <2>4, SMTT(30)
<1>11. ASSUME NEW l \in Loads, PersistWrite(l) PROVE PinInv'
  <2>1. /\ pc[l] = "persisting" /\ pc' = [pc EXCEPT ![l] = "open"]
        /\ overlapped' = overlapped /\ UNCHANGED <<tears, commits>>
    BY <1>11 DEF PersistWrite, setting
  <2>2. job'[l].plan = job[l].plan /\ \A m \in Loads : m # l => job'[m] = job[m]
    BY <1>11 DEF PersistWrite, Jobs
  <2>3. /\ job[l].plan \in Seq(Fields) /\ job[l].directive \in Files
        /\ job[l].shape \in Seq(Fields)
        /\ Resolves(job[l].directive, job[l].shape)
        /\ job[l].plan = PlanFor(job[l].directive, job[l].shape)
    BY <2>1, ShapeType DEF PlanInv, Jobs
  <2>4. pin.fields = <<>> /\ Kept(job[l].directive)
    BY <2>1 DEF PinOf
  <2>5. pin' = PinOf(job[l].plan)
    <3>1. Overlaid(pin.fields, job[l].plan) = {job[l].plan}
      <4>1. Len(pin.fields) = 0 /\ Len(job[l].plan) \in Nat
        BY <2>3, <2>4
      <4>2. Len(pin.fields) <= Len(job[l].plan)
        BY <4>1
      <4>. QED
        BY <4>2 DEF Overlaid
    <3>. QED
      BY <1>11, <3>1 DEF PersistWrite
  <2>6. \A i \in DOMAIN commits : Grows(commits[i].columns, job[l].plan)
    <3> SUFFICES ASSUME NEW i \in DOMAIN commits
                 PROVE  Grows(commits[i].columns, job[l].plan)
      OBVIOUS
    <3>1. commits[i].columns \in Seq(Fields)
      <4>1. commits[i] \in Commits
        OBVIOUS
      <4>. QED
        BY <4>1 DEF Commits
    <3>2. job[l].directive.exists /\ Grows(commits[i].columns, job[l].directive.fields)
      BY <2>4 DEF Kept
    <3>. HIDE DEF Grows
    <3>. QED
      BY <2>3, <3>1, <3>2, GrowsPlan
  <2>7. Kept(pin)'
    BY <2>1, <2>5, <2>6 DEF PinOf
  <2>. HIDE DEF Kept, Grows
  <2>. QED
    BY <2>1, <2>2, <2>5, <2>7, SMTT(30)
<1>12. ASSUME NEW l \in Loads, PersistTorn(l) PROVE PinInv'
  BY <1>12 DEF PersistTorn
<1>13. ASSUME NEW l \in Loads, OpenFails(l) PROVE PinInv'
  BY <1>13 DEF OpenFails, setting
<1>14. ASSUME NEW l \in Loads, Open(l) PROVE PinInv'
  BY <1>14 DEF Open, setting
<1>15. ASSUME NEW l \in Loads, Land(l) PROVE PinInv'
  <2>1. /\ pc[l] = "session" /\ overlapped' = overlapped
        /\ UNCHANGED <<pc, pin, tears, job>>
        /\ commits' = Append(commits, [load |-> l, columns |-> job[l].plan])
    BY <1>15 DEF Land, setting
  <2>2. pin = PinOf(job[l].plan) /\ job[l].plan \in Seq(Fields)
    BY <2>1 DEF Jobs
  <2>a. ~overlapped /\ tears = 0
    BY <2>1
  <2>b. Kept(pin)
    <3>. HIDE DEF Kept, Grows
    <3>1. \A m \in Live : m = l
      BY <2>1, <2>a
    <3>2. \A m \in Loads : pc[m] # "persisting"
      BY <2>1, <3>1
    <3>. QED
      BY <2>a, <3>2
  <2>3. IsPrefix(job[l].plan, job[l].plan)
    BY <2>2 DEF IsPrefix
  <2>4. Kept(pin)'
    <3>1. \A i \in DOMAIN commits : Grows(commits[i].columns, job[l].plan)
      BY <2>2, <2>b DEF PinOf
    <3>2. Grows(job[l].plan, job[l].plan)
      BY <2>3
    <3>3. /\ commits \in Seq(Commits)
          /\ DOMAIN commits' = DOMAIN commits \union {Len(commits) + 1}
          /\ \A i \in DOMAIN commits : commits'[i] = commits[i]
          /\ commits'[Len(commits) + 1].columns = job[l].plan
      BY <2>1
    <3>4. \A i \in DOMAIN commits' :
            pin'.exists /\ Grows(commits'[i].columns, pin'.fields)
      <4> HIDE DEF Grows
      <4>. QED
        BY <2>1, <2>2, <3>1, <3>2, <3>3 DEF PinOf
    <3>. QED
      BY <3>4
  <2>5. /\ Live' = Live /\ \A l1, l2 \in Live : l1 = l2
        /\ UNCHANGED <<pc, pin, job>>
    BY <2>1, <2>a
  <2>6. \A m \in Loads :
          /\ pc[m] \in {"read", "gate", "persist"} => pin = job[m].directive
          /\ pc[m] # "persisting"
          /\ pc[m] \in {"open", "session"} => pin = PinOf(job[m].plan)
    BY <2>1, <2>a, <2>5, ZenonT(60)
  <2>. HIDE DEF Kept, Grows, Live
  <2>. QED
    BY <2>4, <2>5, <2>6
<1>16. ASSUME NEW l \in Loads, SessionFails(l) PROVE PinInv'
  BY <1>16 DEF SessionFails, InSession, setting
<1>17. ASSUME NEW l \in Loads, SessionSucceeds(l) PROVE PinInv'
  BY <1>17 DEF SessionSucceeds, InSession, setting
<1>18. ASSUME NEW l \in Loads, Report(l) PROVE PinInv'
  BY <1>18 DEF Report, setting
<1>19. ASSUME NEW l \in Loads, Crash(l) PROVE PinInv'
  BY <1>19 DEF Crash, setting
<1>20. CASE UNCHANGED vars
  BY <1>20 DEF vars, setting
<1>. QED
  BY <1>1, <1>2, <1>3, <1>4, <1>5, <1>6, <1>7, <1>8, <1>9, <1>10, <1>11, <1>12,
     <1>13, <1>14, <1>15, <1>16, <1>17, <1>18, <1>19, <1>20 DEF Next

LEMMA GrowStep ==
  TypeOK /\ PinInv /\ ColumnsGrowOnly /\ [Next]_vars => ColumnsGrowOnly'
<1> SUFFICES ASSUME TypeOK, PinInv, ColumnsGrowOnly, [Next]_vars,
                    ~overlapped', tears' = 0
             PROVE  ColumnsGrowOnly'
  BY DEF ColumnsGrowOnly
<1>0. Policy' = Policy
  BY Settled
<1>1. ~overlapped /\ tears = 0
  BY Calm
<1>2. CASE commits' = commits
  BY <1>0, <1>1, <1>2 DEF ColumnsGrowOnly
<1>3. ASSUME NEW l \in Loads, Land(l) PROVE ColumnsGrowOnly'
  <2>1. /\ pc[l] = "session"
        /\ commits' = Append(commits, [load |-> l, columns |-> job[l].plan])
    BY <1>3 DEF Land
  <2>2. pin = PinOf(job[l].plan) /\ \A m \in Live : m = l
    BY <1>1, <2>1 DEF PinInv, Live, Gone
  <2>3. \A m \in Loads : pc[m] # "persisting"
    BY <2>1, <2>2 DEF Live, Gone
  <2>4. \A i \in DOMAIN commits : Grows(commits[i].columns, job[l].plan)
    BY <1>1, <2>2, <2>3 DEF PinInv, Kept, PinOf
  <2>5. /\ commits \in Seq(Commits)
        /\ DOMAIN commits' = DOMAIN commits \union {Len(commits) + 1}
        /\ \A i \in DOMAIN commits : commits'[i] = commits[i]
        /\ commits'[Len(commits) + 1].columns = job[l].plan
    BY <2>1 DEF TypeOK
  <2>6. ASSUME NEW i \in DOMAIN commits', NEW j \in DOMAIN commits', i < j
        PROVE  Grows(commits'[i].columns, commits'[j].columns)
    <3>1. i \in DOMAIN commits
      BY <2>5, <2>6
    <3>2. CASE j \in DOMAIN commits
      BY <1>1, <2>5, <2>6, <3>1, <3>2 DEF ColumnsGrowOnly, Grows
    <3>3. CASE j = Len(commits) + 1
      BY <2>4, <2>5, <3>1, <3>3
    <3>. QED
      BY <2>5, <3>2, <3>3
  <2>. QED
    BY <1>0, <2>6 DEF ColumnsGrowOnly, Grows
<1>. QED
  BY <1>2, <1>3, OnlyLandCommits

LEMMA NextIInv == IInv /\ [Next]_vars => IInv'
BY NextTypeOK, AcceptedStep, StandStep, CountStep, ResultStep, PlanStep, PinStep,
   GrowStep DEF IInv

\* The inductive invariant.
THEOREM LoadInvariant == Spec => []IInv
BY InitIInv, NextIInv, PTL DEF Spec

\* The variables keep their types.
THEOREM LoadTypeOK == Spec => []TypeOK
<1>1. IInv => TypeOK
  BY DEF IInv
<1>. QED
  BY <1>1, LoadInvariant, PTL

-----------------------------------------------------------------------------
(* What the runs of Load check, for every value of its constants.          *)

\* A load whose source breaches the reject threshold persists no pin and lands
\* nothing (execute_supported_load judges it before either).
THEOREM LoadBreachTouchesNothing == Spec => []BreachTouchesNothing
<1>1. IInv => BreachTouchesNothing
  <2> SUFFICES ASSUME IInv, NEW l \in Loads,
                      job[l].misfits > RejectThreshold, ~job[l].poisoned,
                      job[l].persisted \/ LandedBy(l) # {}
               PROVE  FALSE
    BY DEF BreachTouchesNothing
  <2>1. Tolerated(l)
    BY DEF IInv, StandInv
  <2>2. job[l].misfits \in Nat /\ RejectThreshold \in Nat
    BY LoadAssumption DEF IInv, TypeOK, Jobs
  <2>. QED
    BY <2>1, <2>2 DEF Tolerated
<1>. QED
  BY <1>1, LoadInvariant, PTL

\* What a load-report.json says of the destination, the pin and the rejections
\* is what happened (run_load).
THEOREM LoadReportHonest == Spec => []ReportHonest
<1>1. IInv => ReportHonest
  <2> SUFFICES ASSUME IInv, NEW l \in report
               PROVE  /\ result[l].posture = "not_started" => LandedBy(l) = {}
                      /\ result[l].committed =
                           IF Mode = "append" THEN Cardinality(LandedBy(l))
                           ELSE IF LandedBy(l) = {} THEN 0 ELSE job[l].total
                      /\ result[l].posture # "not_started" /\ result[l].claimsPin =>
                           job[l].persisted
                      /\ result[l].code = "succeeded" =>
                           /\ result[l].committed = job[l].total
                           /\ job[l].misfits <= RejectThreshold
                           /\ job[l].rejected = job[l].misfits
    BY DEF ReportHonest
  <2>1. l \in Loads /\ pc[l] = "over" /\ ~job[l].poisoned
    BY DEF IInv, TypeOK, ResultInv
  <2>2. /\ result[l].posture = "not_started" =>
             /\ LandedBy(l) = {} /\ result[l].committed = 0
             /\ result[l].code # "succeeded"
        /\ result[l].posture # "not_started" =>
             /\ result[l].committed = done[l]
             /\ result[l].claimsPin => job[l].persisted
        /\ result[l].code = "succeeded" => done[l] = job[l].total /\ Tolerated(l)
    BY <2>1 DEF IInv, ResultInv
  <2>3. /\ done[l] = IF Mode = "append" THEN Cardinality(LandedBy(l))
                     ELSE IF LandedBy(l) = {} THEN 0 ELSE job[l].total
        /\ Cardinality({}) = 0
    BY <2>1, FS_EmptySet DEF IInv, CountInv
  <2>. QED
    BY <2>1, <2>2, <2>3 DEF Tolerated
<1>. QED
  BY <1>1, LoadInvariant, PTL

\* Loads one after the other keep the columns of the dataset, or only add to
\* their end (assemble_pinned_plan).
THEOREM LoadColumnsGrowOnly == Spec => []ColumnsGrowOnly
<1>1. IInv => ColumnsGrowOnly
  BY DEF IInv
<1>. QED
  BY <1>1, LoadInvariant, PTL

\* A field once committed stays in the pin (persist_pinned_schema).
THEOREM LoadNothingForgotten == Spec => []NothingForgotten
<1>1. IInv => NothingForgotten
  <2> SUFFICES ASSUME IInv, ~overlapped, tears = 0,
                      \A l \in Loads : pc[l] # "persisting",
                      NEW i \in DOMAIN commits
               PROVE  Range(commits[i].columns) \subseteq Range(pin.fields)
    BY DEF NothingForgotten
  <2>1. commits[i] \in Commits /\ pin \in Files
    BY DEF IInv, TypeOK
  <2>2. commits[i].columns \in Seq(Fields) /\ pin.fields \in Seq(Fields)
    BY <2>1 DEF Commits, Files
  <2>3. Grows(commits[i].columns, pin.fields)
    BY DEF IInv, PinInv, Kept
  <2>4. CASE pin.fields = commits[i].columns
    BY <2>4
  <2>5. CASE IsPrefix(commits[i].columns, pin.fields)
    BY <2>2, <2>5 DEF IsPrefix, Range
  <2>. QED
    BY <2>3, <2>4, <2>5 DEF Grows
<1>. QED
  BY <1>1, LoadInvariant, PTL

\* What is persisted or landed is so under a sound definition: the definition
\* phase, however it orders its checks, lets through no fault the property names.
THEOREM LoadOnlySoundLoads == Spec => []OnlySoundLoads
<1>1. IInv => OnlySoundLoads
  BY AcceptedSound DEF IInv, TypeOK, AcceptedInv, OnlySoundLoads
<1>. QED
  BY <1>1, LoadInvariant, PTL

\* The saturating arithmetic of delay_before_attempt_ms is exact, at every
\* attempt.
THEOREM LoadBackoffExact == Spec => []BackoffExact
<1>1. TypeOK => BackoffExact
  <2> SUFFICES ASSUME TypeOK, NEW n \in 2 .. MaxAttempt
               PROVE  LET policy == Definition!RetryPolicy(definition)
                          exact == policy.initial * 2 ^ (n - 2)
                      IN Definition!Delay(policy, n) =
                           IF exact < policy.max THEN exact ELSE policy.max
    BY DEF BackoffExact
  <2> DEFINE policy == Definition!RetryPolicy(definition)
             first == policy.initial
             max == policy.max
             power == 2 ^ (n - 2)
  <2>1. first \in 0 .. MaxWord /\ max \in 0 .. MaxWord /\ MaxWord \in Nat
    BY LoadAssumption DEF TypeOK
  <2>2. power \in Int
    <3>1. n - 2 \in Nat
      BY LoadAssumption
    <3>. QED
      BY <3>1
  <2>3. Definition!Delay(policy, n) =
          Definition!Least(Definition!Least(Definition!Least(power, MaxWord) * first,
                                            MaxWord), max)
    BY DEF Definition!Delay
  <2> HIDE DEF power, first, max, policy
  <2>4. power * first \in Int /\ power * first = first * power
    BY <2>1, <2>2
  <2> DEFINE exact == first * power
             delay == Definition!Delay(policy, n)
  <2>5. \A x \in Int, y \in Int : Definition!Least(x, y) = IF x < y THEN x ELSE y
    BY DEF Definition!Least
  <2>6. ASSUME power <= MaxWord
        PROVE  delay = IF exact < max THEN exact ELSE max
    <3>1. Definition!Least(power, MaxWord) = power
      BY <2>1, <2>2, <2>5, <2>6
    <3>2. delay = Definition!Least(Definition!Least(exact, MaxWord), max)
      BY <2>3, <2>4, <3>1
    <3>3. exact \in Int
      BY <2>4
    <3> HIDE DEF exact, delay
    <3>. QED
      BY <2>1, <2>5, <3>2, <3>3
  <2>7. ASSUME power > MaxWord /\ first = 0
        PROVE  delay = IF exact < max THEN exact ELSE max
    <3>1. Definition!Least(power, MaxWord) * first = 0 /\ exact = 0
      BY <2>1, <2>2, <2>5, <2>7
    <3>2. delay = Definition!Least(Definition!Least(0, MaxWord), max)
      BY <2>3, <3>1
    <3> HIDE DEF exact, delay
    <3>. QED
      BY <2>1, <2>5, <3>1, <3>2
  <2>8. ASSUME power > MaxWord /\ first > 0
        PROVE  delay = IF exact < max THEN exact ELSE max
    <3>1. Definition!Least(power, MaxWord) = MaxWord
      BY <2>1, <2>2, <2>5, <2>8
    <3>2. MaxWord * first \in Int /\ MaxWord * first >= MaxWord
      BY <2>1, <2>8
    <3>3. exact \in Int /\ exact >= power
      BY <2>1, <2>2, <2>4, <2>8
    <3>4. delay = Definition!Least(Definition!Least(MaxWord * first, MaxWord), max)
      BY <2>3, <3>1
    <3>5. Definition!Least(MaxWord * first, MaxWord) = MaxWord
      BY <2>1, <2>5, <3>2
    <3>6. delay = max /\ ~(exact < max)
      <4> HIDE DEF exact, delay
      <4>. QED
        BY <2>1, <2>2, <2>5, <2>8, <3>3, <3>4, <3>5
    <3>. QED
      BY <3>6
  <2>9. delay = IF exact < max THEN exact ELSE max
    BY <2>1, <2>2, <2>6, <2>7, <2>8
  <2>. QED
    BY <2>9 DEF power, first, max, policy
<1>. QED
  BY <1>1, LoadTypeOK, PTL

\* Where no header names a field twice, a pin a load persisted takes the same
\* source again to the same plan, and is not rewritten.
THEOREM LoadRetryConverges == Spec => [](~DuplicateHeaders => RetryConverges)
<1>1. IInv => (~DuplicateHeaders => RetryConverges)
  <2> SUFFICES ASSUME IInv, ~DuplicateHeaders, NEW l \in Loads,
                      job[l].persisted, pin = PinOf(job[l].plan)
               PROVE  /\ Parses(pin)
                      /\ Resolves(pin, job[l].shape)
                      /\ PlanFor(pin, job[l].shape) = job[l].plan
                      /\ ~WritesPin(pin, job[l].shape)
    BY DEF RetryConverges
  <2> DEFINE file == job[l].directive
             shape == job[l].shape
             added == Added(file, shape)
             again == Added(pin, shape)
  <2>1. /\ shape \in Shapes /\ Resolves(file, shape)
        /\ job[l].plan = PlanFor(file, shape)
        /\ file.exists => Parses(file)
    BY DEF IInv, PlanInv
  <2>2. /\ shape \in Seq(Fields) /\ shape # <<>> /\ IsInjective(shape)
        /\ file \in Files /\ pin \in Files
    BY <2>1, ShapeType DEF Shapes, IInv, TypeOK, Jobs
  <2>3. /\ added \in Seq(Fields) /\ again \in Seq(Fields)
        /\ Range(added) = Range(shape) \ Range(file.fields)
        /\ Range(again) = Range(shape) \ Range(pin.fields)
        /\ IsInjective(added)
    BY <2>2, AddedType
  <2>4. pin.exists /\ pin.fields = job[l].plan
    BY DEF PinOf
  <2>5. /\ pin.fields # <<>> /\ IsInjective(pin.fields)
        /\ Range(pin.fields) = Range(shape)
    <3>1. CASE ~file.exists
      BY <2>1, <2>2, <2>4, <3>1 DEF PlanFor
    <3>2. CASE file.exists
      <4>1. /\ pin.fields = file.fields \o added /\ file.fields \in Seq(Fields)
            /\ file.fields # <<>> /\ IsInjective(file.fields)
            /\ Range(file.fields) \subseteq Range(shape)
        BY <2>1, <2>2, <2>4, <3>2
        DEF PlanFor, Planned, Files, Parses, Resolves, MatchesPin, Missing
      <4>. HIDE DEF added, shape, file
      <4>2. Range(pin.fields) = Range(file.fields) \union Range(added)
        BY <2>3, <4>1, RangeConcatenation
      <4>3. IsInjective(pin.fields)
        BY <2>3, <4>1, InjectiveConcat
      <4>4. pin.fields # <<>>
        BY <2>3, <4>1
      <4>. QED
        BY <2>3, <4>1, <4>2, <4>3, <4>4, SMTT(30)
    <3>. QED
      BY <3>1, <3>2
  <2>6. again = <<>>
    <3>1. Range(again) = {}
      BY <2>3, <2>5
    <3>. HIDE DEF again
    <3>. QED
      BY <2>3, <3>1 DEF Range
  <2>7. pin.fields \in Seq(Fields) /\ pin.fields \o again = pin.fields
    BY <2>2, <2>6 DEF Files
  <2>. QED
    BY <2>2, <2>4, <2>5, <2>6, <2>7
    DEF Parses, Resolves, MatchesPin, Missing, PlanFor, Planned, WritesPin
<1>. QED
  BY <1>1, LoadInvariant, PTL
=============================================================================
