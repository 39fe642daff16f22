--------------------------- MODULE LoadDefinition ---------------------------
(***************************************************************************)
(* The definition phase (lib.rs, and the connector factories of            *)
(* connector.rs): everything a load definition is refused for before the   *)
(* pin, the source or the destination is touched, in the order it is       *)
(* judged, and the settings an accepted definition resolves to.            *)
(*                                                                         *)
(* A definition is a record; a key it does not have is Unset, and a        *)
(* written but empty one is Blank.                                         *)
(* Definitions named Bug... are not part of the model: each is a plausible *)
(* mistake in the definition that follows it.                              *)
(***************************************************************************)
EXTENDS Integers, Sequences, FiniteSets, FieldTypes, Transform

CONSTANTS
  Environment,   \* the environment variables that are set and not empty
  MaxWord        \* u64::MAX

ASSUME LoadDefinitionAssumption == MaxWord \in Nat \ {0}

Given(key, default) == IF key = Unset THEN default ELSE key

Code(fails, code) == IF fails THEN code ELSE "ok"

\* The code of the first check that fails.
FirstCode(codes) ==
  LET k == SelectInSeq(codes, LAMBDA code : code # "ok")
  IN IF k = 0 THEN "ok" ELSE codes[k]

-----------------------------------------------------------------------------
(* The schema block, up to the reading of the pin.                         *)

\* SchemaOverrides::from_entries: what an entry is refused for.
EntryCode(overrides, k) ==
  LET entry == overrides[k]
  IN FirstCode(<<
       Code(\E j \in 1 .. k - 1 : overrides[j].name = entry.name,
            "invalid_schema_config"),
       Code(~entry.type.ok /\ ~entry.nullable.ok, "invalid_schema_config"),
       Code(entry.type.ok /\ ~KnownType(entry.type.value),
            "unsupported_override_type")>>)

OverridesCode(overrides) ==
  FirstCode([k \in DOMAIN overrides |-> EntryCode(overrides, k)])

\* What the schema block is refused for before the pin is read.
BlockCode(block) ==
  FirstCode(<<
    Code(block.path = Blank \/ block.overrides = <<>>, "invalid_schema_config"),
    Code(block.path = Unset /\ (block.policy # Unset \/ block.overrides = Unset),
         "invalid_schema_config"),
    Code(block.policy \notin {Unset, "fail", "allow_additive_nullable"},
         "unsupported_drift_policy"),
    OverridesCode(OrEmpty(block.overrides))>>)

\* resolve_schema_directive, up to the reading of the pin.
SchemaCode(transform, block, format) ==
  FirstCode(<<
    Code(transform # Unset /\ ~TransformValid(transform, format),
         "invalid_transform_config"),
    IF block = Unset THEN "ok" ELSE BlockCode(block)>>)

\* PinnedSchema::from_yaml: at least one field, unique names, known types.
PinReads(fields) ==
  /\ fields # <<>>
  /\ IsInjective([k \in DOMAIN fields |-> fields[k].name])
  /\ \A k \in DOMAIN fields : KnownType(fields[k].type)

-----------------------------------------------------------------------------
(* The checks before it.                                                   *)

\* read_load_definition: text is "parsed", "unreadable" or "invalid", the last
\* for a key or a value the YAML contract does not know.
TextCode(d) ==
  FirstCode(<<Code(d.text = "unreadable", "load_definition_read_failed"),
              Code(d.text = "invalid", "invalid_load_definition_yaml")>>)

VersionCode(d) ==
  FirstCode(<<Code(d.version = Unset, "missing_load_definition_version"),
              Code(d.version # 1, "unsupported_load_definition_version")>>)

PresenceCode(d) ==
  FirstCode(<<Code(d.source = Unset, "missing_source"),
              Code(d.destination = Unset, "missing_destination")>>)

LoadMode(d) == Given(d.load_mode, "full_refresh")
AllModes == {"full_refresh", "append", "merge"}

\* LoadMode::parse
LoadModeCode(d) == Code(LoadMode(d) \notin AllModes, "unsupported_load_mode")

BugKeysMayRepeat(d) ==
  FirstCode(<<
    Code(LoadMode(d) = "merge" /\ d.merge = Unset, "missing_merge_keys"),
    Code(d.merge # Unset /\ LoadMode(d) # "merge", "invalid_merge_config"),
    Code(d.merge = <<>>, "invalid_merge_config")>>)

\* validate_merge_config
MergeCode(d) ==
  FirstCode(<<
    Code(LoadMode(d) = "merge" /\ d.merge = Unset, "missing_merge_keys"),
    Code(d.merge # Unset /\ LoadMode(d) # "merge", "invalid_merge_config"),
    Code(d.merge = <<>>, "invalid_merge_config"),
    Code(~IsInjective(OrEmpty(d.merge)), "invalid_merge_config")>>)

\* source_connector
SourceCode(d) ==
  Code(d.source # Unset /\ d.source.connector # "local_file",
       "unsupported_source_connector")

\* require_dataset
DatasetCode(d) == Code(d.dataset \in {Unset, Blank}, "missing_dataset")

\* SqlServerConfig::from_definition, then resolve_credential_reference.  A name
\* is "plain", or "dotted" when it has a dot.
SqlServerCode(d) ==
  LET block == d.destination
  IN FirstCode(<<
       Code({block.host, block.database, block.user, block.password_env}
              \intersect {Unset, Blank} # {}, "invalid_destination_config"),
       Code(block.encryption \notin {Unset, "required", "optional"},
            "invalid_destination_config"),
       Code(block.schema \in {Blank, "dotted"}, "invalid_destination_config"),
       DatasetCode(d),
       Code(d.dataset = "dotted", "invalid_dataset_name"),
       Code(block.password_env \notin Environment,
            "unresolved_credential_reference")>>)

\* destination_connector
DestinationCode(d) ==
  IF d.destination = Unset THEN "ok"
  ELSE CASE d.destination.connector = "parquet" -> "ok"
         [] d.destination.connector = "duckdb" -> DatasetCode(d)
         [] d.destination.connector = "sqlserver" -> SqlServerCode(d)
         [] OTHER -> "unsupported_destination_connector"

SupportedModes(connector) ==
  IF connector = "parquet" THEN AllModes \ {"merge"} ELSE AllModes

\* Destination::validate_mode
SupportCode(d) ==
  Code(/\ d.destination # Unset
       /\ LoadMode(d) \notin SupportedModes(d.destination.connector),
       "unsupported_load_mode_for_destination")

\* resolved_source_format; what it names is judged by the read, after the pin.
SourceFormat(d) == Given(d.source.format, d.source.extension)
FormatSupported(d) == SourceFormat(d) \in {"csv", "jsonl"}

\* execute_load_definition and execute_supported_load, up to the pin.
DefinitionCode(d) ==
  FirstCode(<<
    TextCode(d), VersionCode(d), PresenceCode(d), LoadModeCode(d),
    MergeCode(d), SourceCode(d), DestinationCode(d), SupportCode(d),
    IF d.source = Unset THEN "ok"
    ELSE SchemaCode(d.transform, d.schema, SourceFormat(d))>>)

DriftPolicy(d) == Given(d.schema.policy, "fail")

-----------------------------------------------------------------------------
(* The retry policy and its waits.                                         *)

Least(m, n) == IF m < n THEN m ELSE n

\* resolve_retry_policy; d.retry is Unset when the block is absent, and u64
\* values are at most MaxWord.
RetryPolicy(d) ==
  LET retry == IF d.retry = Unset
                 THEN [max_attempts |-> Unset, initial |-> Unset, max |-> Unset]
                 ELSE d.retry
  IN [max_attempts |-> Given(retry.max_attempts, 3),
      initial |-> Given(retry.initial, 200),
      max |-> Given(retry.max, 5000)]

BugWraps(policy, attempt) ==
  Least((2 ^ (attempt - 2) * policy.initial) % (MaxWord + 1), policy.max)

\* delay_before_attempt_ms, in saturating u64 arithmetic.
Delay(policy, attempt) ==
  LET power == Least(2 ^ (attempt - 2), MaxWord)
      product == Least(power * policy.initial, MaxWord)
  IN Least(product, policy.max)
=============================================================================
