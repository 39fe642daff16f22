-------------------------------- MODULE Schema --------------------------------
(***************************************************************************)
(* One definition's loads through the schema module: the directive the     *)
(* definition and the pin file amount to, pass 1 over the records          *)
(* (TextObserver, JsonObserver), the verdict and plan at the end of input  *)
(* (resolve_plan), and the chunk pass 2 builds from the survivors.  The    *)
(* definition is loaded twice, the second time under the pin the first     *)
(* left, and over the same records in either order.                        *)
(*                                                                         *)
(* How a pass reads the file is TwoPass; here a pass yields the records.   *)
(***************************************************************************)
EXTENDS LoadDefinition, Lists

CONSTANT Families  \* sets of definitions, with source files and pin files

\* What the parsers of the three files return: lists are lists, an override's
\* nullable is a boolean, and keys are unique in the transform's maps
\* (deserialize_ordered_unique_map) and in a JSON object (serde_json's Map).
ASSUME SchemaAssumption ==
  \A family \in Families :
    /\ \A d \in family.definitions :
         /\ d.format \in {"csv", "jsonl"} /\ Listed(d.keys)
         /\ d.transform # Unset =>
              /\ ParsesAsMaps(d.transform)
              /\ Listed(OrEmpty(d.transform.flatten))
              /\ Listed(OrEmpty(d.transform.select))
              /\ Listed(OrEmpty(d.transform.rename))
         /\ d.block # Unset =>
              /\ Listed(OrEmpty(d.block.overrides))
              /\ \A k \in DOMAIN OrEmpty(d.block.overrides) :
                   LET nullable == d.block.overrides[k].nullable
                   IN nullable.ok => nullable.value \in BOOLEAN
         /\ \A file \in family.files :
              /\ Listed(file.header) /\ Listed(file.records)
              /\ d.format = "jsonl" =>
                   \A k \in DOMAIN file.records :
                     LET record == file.records[k]
                     IN /\ Listed(record)
                        /\ IsInjective([j \in DOMAIN record |-> record[j].key])
    /\ \A file \in family.pins : file.ok => Listed(file.value)

VARIABLES
  def,         \* the load definition: format, transform, schema block, keys
  source,      \* the CSV header and the records, in file order
  pin,         \* the pinned schema file: None, or its fields
  load,        \* 1 or 2
  pc,          \* "configure", "observe", "build" or "over"
  directive,   \* SchemaDirective
  names,       \* the observed field names so far
  seen,        \* the survivors' observed types: of fields, of flatten paths
  known,       \* the checks pass 1 judges by, None under a pending verdict
  judged,      \* what pass 1 made of each record read so far
  resolution,  \* what resolve_plan returned
  rejections,  \* the rejections pass 1 named, with their records
  batch,       \* the chunk of the survivors
  result,      \* "ok", or the code the load failed with
  first        \* load 1, once load 2 is under way

vars == <<def, source, pin, load, pc, directive, names, seen, known, judged,
          resolution, rejections, batch, result, first>>

Csv == def.format = "csv"

-----------------------------------------------------------------------------
(* Reading a value: a CSV cell by column index, a JSON value by address.   *)

\* A key or path step that leads nowhere reads as null (json_path_value).
Get(value, key) ==
  LET k == SelectInSeq(value.fields, LAMBDA f : f.key = key)
  IN IF value.kind = "object" /\ k > 0 THEN value.fields[k].value ELSE Missing

Walk(record, path) == FoldLeft(Get, Get(record, path[1]), Tail(path))

ValueAt(record, at) ==
  IF Csv THEN record[at.index]
  ELSE IF Len(at.source) = 1 THEN Get(record, at.source[1])
  ELSE Walk(record, at.source)

Absent(value) == IF Csv THEN ~value.ok ELSE IsNull(value)
Fits(value, type) ==
  IF Csv THEN TextFits(value.value, type) ELSE JsonFits(value, type)
Cause(value, type) ==
  IF Csv THEN TextCause(value.value, type) ELSE JsonCause(value, type)
Build(value, type) ==
  IF Csv THEN BuildText(type, value) ELSE BuildJson(type, value)
Infer(value) ==
  IF Absent(value) THEN "null"
  ELSE IF Csv THEN InferText(value.value) ELSE InferJson(value)

-----------------------------------------------------------------------------
(* The directive: resolve_schema_directive.                                *)

\* resolve_schema_directive: the definition's own faults, then the pin's.
ConfigCode ==
  FirstCode(<<
    SchemaCode(def.transform, def.block, def.format),
    Code(/\ def.block # Unset /\ def.block.path # Unset
         /\ pin.ok /\ ~PinReads(pin.value), "invalid_pinned_schema")>>)

Directive ==
  LET block == IF def.block = Unset
                 THEN [path |-> Unset, policy |-> Unset, overrides |-> Unset]
                 ELSE def.block
  IN [mode |-> IF block.path = Unset THEN "inferred"
               ELSE IF pin.ok THEN "pinned" ELSE "pin_inferred",
      pin |-> IF block.path # Unset /\ pin.ok THEN pin.value ELSE <<>>,
      additive |-> block.policy = "allow_additive_nullable",
      overrides |-> OrEmpty(block.overrides),
      transform |-> IF def.transform = Unset THEN NoTransform
                                             ELSE def.transform]

NameSet(things) == {things[k].name : k \in DOMAIN things}
OverrideOf(dir, name) ==
  LET k == SelectInSeq(dir.overrides, LAMBDA entry : entry.name = name)
  IN IF k = 0 THEN [name |-> name, type |-> None, nullable |-> None]
              ELSE dir.overrides[k]

-----------------------------------------------------------------------------
(* Checks.                                                                 *)

Check(at, expected, required) ==
  [name |-> at.name, source |-> at.source, index |-> at.index,
   expected |-> expected, required |-> required]

Requires(nullable) == IF nullable THEN "no" ELSE "schema"

KeyCheck(at) == Check(at, None, "merge key")
PinCheck(at, field) == Check(at, Some(field.type), Requires(field.nullable))
OverrideCheck(at, entry) ==
  Check(at, entry.type,
        Requires(entry.nullable.ok => entry.nullable.value))

\* Of overrides or columns, those the pin does not name.
Outside(list, dir) ==
  Picked(list, {k \in DOMAIN list : list[k].name \notin NameSet(dir.pin)})

BugForgetsMergeKeys(dir, keys) ==
  LET at(name) == Column(name, JsonSource(dir.transform, name), 0)
      outside == Outside(dir.overrides, dir)
  IN [k \in DOMAIN dir.pin |-> PinCheck(at(dir.pin[k].name), dir.pin[k])]
       \o [k \in DOMAIN outside |->
             OverrideCheck(at(outside[k].name), outside[k])]

\* directive_checks: what the directive alone says every JSONL record must
\* meet, before the key union is known.
DirectiveChecks(dir, keys) ==
  LET at(name) == Column(name, JsonSource(dir.transform, name), 0)
      outside == Outside(dir.overrides, dir)
  IN [k \in DOMAIN keys |-> KeyCheck(at(keys[k]))]
       \o [k \in DOMAIN dir.pin |-> PinCheck(at(dir.pin[k].name), dir.pin[k])]
       \o [k \in DOMAIN outside |->
             OverrideCheck(at(outside[k].name), outside[k])]

Violates(record, check) ==
  LET value == ValueAt(record, check)
  IN IF Absent(value) THEN check.required # "no"
     ELSE check.expected.ok /\ ~Fits(value, check.expected.value)

\* json_record_violates
ViolatesAny(record, checks) ==
  \E k \in DOMAIN checks : Violates(record, checks[k])

\* null_value_rejection and type_rejection
Rejection(record, check) ==
  LET value == ValueAt(record, check)
  IN [field |-> check.name,
      sourceField |-> When(NameChanged(check), check.source),
      code |-> IF ~Absent(value) THEN "type_coercion_failed"
               ELSE IF check.required = "schema" THEN "missing_required_field"
               ELSE "null_merge_key",
      cause |-> IF Absent(value) THEN "none"
                ELSE Cause(value, check.expected.value)]

\* validate_text_record and validate_json_record: the first violated check
\* names the rejection.
RejectionFor(record, checks) ==
  LET k == SelectInSeq(checks, LAMBDA check : Violates(record, check))
  IN IF k = 0 THEN None ELSE Some(Rejection(record, checks[k]))

-----------------------------------------------------------------------------
(* resolve_plan: the verdict, the checks and the plan.                     *)

ColumnOf(columns, name) ==
  columns[SelectInSeq(columns, LAMBDA c : c.name = name)]

AddedColumns(dir, columns) == Outside(columns, dir)

\* check_override_conflicts
Conflicts(dir) ==
  \E k \in DOMAIN dir.pin :
    LET field == dir.pin[k]
        entry == OverrideOf(dir, field.name)
    IN \/ entry.type.ok /\ entry.type.value # field.type
       \/ entry.nullable.ok /\ entry.nullable.value # field.nullable

\* match_shape
ShapeDrifts(dir, columns) ==
  \/ ~IsInjective([k \in DOMAIN columns |-> columns[k].name])
  \/ ~(NameSet(dir.pin) \subseteq NameSet(columns))
  \/ ~dir.additive /\ AddedColumns(dir, columns) # <<>>

\* check_declared_type_overrides: a pin alone cannot declare a type.
Undeclared(dir) ==
  \E k \in DOMAIN dir.pin :
    /\ ~HasLatticeType(dir.pin[k].type)
    /\ ~OverrideOf(dir, dir.pin[k].name).type.ok

Verdict(dir, keys, fields) ==
  LET columns == ResolvedColumns(dir.transform, fields)
  IN IF TransformVerdict(dir.transform, fields) # "ok"
       THEN TransformVerdict(dir.transform, fields)
       ELSE FirstCode(<<
              Code(~(NameSet(dir.overrides) \subseteq NameSet(columns)),
                   "unknown_override_field"),
              Code(~(Range(keys) \subseteq NameSet(columns)),
                   "unknown_merge_key_field"),
              Code(Conflicts(dir), "schema_override_conflict"),
              Code(/\ dir.mode = "pinned"
                   /\ ShapeDrifts(dir, columns) \/ Undeclared(dir),
                   "schema_drift")>>)

\* override_checks
OverrideChecks(dir, columns) ==
  LET named == Picked(columns, {k \in DOMAIN columns :
                                  columns[k].name \in NameSet(dir.overrides)})
  IN [k \in DOMAIN named |->
        OverrideCheck(named[k], OverrideOf(dir, named[k].name))]

BugSchemaFirst(dir, keys, columns) ==
  [k \in DOMAIN dir.pin |->
     PinCheck(ColumnOf(columns, dir.pin[k].name), dir.pin[k])]
    \o OverrideChecks(dir, AddedColumns(dir, columns))
    \o [k \in DOMAIN keys |-> KeyCheck(ColumnOf(columns, keys[k]))]

\* merge_key_checks, then pinned_checks, then the overrides of the rest.
ResolvedChecks(dir, keys, columns) ==
  [k \in DOMAIN keys |-> KeyCheck(ColumnOf(columns, keys[k]))]
    \o [k \in DOMAIN dir.pin |->
          PinCheck(ColumnOf(columns, dir.pin[k].name), dir.pin[k])]
    \o OverrideChecks(dir, AddedColumns(dir, columns))

Field(at, type, nullable) ==
  [name |-> at.name, source |-> at.source, index |-> at.index,
   type |-> type, nullable |-> nullable]

\* inferred_plan and planned_added_fields: an override wins over what the
\* survivors were observed to hold.
InferredField(dir, column, types) ==
  LET entry == OverrideOf(dir, column.name)
  IN Field(column,
           IF entry.type.ok THEN entry.type.value
                            ELSE FieldType(types[column.index]),
           entry.nullable.ok => entry.nullable.value)

\* assemble_pinned_plan: the pinned fields in pin order, then the added ones.
PlannedFields(dir, columns, types) ==
  LET added == AddedColumns(dir, columns)
  IN [k \in DOMAIN dir.pin |->
        Field(ColumnOf(columns, dir.pin[k].name), dir.pin[k].type,
              dir.pin[k].nullable)]
       \o [k \in DOMAIN added |-> InferredField(dir, added[k], types)]

BugPinForgetsNullable(fields) ==
  [k \in DOMAIN fields |-> [name |-> fields[k].name, type |-> fields[k].type,
                            nullable |-> TRUE]]

\* pin_yaml
PinOf(fields) ==
  [k \in DOMAIN fields |-> [name |-> fields[k].name, type |-> fields[k].type,
                            nullable |-> fields[k].nullable]]

Failed(code) ==
  [code |-> code, columns |-> <<>>, checks |-> <<>>, fields |-> <<>>,
   pinWrite |-> None]

ResolvePlan(dir, keys, fields, types) ==
  LET columns == ResolvedColumns(dir.transform, fields)
      planned == PlannedFields(dir, columns, types)
  IN IF Verdict(dir, keys, fields) # "ok"
       THEN Failed(Verdict(dir, keys, fields))
       ELSE [code |-> "ok",
             columns |-> columns,
             checks |-> ResolvedChecks(dir, keys, columns),
             fields |-> planned,
             pinWrite |->
               When(\/ dir.mode = "pin_inferred"
                    \/ dir.mode = "pinned" /\ AddedColumns(dir, columns) # <<>>,
                    PinOf(planned))]

-----------------------------------------------------------------------------
(* The loads.                                                              *)

NoTypes == [fields |-> <<>>, flatten |-> <<>>]
Nulls(list) == [k \in DOMAIN list |-> "null"]
NotRun == Failed("not resolved")

Init ==
  /\ \E family \in Families : /\ def \in family.definitions
                              /\ source \in family.files
                              /\ pin \in family.pins
  /\ load = 1 /\ pc = "configure"
  /\ directive = None /\ names = <<>> /\ seen = NoTypes /\ known = None
  /\ judged = <<>> /\ resolution = NotRun /\ rejections = <<>>
  /\ batch = <<>> /\ result = "running" /\ first = None

Fails(code) == pc' = "over" /\ result' = code

\* The definition phase, and the observer of the format.  A CSV header alone
\* decides the verdict, so its checks are known, or known to be pending.
Configure ==
  /\ pc = "configure"
  /\ IF ConfigCode # "ok"
       THEN Fails(ConfigCode) /\ UNCHANGED <<directive, names, seen, known>>
       ELSE LET dir == Directive
                probe == ResolvePlan(dir, def.keys, source.header,
                  Nulls(source.header \o Outputs(dir.transform)))
            IN /\ directive' = dir
               /\ names' = IF Csv THEN source.header ELSE <<>>
               /\ seen' = [fields |-> IF Csv THEN Nulls(source.header)
                                             ELSE <<>>,
                           flatten |-> Nulls(Outputs(dir.transform))]
               /\ known' = IF Csv THEN When(probe.code = "ok", probe.checks)
                           ELSE Some(DirectiveChecks(dir, def.keys))
               /\ pc' = "observe"
               /\ UNCHANGED result
  /\ UNCHANGED <<def, source, pin, load, judged, resolution, rejections, batch,
                 first>>

\* The key union of the JSONL records, in the order the keys are first met.
UnionNames(record) ==
  LET keys == [k \in DOMAIN record |-> record[k].key]
  IN names \o Picked(keys, {k \in DOMAIN keys : keys[k] \notin Range(names)})

\* merge_text_observations and merge_json_observations.
Observed(record, union) ==
  [fields |-> [k \in DOMAIN union |->
     LET old == IF k \in DOMAIN seen.fields THEN seen.fields[k] ELSE "null"
     IN Merge(old, Infer(IF Csv THEN record[k]
                                ELSE Get(JsonObject(record), union[k])))],
   flatten |-> [k \in DOMAIN seen.flatten |->
     Merge(seen.flatten[k],
           Infer(Walk(JsonObject(record),
                      directive.transform.flatten[k].path)))]]

\* A CSV row's cells, or a JSONL object.
Row(k) == IF Csv THEN source.records[k] ELSE JsonObject(source.records[k])

\* TextObserver::observe and JsonObserver::observe.
Observe ==
  LET k == Len(judged) + 1
      record == source.records[k]
      union == IF Csv THEN names ELSE UnionNames(record)
      rejected == known.ok /\ ViolatesAny(Row(k), known.value)
  IN /\ pc = "observe" /\ k <= Len(source.records)
     /\ names' = union
     /\ judged' = Append(judged, IF ~known.ok THEN "unjudged"
                                 ELSE IF rejected THEN "rejected"
                                                  ELSE "survived")
     /\ seen' = IF known.ok /\ ~rejected
                  THEN Observed(record, union)
                  ELSE [seen EXCEPT !.fields =
                          @ \o Nulls(SubSeq(union, Len(@) + 1, Len(union)))]
     \* A CSV rejection is streamed as found; a JSONL one waits for the verdict.
     /\ rejections' = IF Csv /\ rejected
          THEN Append(rejections,
                      [record |-> k,
                       names |-> RejectionFor(Row(k), known.value)])
          ELSE rejections
     /\ UNCHANGED <<def, source, pin, load, pc, directive, known, resolution,
                    batch, result, first>>

\* TextObserver::finish and JsonObserver::finish, and the merge of the spill.
Finish ==
  LET resolved == ResolvePlan(directive, def.keys, names,
                              seen.fields \o seen.flatten)
      spilled == Picked([k \in DOMAIN judged |-> k],
                        {k \in DOMAIN judged : judged[k] = "rejected"})
  IN /\ pc = "observe" /\ Len(judged) = Len(source.records)
     /\ IF names = <<>>
          THEN Fails("malformed_jsonl") /\ UNCHANGED <<resolution, rejections>>
          ELSE /\ resolution' = resolved
               /\ IF resolved.code # "ok"
                    THEN Fails(resolved.code) /\ UNCHANGED rejections
                    ELSE /\ pc' = "build" /\ UNCHANGED result
                         /\ rejections' = IF Csv THEN rejections
                              ELSE [j \in DOMAIN spilled |->
                                     [record |-> spilled[j],
                                      names |-> RejectionFor(Row(spilled[j]),
                                                      resolved.checks)]]
     /\ UNCHANGED <<def, source, pin, load, directive, names, seen, known,
                    judged, batch, first>>

\* The records pass 2 keeps: it judges each again, by the resolved checks.
Survivors ==
  Picked([k \in DOMAIN source.records |-> k],
         {k \in DOMAIN source.records :
            ~ViolatesAny(Row(k), resolution.checks)})

Cells(k) ==
  [j \in DOMAIN resolution.fields |->
     Build(ValueAt(Row(k), resolution.fields[j]), resolution.fields[j].type)]

\* ChunkPlan::assemble: a null in a column that is not nullable is refused.
BatchCode(rows) ==
  FirstCode(<<
    Code(\E i \in DOMAIN rows : \E j \in DOMAIN rows[i] : ~rows[i][j].ok,
         "schema_coercion_failed"),
    Code(\E i \in DOMAIN rows : \E j \in DOMAIN rows[i] :
           ~resolution.fields[j].nullable /\ rows[i][j] = Some(NullCell),
         "record_batch_creation_failed")>>)

\* The pin is written first (persist_pinned_schema); then the chunk is built.
BuildChunk ==
  LET rows == [j \in DOMAIN Survivors |-> Cells(Survivors[j])]
  IN /\ pc = "build"
     /\ pin' = IF resolution.pinWrite.ok THEN resolution.pinWrite ELSE pin
     /\ batch' = [j \in DOMAIN rows |->
                    [record |-> Survivors[j], cells |-> rows[j]]]
     /\ Fails(BatchCode(rows))
     /\ UNCHANGED <<def, source, load, directive, names, seen, known, judged,
                    resolution, rejections, first>>

\* The definition runs again, over the same records, in either order.
RunAgain ==
  /\ pc = "over" /\ load = 1
  /\ load' = 2 /\ pc' = "configure"
  /\ first' = Some([result |-> result, resolution |-> resolution,
                    batch |-> batch, source |-> source])
  /\ \E records \in {source.records, Reverse(source.records)} :
       source' = [header |-> source.header, records |-> records]
  /\ directive' = None /\ names' = <<>> /\ seen' = NoTypes /\ known' = None
  /\ judged' = <<>> /\ resolution' = NotRun /\ rejections' = <<>>
  /\ batch' = <<>> /\ result' = "running"
  /\ UNCHANGED <<def, pin>>

Next == Configure \/ Observe \/ Finish \/ BuildChunk \/ RunAgain

Spec == Init /\ [][Next]_vars

-----------------------------------------------------------------------------
(* Properties.                                                             *)

Resolved == pc \in {"build", "over"} /\ resolution.code = "ok"

\* A record that survived validation builds: no chunk of survivors fails on a
\* value its column cannot hold or on a null where none may stand.  That is
\* what lets the column builders treat their coercion arms as unreachable, for
\* inferred types (which must admit every survivor's value), pinned ones and
\* overridden ones alike (fits_expected_type, build_json_array).
SurvivorsBuild ==
  result \notin {"schema_coercion_failed", "record_batch_creation_failed"}

\* What pass 1 made of a record is what pass 2 makes of it.  Pass 1 judged
\* before the end of input: CSV by a probe of the header, JSONL by the checks
\* of the directive alone, through addresses looked up backwards from dataset
\* names.  Whenever the verdict passes, the resolved checks agree with it on
\* every record, and name a cause for each one rejected; when the verdict of a
\* CSV load fails, no rejection was streamed (directive_checks, rejection_for).
PassesAgree ==
  /\ Resolved => \A k \in DOMAIN judged :
       /\ judged[k] # "unjudged"
       /\ (judged[k] = "rejected") = ViolatesAny(Row(k), resolution.checks)
       /\ (judged[k] = "rejected") =
            (\E r \in DOMAIN rejections : /\ rejections[r].record = k
                                          /\ rejections[r].names.ok)
  /\ pc = "over" /\ resolution.code \notin {"ok", "not resolved"}
       => rejections = <<>>

\* What a number or a clock reading denotes, from its digits: a reference for
\* the parsers.  Numbers are compared in units of 10^-UnitDigits.
NumberOf(text) ==
  LET whole == Digits(text.int \o text.frac)
                 * 10 ^ (UnitDigits - Len(text.frac))
                 * 10 ^ (IF text.exponent.ok THEN text.exponent.value ELSE 0)
  IN IF text.sign = "-" THEN 0 - whole ELSE whole

InstantOf(text, zoned) ==
  LET east == IF zoned THEN text.zone.sign
                              * (60 * text.zone.hours + text.zone.minutes) * 60
                       ELSE 0
  IN [seconds |-> text.seconds - east, frac |-> text.frac]

\* The cell denotes what the text says.
TextDenoted(cell, type, text) ==
  CASE cell.is = "utf8" -> cell.value = text
    [] cell.is = "boolean" -> text.form = "Flag" /\ cell.value = text.flag
    [] cell.is = "int64" ->
         /\ text.form = "Number" /\ ~ZeroPadded(text)
         /\ cell.value * 10 ^ UnitDigits = NumberOf(text)
    [] cell.is = "float64" ->
         /\ text.form = "Number" /\ ~ZeroPadded(text)
         /\ cell.value = NumberOf(text)
    [] cell.is = "decimal" ->
         /\ text.form = "Number"
         /\ cell.value * 10 ^ UnitDigits = NumberOf(text) * 10 ^ type.scale
         /\ cell.value \in -(10 ^ type.precision) + 1 .. 10 ^ type.precision - 1
    [] OTHER ->
         LET instant == InstantOf(text, cell.is = "timestamptz")
         IN /\ cell.value \div 10 ^ FractionDigits = instant.seconds
            /\ Digits(instant.frac) * 10 ^ FractionDigits =
                 (cell.value % 10 ^ FractionDigits) * 10 ^ Len(instant.frac)

JsonDenoted(cell, type, value) ==
  IF cell.is = "utf8" THEN cell.value = Rendered(value)
  ELSE IF value.kind = "string" THEN TextDenoted(cell, type, value.text)
  ELSE CASE cell.is = "boolean" -> value.kind = "boolean" /\ cell.value = value.flag
         [] cell.is = "int64" -> value.kind = "number" /\ value.int
                                   /\ cell.value = value.n
         [] cell.is = "float64" ->
              /\ value.kind = "number"
              /\ cell.value = IF value.int THEN value.n * 10 ^ UnitDigits
                                           ELSE value.n
         [] OTHER -> /\ cell.is = "decimal" /\ value.kind = "number" /\ value.int
                     /\ cell.value = value.n * 10 ^ type.scale

\* When a value cannot be stored for the cause named.
CauseHolds(value, type, cause) ==
  LET text == IF Csv THEN value.value
              ELSE IF value.kind = "string" THEN value.text ELSE Word
      clock == text.form = "Clock"
  IN CASE cause = "overflow" ->
            LET units == IF text.form = "Number" THEN NumberOf(text)
                                                 ELSE AsFloat(value)
            IN \/ units >= 10 ^ (UnitDigits + type.precision - type.scale)
               \/ -units >= 10 ^ (UnitDigits + type.precision - type.scale)
       [] cause = "too many fraction digits" -> Len(text.frac) > type.scale
       [] cause = "exponent" -> text.exponent.ok
       [] cause = "thousands separators" -> text.commas
       [] cause = "not plain decimal digits" ->
            text.form = "Number" =>
              \/ text.int = <<>>
              \/ text.point /\ text.frac = <<>>
              \/ text.commas /\ text.exponent.ok
       [] cause = "JSON float" -> ~value.int
       [] cause = "JSON kind" -> value.kind \notin {"string", "number"}
       [] cause = "epoch number" ->
            text.form = "Number" \/ (~Csv /\ value.kind = "number")
       [] cause = "no time part" -> text.form = "Day"
       [] cause = "fraction too long" -> clock /\ Len(text.frac) > FractionDigits
       [] cause = "carries an offset" -> clock /\ text.zone.kind = "offset"
       [] cause = "text after the clock" -> clock /\ text.zone # NoZone
       [] cause = "offset missing" -> clock /\ text.zone = NoZone
       [] cause = "offset malformed" -> clock /\ ~ParseOffset(text.zone).ok
       [] cause = "not a clock reading" ->
            clock => ~text.calendar \/ (text.point /\ text.frac = <<>>)
       [] OTHER -> HasLatticeType(type)

\* Nothing is rounded, truncated or shifted on the way in: each cell of the
\* chunk denotes what its record says at the source its dataset name was given
\* by the transform, null for null, whatever type the plan settled on
\* (parse_decimal_scaled, parse_timestamptz_micros, resolve_transform).  And a
\* value its field's type cannot hold is refused for a cause it has, though the
\* cause is read from it anew (text_misfit_cause, json_misfit_cause).
ValuesExact ==
  /\ \A i \in DOMAIN batch : \A j \in DOMAIN resolution.fields :
       LET field == resolution.fields[j]
           value == ValueAt(Row(batch[i].record), field)
           cell == batch[i].cells[j]
       IN cell.ok =>
            IF Absent(value) THEN cell.value = NullCell
            ELSE /\ cell.value.is = field.type.kind
                 /\ IF Csv
                      THEN TextDenoted(cell.value, field.type, value.value)
                      ELSE JsonDenoted(cell.value, field.type, value)
  /\ Resolved => \A r \in DOMAIN rejections :
       LET named == rejections[r].names.value
       IN named.code = "type_coercion_failed" =>
            \E j \in DOMAIN resolution.fields :
              LET field == resolution.fields[j]
                  value == ValueAt(Row(rejections[r].record), field)
              IN /\ field.name = named.field
                 /\ ~Absent(value) /\ ~Fits(value, field.type)
                 /\ CauseHolds(value, field.type, named.cause)

\* The names of a resolved dataset are the definition's: a name two columns
\* share passed through from a header that repeats it, and a JSONL name is
\* looked up backwards to the very source its column reads
\* (json_source_address, transform_name_collision).
NamesResolve ==
  Resolved => \A i \in DOMAIN resolution.columns :
    LET column == resolution.columns[i]
    IN /\ \A j \in DOMAIN resolution.columns :
            /\ i # j /\ resolution.columns[j].name = column.name
            => column.source = <<column.name>>
       /\ ~Csv => JsonSource(directive.transform, column.name) = column.source

\* A rejection names a true fault of its record: a null where the field is
\* required, and for the merge key whenever any key is null; else a value its
\* field's type cannot hold (null_value_rejection, ResolvedPlan::rejection_for).
RejectionsTrue ==
  Resolved => \A r \in DOMAIN rejections :
    LET row == Row(rejections[r].record)
        named == rejections[r].names.value
        nullKey == \E k \in DOMAIN def.keys :
          Absent(ValueAt(row, ColumnOf(resolution.columns, def.keys[k])))
    IN /\ nullKey = (named.code = "null_merge_key")
       /\ \E j \in DOMAIN resolution.fields :
            LET field == resolution.fields[j]
                value == ValueAt(row, field)
            IN /\ field.name = named.field
               /\ named.sourceField =
                    When(field.source # <<field.name>>, field.source)
               /\ CASE named.code = "null_merge_key" ->
                         Absent(value) /\ field.name \in Range(def.keys)
                    [] named.code = "missing_required_field" ->
                         Absent(value) /\ ~field.nullable
                    [] OTHER -> ~Absent(value) /\ ~Fits(value, field.type)

FieldNamed(fields, name) ==
  fields[SelectInSeq(fields, LAMBDA f : f.name = name)]

\* Loading the same records again, in whatever order they come, ends where
\* the first load did: under the pin it wrote or extended, or with no pin at
\* all, the same records survive and every field has the type it had.  A
\* header that names a field twice is left out: its pin reads as drift.
LoadsConverge ==
  LET was == first.value
      Kept(chunk, records) == [k \in DOMAIN chunk |-> records[chunk[k].record]]
  IN /\ pc = "over" /\ load = 2 /\ was.result = "ok"
     /\ IsInjective([k \in DOMAIN was.resolution.columns |->
                       was.resolution.columns[k].name])
     => /\ result = "ok"
        /\ ~resolution.pinWrite.ok
        /\ NameSet(resolution.fields) = NameSet(was.resolution.fields)
        /\ \A j \in DOMAIN resolution.fields :
             LET now == resolution.fields[j]
                 then == FieldNamed(was.resolution.fields, now.name)
             IN now.type = then.type /\ now.nullable = then.nullable
        /\ Kept(batch, source.records) \in
             {Kept(was.batch, was.source.records),
              Reverse(Kept(was.batch, was.source.records))}
=============================================================================
