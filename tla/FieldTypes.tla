----------------------------- MODULE FieldTypes -----------------------------
(***************************************************************************)
(* Values and types (schema.rs): the observation lattice, the field types  *)
(* a schema may declare, when a value fits a type, why it does not, and    *)
(* the cell a fitting value is stored as.                                  *)
(*                                                                         *)
(* A CSV cell or a JSON string is a text:                                  *)
(*   Flag     true or false, in one of its three spellings                 *)
(*   Number   sign, digits, point, fraction digits, exponent, separators   *)
(*   Clock    a fixed-width date and time, and what follows it             *)
(*   Day      a date alone                                                 *)
(*   Word     anything else; "inf" and "nan" are among the words, since    *)
(*            they parse to no finite number                               *)
(* Definitions named Bug... are not part of the model: each is a plausible *)
(* mistake in the definition that follows it.                              *)
(***************************************************************************)
EXTENDS Integers, Sequences, SequencesExt

CONSTANTS
  MaxInt,          \* i64::MAX
  MaxExponent,     \* the largest exponent a finite f64 takes
  MaxPrecision,    \* 38
  FractionDigits,  \* 6: the fraction digits a timestamp stores
  UnitDigits       \* the fraction digits numbers are compared in here

ASSUME FieldTypesAssumption ==
  {MaxInt, MaxExponent, MaxPrecision, FractionDigits, UnitDigits}
    \subseteq Nat \ {0}

Some(x) == [ok |-> TRUE, value |-> x]
None == [ok |-> FALSE]
When(condition, x) == IF condition THEN Some(x) ELSE None

NumberText(sign, int, frac) ==
  [form |-> "Number", sign |-> sign, int |-> int, point |-> frac # <<>>,
   frac |-> frac, exponent |-> None, commas |-> FALSE]
ClockText(seconds, frac, zone) ==
  [form |-> "Clock", seconds |-> seconds, calendar |-> TRUE,
   point |-> frac # <<>>, frac |-> frac, zone |-> zone]
Flag(b) == [form |-> "Flag", flag |-> b]
Day(calendar) == [form |-> "Day", calendar |-> calendar]
Word == [form |-> "Word"]

\* What follows the clock reading: nothing, Z or +-hh:mm, or other text.
NoZone == [kind |-> "nothing"]
Offset(sign, hours, minutes) ==
  [kind |-> "offset", sign |-> sign, hours |-> hours, minutes |-> minutes]
Junk == [kind |-> "junk"]

JsonNull == [kind |-> "null"]
JsonBool(b) == [kind |-> "boolean", flag |-> b]
JsonInt(n) == [kind |-> "number", int |-> TRUE, n |-> n]   \* an i64 or a u64
JsonFloat(units) == [kind |-> "number", int |-> FALSE, n |-> units]
JsonString(text) == [kind |-> "string", text |-> text]
JsonArray == [kind |-> "array"]
JsonObject(fields) == [kind |-> "object", fields |-> fields]
Missing == [kind |-> "missing"]

IsNull(value) == value.kind \in {"null", "missing"}

-----------------------------------------------------------------------------
(* Types.                                                                  *)

Type(kind) == [kind |-> kind, precision |-> 0, scale |-> 0]
Decimal(p, s) == [kind |-> "decimal", precision |-> p, scale |-> s]

\* Inference reaches these four; the rest enter by declaration only.
Inferable == {"boolean", "int64", "float64", "utf8"}
HasLatticeType(type) == type.kind \in Inferable

\* parse_type_name: what a pin or an override may name as a type.
KnownType(type) ==
  \/ type.kind \in Inferable \union {"timestamp", "timestamptz"}
  \/ /\ type.kind = "decimal"
     /\ type.precision \in 1 .. MaxPrecision
     /\ type.scale \in 0 .. type.precision

\* InferredType::merge: the narrowest observed type that holds both.
Merge(a, b) ==
  CASE a = "null" -> b
    [] b = "null" -> a
    [] a = b -> a
    [] {a, b} = {"int64", "float64"} -> "float64"
    [] OTHER -> "utf8"

\* InferredType::field_type
FieldType(observed) ==
  Type(IF observed = "null" THEN "utf8" ELSE observed)

-----------------------------------------------------------------------------
(* Text.                                                                   *)

Digits(ds) == FoldLeft(LAMBDA n, d : 10 * n + d, 0, ds)
Signed(sign, n) == IF sign = "-" THEN -n ELSE n

ZeroPadded(text) ==
  text.form = "Number" /\ Len(text.int) > 1 /\ text.int[1] = 0

ParseInt(text) ==
  LET n == Signed(text.sign, Digits(text.int))
  IN When(/\ text.form = "Number" /\ text.int # <<>>
          /\ ~text.point /\ ~text.exponent.ok /\ ~text.commas
          /\ n \in -MaxInt - 1 .. MaxInt,
          n)

\* str::parse::<f64>, and the parse is finite.  A float is its exact value, in
\* units of 10^-UnitDigits: the rounding of binary floating point is left out.
ParsesFloat(text) ==
  text.form = "Number" /\ ~text.commas /\ (text.int # <<>> \/ text.frac # <<>>)

ParseFinite(text) ==
  When(/\ ParsesFloat(text)
       /\ text.exponent.ok => text.exponent.value <= MaxExponent,
       Signed(text.sign,
              Digits(text.int) * 10 ^ UnitDigits
                + Digits(text.frac) * 10 ^ (UnitDigits - Len(text.frac)))
         * 10 ^ (IF text.exponent.ok THEN text.exponent.value ELSE 0))

\* infer_text_type: a reading that would lose information is not taken.
InferText(text) ==
  IF text.form = "Flag" THEN "boolean"
  ELSE IF ZeroPadded(text) THEN "utf8"
  ELSE IF ParseInt(text).ok THEN "int64"
  ELSE IF ParseFinite(text).ok THEN "float64"
  ELSE "utf8"

\* split_plain_decimal: an optional sign, digits, at most one point with
\* digits on both sides.
PlainDecimal(text) ==
  /\ text.form = "Number"
  /\ ~text.exponent.ok /\ ~text.commas
  /\ text.int # <<>> /\ (text.point => text.frac # <<>>)

Bounded(scaled, p) ==
  When(-(10 ^ p) < scaled /\ scaled < 10 ^ p, scaled)

\* parse_decimal_scaled.  Its i128 arithmetic is checked, and no precision up
\* to 38 leaves its range.
ParseDecimal(text, p, s) ==
  IF PlainDecimal(text) /\ Len(text.frac) <= s
    THEN Bounded(Signed(text.sign, Digits(text.int \o text.frac)
                                     * 10 ^ (s - Len(text.frac))), p)
    ELSE None

\* rescale_decimal_integer
RescaleInteger(n, p, s) == Bounded(n * 10 ^ s, p)

\* parse_datetime_prefix: the clock reading in the stored fraction unit.  The
\* calendar and the 00-59 second range are chrono's.
ParseClock(text) ==
  When(/\ text.form = "Clock" /\ text.calendar
       /\ text.point => Len(text.frac) \in 1 .. FractionDigits,
       text.seconds * 10 ^ FractionDigits
         + Digits(text.frac) * 10 ^ (FractionDigits - Len(text.frac)))

\* parse_offset_seconds: seconds east of UTC.
ParseOffset(zone) ==
  When(/\ zone.kind = "offset" /\ zone.hours <= 23 /\ zone.minutes <= 59,
       zone.sign * (zone.hours * 3600 + zone.minutes * 60))

BugAddsOffset(text) ==
  LET offset == ParseOffset(text.zone)
  IN When(ParseClock(text).ok /\ offset.ok,
          ParseClock(text).value + offset.value * 10 ^ FractionDigits)

ParseTimestamp(text) ==
  IF ParseClock(text).ok /\ text.zone.kind = "nothing"
    THEN ParseClock(text) ELSE None

ParseTimestamptz(text) ==
  LET offset == ParseOffset(text.zone)
  IN When(ParseClock(text).ok /\ offset.ok,
          ParseClock(text).value - offset.value * 10 ^ FractionDigits)

-----------------------------------------------------------------------------
(* Fit: whether a value may stand in a field of a type.                    *)

\* fits_expected_type
Widens(observed, type) ==
  HasLatticeType(type) /\ Merge(observed, type.kind) = type.kind

\* parse_declared_timestamp
ParseMoment(text, type) ==
  IF type.kind = "timestamp" THEN ParseTimestamp(text)
                             ELSE ParseTimestamptz(text)

TextFits(text, type) ==
  CASE type.kind \in {"timestamp", "timestamptz"} -> ParseMoment(text, type).ok
    [] type.kind = "decimal" ->
         ParseDecimal(text, type.precision, type.scale).ok
    [] OTHER -> Widens(InferText(text), type)

IsI64(value) == value.int /\ value.n \in -MaxInt - 1 .. MaxInt

BugUnsignedIsInt64(value) ==
  CASE value.kind = "null" -> "null"
    [] value.kind = "boolean" -> "boolean"
    [] value.kind = "number" -> IF value.int THEN "int64" ELSE "float64"
    [] OTHER -> "utf8"

\* infer_json_type: a string stays text however numeric it looks.
InferJson(value) ==
  CASE value.kind = "null" -> "null"
    [] value.kind = "boolean" -> "boolean"
    [] value.kind = "number" -> IF IsI64(value) THEN "int64" ELSE "float64"
    [] OTHER -> "utf8"

JsonFits(value, type) ==
  CASE type.kind \in {"timestamp", "timestamptz"} ->
         value.kind = "string" /\ ParseMoment(value.text, type).ok
    [] type.kind = "decimal" ->
         \/ /\ value.kind = "string"
            /\ ParseDecimal(value.text, type.precision, type.scale).ok
         \/ /\ value.kind = "number" /\ value.int
            /\ RescaleInteger(value.n, type.precision, type.scale).ok
    [] OTHER -> Widens(InferJson(value), type)

-----------------------------------------------------------------------------
(* The cause a rejection names for a value that missed a declared type.    *)

\* clock_misfit_cause, with fraction_exceeds_six_digits.
ClockCause(text) ==
  CASE /\ text.form = "Number" /\ text.sign = "" /\ text.int # <<>>
       /\ ~text.point /\ ~text.exponent.ok /\ ~text.commas -> "epoch number"
    [] text.form = "Day" /\ text.calendar -> "no time part"
    [] /\ text.form = "Clock" /\ text.calendar
       /\ Len(text.frac) > FractionDigits -> "fraction too long"
    [] OTHER -> "not a clock reading"

MomentCause(text, type) ==
  IF ~ParseClock(text).ok THEN ClockCause(text)
  ELSE IF text.zone.kind = "nothing"
    THEN IF type.kind = "timestamptz" THEN "offset missing"
                                      ELSE ClockCause(text)
  ELSE IF type.kind = "timestamp"
    THEN IF ParseOffset(text.zone).ok THEN "carries an offset"
                                      ELSE "text after the clock"
  ELSE IF ~ParseOffset(text.zone).ok THEN "offset malformed"
                                     ELSE ClockCause(text)

\* decimal_misfit_cause
DecimalCause(text, s) ==
  CASE PlainDecimal(text) ->
         IF Len(text.frac) > s THEN "too many fraction digits" ELSE "overflow"
    [] text.form = "Number" /\ text.exponent.ok /\ ParsesFloat(text) ->
         "exponent"
    [] text.form = "Number" /\ PlainDecimal([text EXCEPT !.commas = FALSE]) ->
         "thousands separators"
    [] OTHER -> "not plain decimal digits"

\* text_misfit_cause; a lattice type's misfit names none.
TextCause(text, type) ==
  CASE type.kind \in {"timestamp", "timestamptz"} -> MomentCause(text, type)
    [] type.kind = "decimal" -> DecimalCause(text, type.scale)
    [] OTHER -> "none"

JsonCause(value, type) ==
  IF HasLatticeType(type) THEN "none"
  ELSE CASE value.kind = "string" -> TextCause(value.text, type)
         [] value.kind = "number" ->
              IF type.kind # "decimal" THEN "epoch number"
              ELSE IF value.int THEN "overflow" ELSE "JSON float"
         [] OTHER -> "JSON kind"

-----------------------------------------------------------------------------
(* Build: the cell a value is stored as, None where the column builder     *)
(* fails the load (schema_coercion_failed).                                *)

NullCell == [is |-> "null"]
Cell(kind, parsed) ==
  IF parsed.ok THEN Some([is |-> kind, value |-> parsed.value]) ELSE None

\* The text arms the two builders share.
BuildDeclared(type, text) ==
  Cell(type.kind,
       IF type.kind = "decimal"
         THEN ParseDecimal(text, type.precision, type.scale)
         ELSE ParseMoment(text, type))

\* build_text_array, one cell; a cell is None where the CSV field is empty.
BuildText(type, cell) ==
  IF ~cell.ok THEN Some(NullCell)
  ELSE CASE type.kind = "utf8" -> Cell("utf8", cell)
         [] type.kind = "boolean" ->
              Cell("boolean", When(cell.value.form = "Flag", cell.value.flag))
         [] type.kind = "int64" -> Cell("int64", ParseInt(cell.value))
         [] type.kind = "float64" -> Cell("float64", ParseFinite(cell.value))
         [] OTHER -> BuildDeclared(type, cell.value)

\* serde_json::Number::as_f64
AsFloat(value) == IF value.int THEN value.n * 10 ^ UnitDigits ELSE value.n

\* json_scalar_to_string: a string keeps its value, the rest is rendered.
Rendered(value) == IF value.kind = "string" THEN value.text ELSE value

\* build_json_array, one cell.
BuildJson(type, value) ==
  IF IsNull(value) THEN Some(NullCell)
  ELSE CASE type.kind = "utf8" -> Cell("utf8", Some(Rendered(value)))
         [] type.kind = "boolean" ->
              Cell("boolean", When(value.kind = "boolean", value.flag))
         [] type.kind = "int64" ->
              Cell("int64", When(value.kind = "number" /\ IsI64(value), value.n))
         [] type.kind = "float64" ->
              Cell("float64", When(value.kind = "number", AsFloat(value)))
         [] OTHER ->
              IF value.kind = "string" THEN BuildDeclared(type, value.text)
              ELSE IF /\ type.kind = "decimal" /\ value.kind = "number"
                      /\ value.int
                THEN Cell("decimal",
                          RescaleInteger(value.n, type.precision, type.scale))
                ELSE None
=============================================================================
