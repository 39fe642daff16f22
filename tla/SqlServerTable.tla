--------------------------- MODULE SqlServerTable ---------------------------
(***************************************************************************)
(* What a load's values become in a SQL Server table: the created shape,   *)
(* the Accept Family an existing table must be in (sqlserver/table.rs),    *)
(* the bulk row plan, the wire values (sqlserver.rs) and the statements    *)
(* that carry them (sqlserver/session.rs).  Chunks, transactions and lost  *)
(* connections are SqlServerSession; here a load is one chunk, and it      *)
(* lands whole or not at all.  The server's conversions are external.      *)
(*                                                                         *)
(* A dataset value is an integer: a timestamp counts units of              *)
(* 10^-UnitDigits seconds from the epoch, a decimal is unscaled, a text is *)
(* its length, below zero when a code page cannot spell it.  A cell of a   *)
(* table is a count of days and of parts of a day or of a whole; NULL is   *)
(* None.                                                                   *)
(* Definitions named Bug... are not part of the model: each is a plausible *)
(* mistake in the definition that follows it.                              *)
(***************************************************************************)
EXTENDS FieldTypes, Lists

CONSTANTS
  Families,          \* families of loads: their jobs, and tables they may meet
  SecondsPerDay,     \* 86,400
  TicksPerSecond,    \* 300: the ticks of DATETIME
  EpochDay,          \* 719,162: 1970-01-01 counted from 0001-01-01
  FirstDatetimeDay,  \* 639,905: 1753-01-01
  LastDay,           \* 3,652,058: 9999-12-31
  IntMax, SmallIntMax, TinyIntMax,
  TextMax            \* the longest text the driver sends to NVARCHAR(MAX)

ASSUME SqlServerTableAssumption ==
  /\ {SecondsPerDay, TicksPerSecond, EpochDay, FirstDatetimeDay, LastDay,
      IntMax, SmallIntMax, TinyIntMax, TextMax} \subseteq Nat \ {0}
  /\ FirstDatetimeDay < EpochDay /\ EpochDay < LastDay
  /\ SmallIntMax < IntMax /\ IntMax < MaxInt

\* Powers of ten grow: arithmetic that is no part of the provers'.
ASSUME PowersAssumption ==
  /\ UnitDigits <= MaxPrecision
  /\ \A n \in 0 .. MaxPrecision : 10^n \in Nat \ {0}
  /\ \A m, n \in 0 .. MaxPrecision : m < n => 10^m < 10^n

Names(columns) == [i \in DOMAIN columns |-> columns[i].name]
Length(n) == IF n < 0 THEN -n ELSE n

\* What a chunk's column of a type holds.
Admits(type, n) ==
  /\ n \in Int
  /\ type.kind = "int64" => n \in -MaxInt - 1 .. MaxInt
  /\ type.kind = "decimal" => Length(n) < 10^type.precision

Modes == {"full_refresh", "append", "merge"}

\* What a load is asked.  Its keys are those of a merge of these records, whose
\* null keys are rejected before the write.
WellFormed(j) ==
  /\ j = [fields |-> j.fields, mode |-> j.mode, keys |-> j.keys,
          rounding |-> j.rounding, records |-> j.records]
  /\ j.mode \in Modes
  /\ Listed(j.fields) /\ Listed(j.records)
  /\ \A i \in DOMAIN j.fields :
       KnownType(j.fields[i].type) /\ j.fields[i].nullable \in BOOLEAN
  /\ j.keys \subseteq Range(Names(j.fields))
  /\ \A r \in DOMAIN j.records, i \in DOMAIN j.fields :
       LET value == j.records[r][i]
       IN \/ /\ value = None
             /\ j.fields[i].nullable /\ j.fields[i].name \notin j.keys
          \/ value = Some(value.value) /\ Admits(j.fields[i].type, value.value)

\* A catalog names each column of a table once.
Catalogued(columns) ==
  /\ Listed(columns) /\ IsInjective(Names(columns))
  /\ \A i \in DOMAIN columns : columns[i].scale \in 0 .. MaxPrecision

ASSUME FamiliesAssumption ==
  \A family \in Families :
    /\ \A j \in family.jobs : WellFormed(j)
    /\ \A t \in family.tables \ {None} :
         t = Some(t.value) /\ Catalogued(t.value)

VARIABLES
  job,     \* what the load is asked: fields, mode, keys, rounding, records
  table,   \* the columns of the destination table, None when it is missing
  rows,    \* its rows: a cell for each column
  before,  \* its rows when the load began
  sent,    \* the rows handed to the server so far
  pc,
  code,    \* what the load returned
  first    \* the load before this one, and what it returned
vars == <<job, table, rows, before, sent, pc, code, first>>

Has(columns, name) == \E i \in DOMAIN columns : columns[i].name = name
Position(columns, name) ==
  CHOOSE i \in DOMAIN columns :
    columns[i].name = name /\ \A j \in 1 .. i - 1 : columns[j].name # name

-----------------------------------------------------------------------------
(* The shape a dataset schema creates.                                     *)

\* ColumnType::from_arrow and its ddl, as the catalog then shows it.
CreatedType(type) ==
  CASE type.kind = "int64"   -> [type |-> "bigint", precision |-> 0, scale |-> 0]
    [] type.kind = "float64" -> [type |-> "float", precision |-> 53, scale |-> 0]
    [] type.kind = "boolean" -> [type |-> "bit", precision |-> 0, scale |-> 0]
    [] type.kind = "utf8"    -> [type |-> "nvarchar", precision |-> 0, scale |-> 0]
    [] type.kind = "decimal" -> [type |-> "decimal", precision |-> type.precision,
                                 scale |-> type.scale]
    [] OTHER -> [type |-> "datetime2", precision |-> 0, scale |-> UnitDigits]

\* column_ddl
Declared(field, nullable) ==
  LET created == CreatedType(field.type)
  IN [name |-> field.name, type |-> created.type, precision |-> created.precision,
      scale |-> created.scale, max_length |-> -1, nullable |-> nullable,
      identity |-> FALSE, has_default |-> FALSE]

BugCreatesNotNull(field) == Declared(field, FALSE)

CreatedColumn(field) == Declared(field, field.nullable)

Created(fields) == [i \in DOMAIN fields |-> CreatedColumn(fields[i])]

-----------------------------------------------------------------------------
(* The Accept Family.                                                      *)

\* A catalog row with a NULL type name is malformed metadata.
NoType == ""
Readable(columns) == \A i \in DOMAIN columns : columns[i].type # NoType

Timestamps == {"timestamp", "timestamptz"}

BugAcceptsAnyScale(type, column, rounding) ==
  CASE type.kind = "int64" ->
         column.type \in {"bigint", "int", "smallint", "tinyint"}
    [] type.kind = "decimal" -> column.type \in {"decimal", "numeric"}
    [] type.kind \in Timestamps ->
         IF column.type = "datetime2" THEN column.scale >= UnitDigits \/ rounding
         ELSE column.type = "datetime" /\ rounding
    [] OTHER ->
         /\ column.type = CreatedType(type).type
         /\ column.type = "float" => column.precision = 53

Accepted(type, column, rounding) ==
  CASE type.kind = "int64" ->
         column.type \in {"bigint", "int", "smallint", "tinyint"}
    [] type.kind = "decimal" ->
         column.type \in {"decimal", "numeric"} /\ column.scale = type.scale
    [] type.kind \in Timestamps ->
         IF column.type = "datetime2" THEN column.scale >= UnitDigits \/ rounding
         ELSE column.type = "datetime" /\ rounding
    [] OTHER ->
         /\ column.type = CreatedType(type).type
         /\ column.type = "float" => column.precision = 53

KeysOf(j) == IF j.mode = "merge" THEN j.keys ELSE {}

FieldAccepted(field, columns, j) ==
  /\ Has(columns, field.name)
  /\ LET column == columns[Position(columns, field.name)]
     IN /\ Accepted(field.type, column, j.rounding)
        /\ field.nullable => column.nullable
        /\ column.identity => field.name \in KeysOf(j)
        /\ column.has_default /\ field.nullable => j.mode = "merge"

ExtraAccepted(column, fields) ==
  \/ Has(fields, column.name)
  \/ column.nullable \/ column.identity \/ column.has_default

\* TableShape::validate
Validates(columns, j) ==
  /\ \A i \in DOMAIN j.fields : FieldAccepted(j.fields[i], columns, j)
  /\ \A i \in DOMAIN columns : ExtraAccepted(columns[i], j.fields)

-----------------------------------------------------------------------------
(* The bulk row plan: the table columns a row carries, in their order, the *)
(* field each one reads, and the column whose width the wire value takes   *)
(* (merge and the table it creates take the dataset's own).                *)

\* BulkRowPlan::new refuses a dataset that names a field twice.
Plannable(fields) == IsInjective(Names(fields))

Planned(name, fields, wire) ==
  [name |-> name, field |-> Position(fields, name), wire |-> wire]

EntryFor(plan, name) == IF Has(plan, name) THEN Position(plan, name) ELSE 0

PlanOf(columns, j) ==
  IF j.mode = "merge" \/ ~columns.ok
  THEN [i \in DOMAIN j.fields |-> Planned(j.fields[i].name, j.fields, None)]
  ELSE LET mapped == Picked(columns.value, {i \in DOMAIN columns.value :
                                             Has(j.fields, columns.value[i].name)})
       IN [i \in DOMAIN mapped |->
             Planned(mapped[i].name, j.fields, Some(mapped[i]))]

-----------------------------------------------------------------------------
(* Wire values.                                                            *)

UnitsPerDay == SecondsPerDay * 10^UnitDigits
Whole(n, rate) == [day |-> 0, part |-> n, rate |-> rate]

\* datetime2_from_micros; \div and % are div_euclid and rem_euclid.
MomentCell(units) ==
  LET day == units \div UnitsPerDay + EpochDay
  IN When(day \in 0 .. LastDay,
          [day |-> day, part |-> units % UnitsPerDay, rate |-> UnitsPerDay])

\* ColumnReader::value of a present value; None is a write failure.
WireCell(type, n) ==
  CASE type.kind \in Timestamps -> MomentCell(n)
    [] type.kind = "decimal" -> Some(Whole(n, 10^type.scale))
    [] OTHER -> Some(Whole(n, 1))

\* Half of the last digit is added, and a full day is carried over.
RoundedTo(cell, rate) ==
  LET ticks == (cell.part * rate + cell.rate \div 2) \div cell.rate
  IN [day |-> cell.day + ticks \div rate, part |-> ticks % rate, rate |-> rate]

IntegerRange(name) ==
  CASE name = "bigint"   -> -MaxInt - 1 .. MaxInt
    [] name = "int"      -> -IntMax - 1 .. IntMax
    [] name = "smallint" -> -SmallIntMax - 1 .. SmallIntMax
    [] name = "tinyint"  -> 0 .. TinyIntMax

BugCutOff(cell, column) ==
  IF column.type = "datetime2" /\ column.scale < UnitDigits
  THEN LET rate == SecondsPerDay * 10^column.scale
       IN Some([cell EXCEPT !.part = (@ * rate) \div cell.rate, !.rate = rate])
  ELSE Some(cell)

\* adapt_value
Adapted(cell, column) ==
  CASE column.type \in {"int", "smallint", "tinyint"} ->
         When(cell.part \in IntegerRange(column.type), cell)
    [] column.type = "datetime" ->
         LET moment == RoundedTo(cell, SecondsPerDay * TicksPerSecond)
         IN When(moment.day \in FirstDatetimeDay .. LastDay, moment)
    [] column.type = "datetime2" /\ column.scale < UnitDigits ->
         LET moment == RoundedTo(cell, SecondsPerDay * 10^column.scale)
         IN When(moment.day <= LastDay, moment)
    [] OTHER -> Some(cell)

\* The wire value of one planned column of one record: [ok, value], where the
\* value is an option.
Wire(entry, record, fields) ==
  LET n == record[entry.field]
      cell == WireCell(fields[entry.field].type, n.value)
      wired == IF entry.wire.ok THEN Adapted(cell.value, entry.wire.value)
               ELSE Some(cell.value)
  IN IF ~n.ok THEN Some(None)
     ELSE IF cell.ok /\ wired.ok THEN Some(Some(wired.value)) ELSE None

\* BulkRows::next: a row, or the failure that ends the rows.
WireRow(plan, record, fields) ==
  LET cells == [i \in DOMAIN plan |-> Wire(plan[i], record, fields)]
  IN When(\A i \in DOMAIN cells : cells[i].ok,
          [i \in DOMAIN cells |-> cells[i].value])

-----------------------------------------------------------------------------
(* The server, external: what it makes of a cell stored in a column.  It   *)
(* rounds fractions it has no room for without a word and refuses what is  *)
(* out of range; VARCHAR substitutes what its code page cannot spell.      *)

Stored(cell, column) ==
  CASE column.type \in {"bigint", "int", "smallint", "tinyint"} ->
         When(cell.part \in IntegerRange(column.type), cell)
    [] column.type \in {"nvarchar", "varchar"} ->
         When(column.max_length = -1 \/ 2 * Length(cell.part) <= column.max_length,
              IF column.type = "varchar" THEN Whole(Length(cell.part), 1)
              ELSE cell)
    [] column.type \in {"decimal", "numeric"} ->
         LET n == (cell.part * 10^column.scale + cell.rate \div 2)
                    \div cell.rate
         IN When(Length(n) < 10^column.precision, Whole(n, 10^column.scale))
    [] column.type = "real" -> Some([cell EXCEPT !.part = 2 * (@ \div 2)])
    [] column.type = "date" -> Some([cell EXCEPT !.part = 0])
    [] column.type = "datetime" ->
         LET moment == RoundedTo(cell, SecondsPerDay * TicksPerSecond)
         IN When(moment.day \in FirstDatetimeDay .. LastDay, moment)
    [] column.type = "datetime2" /\ cell.rate > SecondsPerDay * 10^column.scale ->
         LET moment == RoundedTo(cell, SecondsPerDay * 10^column.scale)
         IN When(moment.day <= LastDay, moment)
    [] OTHER -> Some(cell)

StoredOption(option, column) ==
  IF option.ok
  THEN LET cell == Stored(option.value, column)
       IN IF cell.ok THEN Some(Some(cell.value)) ELSE None
  ELSE IF column.nullable THEN Some(None) ELSE None

\* The server's own values; the n-th row of the table takes identity n.
Default == Whole(5, 1)
Supplied(column, n) ==
  IF column.identity THEN Some(Some(Whole(n, 1)))
  ELSE IF column.has_default THEN Some(Some(Default))
  ELSE IF column.nullable THEN Some(None) ELSE None

\* Bulk load keeps neither identities nor, where there is a default, NULLs.
BulkCell(column, plan, cells, n) ==
  LET at == EntryFor(plan, column.name)
  IN IF at = 0 \/ column.identity \/ (column.has_default /\ ~cells[at].ok)
     THEN Supplied(column, n)
     ELSE StoredOption(cells[at], column)

\* MERGE inserts what the statement lists, NULLs and, with IDENTITY_INSERT
\* on, identities too.
InsertCell(column, plan, cells, n) ==
  LET at == EntryFor(plan, column.name)
  IN IF at = 0 THEN Supplied(column, n) ELSE StoredOption(cells[at], column)

\* WHEN MATCHED THEN UPDATE: the non-key columns the plan has; an identity
\* column cannot be updated.
UpdateCell(column, plan, cells, old, keys) ==
  LET at == EntryFor(plan, column.name)
  IN IF at = 0 \/ column.name \in keys THEN Some(old)
     ELSE IF column.identity THEN None ELSE StoredOption(cells[at], column)

Settled(cells) ==
  When(\A i \in DOMAIN cells : cells[i].ok,
       [i \in DOMAIN cells |-> cells[i].value])

Same(a, b) ==
  /\ a.ok /\ b.ok
  /\ (a.value.day * a.value.rate + a.value.part) * b.value.rate =
       (b.value.day * b.value.rate + b.value.part) * a.value.rate

\* The predicate of the MERGE: unrounded staged keys against stored ones.
Matches(columns, plan, cells, row, keys) ==
  \A key \in keys :
    Same(row[Position(columns, key)],
         cells[EntryFor(plan, key)])

BulkInserted(columns, plan, sentRows, base) ==
  [r \in DOMAIN sentRows |->
     Settled([i \in DOMAIN columns |->
                BulkCell(columns[i], plan, sentRows[r], Len(base) + r)])]

MergeUpdated(columns, plan, staged, base, keys) ==
  [r \in DOMAIN base |->
     LET matching == {s \in DOMAIN staged :
                        Matches(columns, plan, staged[s], base[r], keys)}
     IN IF matching = {} THEN Some(base[r])
        ELSE LET cells == staged[CHOOSE s \in matching : TRUE]
             IN Settled([i \in DOMAIN columns |->
                           UpdateCell(columns[i], plan, cells, base[r][i], keys)])]

Unmatched(columns, plan, staged, base, keys) ==
  Picked(staged, {s \in DOMAIN staged :
    \A r \in DOMAIN base : ~Matches(columns, plan, staged[s], base[r], keys)})

MergeInserted(columns, plan, staged, base, keys) ==
  LET new == Unmatched(columns, plan, staged, base, keys)
  IN [r \in DOMAIN new |->
        Settled([i \in DOMAIN columns |->
                   InsertCell(columns[i], plan, new[r], Len(base) + r)])]

\* The duplicate-key gate, on the staging table.
DuplicateKeys(plan, staged, keys) ==
  \E r, s \in DOMAIN staged :
    /\ r < s
    /\ \A key \in keys :
         LET at == EntryFor(plan, key) IN Same(staged[r][at], staged[s][at])

-----------------------------------------------------------------------------
(* A load.                                                                 *)

NotRun == [code |-> "not_run"]

Init ==
  /\ \E family \in Families : job \in family.jobs /\ table \in family.tables
  /\ rows = <<>> /\ before = <<>> /\ sent = <<>>
  /\ pc = "begin" /\ code = "ok" /\ first = NotRun

Fails(why) ==
  /\ pc' = "over" /\ code' = why
  /\ UNCHANGED <<job, table, rows, before, sent, first>>

\* Writer::begin: only a full refresh may create the table.
Begin ==
  /\ pc = "begin"
  /\ IF job.mode # "full_refresh" /\ ~table.ok
     THEN Fails("destination_write_failed")
     ELSE /\ pc' = "prepare"
          /\ UNCHANGED <<job, table, rows, before, sent, code, first>>

\* prepare: the shape, its validation, and the plan.  The table a full refresh
\* creates goes with its transaction, so it is there for good from Land on.
PrepareVerdict ==
  IF table.ok /\ ~Readable(table.value) THEN "destination_write_failed"
  ELSE IF table.ok /\ ~Validates(table.value, job)
       THEN "incompatible_destination_table"
  ELSE IF ~Plannable(job.fields) THEN "destination_write_failed"
  ELSE "ok"

Prepare ==
  /\ pc = "prepare"
  /\ IF PrepareVerdict # "ok" THEN Fails(PrepareVerdict)
     ELSE /\ pc' = "send"
          /\ UNCHANGED <<job, table, rows, before, sent, code, first>>

Plan == PlanOf(table, job)
Columns == IF table.ok THEN table.value ELSE Created(job.fields)

\* What the driver refuses to send.
TooLong(cells) ==
  \E i \in DOMAIN cells :
    /\ cells[i].ok /\ job.fields[Plan[i].field].type.kind = "utf8"
    /\ Length(cells[i].value.part) > TextMax

Send ==
  /\ pc = "send" /\ Len(sent) < Len(job.records)
  /\ LET row == WireRow(Plan, job.records[Len(sent) + 1], job.fields)
     IN IF ~row.ok \/ TooLong(row.value) THEN Fails("destination_write_failed")
        ELSE /\ sent' = Append(sent, row.value)
             /\ UNCHANGED <<job, table, rows, before, pc, code, first>>

\* finalize, merge and commit: all of the load's rows, or none.
Outcome ==
  LET keys == KeysOf(job)
      base == IF job.mode = "full_refresh" THEN <<>> ELSE rows
  IN IF job.mode = "merge"
     THEN MergeUpdated(Columns, Plan, sent, base, keys)
            \o MergeInserted(Columns, Plan, sent, base, keys)
     ELSE [r \in DOMAIN base |-> Some(base[r])]
            \o BulkInserted(Columns, Plan, sent, base)

Land ==
  /\ pc = "send" /\ Len(sent) = Len(job.records)
  /\ IF job.mode = "merge" /\ DuplicateKeys(Plan, sent, KeysOf(job))
     THEN Fails("duplicate_merge_keys")
     ELSE IF \E r \in DOMAIN Outcome : ~Outcome[r].ok
     THEN Fails("destination_write_failed")
     ELSE /\ rows' = [r \in DOMAIN Outcome |-> Outcome[r].value]
          /\ table' = Some(Columns)
          /\ pc' = "over"
          /\ UNCHANGED <<job, before, sent, code, first>>

\* The same records once more, in any mode.
LoadAgain ==
  /\ pc = "over" /\ code = "ok" /\ first = NotRun
  /\ \E mode \in Modes : job' = [job EXCEPT !.mode = mode]
  /\ first' = [code |-> code, mode |-> job.mode]
  /\ before' = rows /\ sent' = <<>>
  /\ pc' = "begin"
  /\ UNCHANGED <<table, rows, code>>

Next == Begin \/ Prepare \/ Send \/ Land \/ LoadAgain
Spec == Init /\ [][Next]_vars

-----------------------------------------------------------------------------
(* Properties.                                                             *)

CellOf(columns, row, name) == row[Position(columns, name)]

\* Twice the difference of two moments, in parts of both their rates.
TwiceApart(a, b) ==
  LET d == (a.day * a.rate + a.part) * b.rate - (b.day * b.rate + b.part) * a.rate
  IN IF d < 0 THEN -2 * d ELSE 2 * d

\* A value as the dataset holds it: before any conversion.
Exact(type, n) ==
  IF type.kind \in Timestamps
  THEN [day |-> 0, part |-> n + EpochDay * UnitsPerDay, rate |-> UnitsPerDay]
  ELSE Whole(n, IF type.kind = "decimal" THEN 10^type.scale ELSE 1)

\* A column that holds fewer moments than the dataset may.
Rounds(column) ==
  \/ column.type = "datetime"
  \/ column.type = "datetime2" /\ column.scale < UnitDigits

\* A cell carries a value: NULL for null, the same number or text, and a moment
\* exactly or, once rounding was signed for, to half a tick of its column.
Carries(cell, type, value, column, rounding) ==
  IF ~value.ok THEN ~cell.ok
  ELSE /\ cell.ok
       /\ LET exact == Exact(type, value.value)
          IN \/ Same(cell, Some(exact))
             \/ /\ rounding /\ Rounds(column)
                /\ TwiceApart(cell.value, exact) <= UnitsPerDay

\* A row of a table of these columns carries a record of a job.
RowCarries(j, columns, row, record) ==
  \A i \in DOMAIN j.fields :
    LET at == Position(columns, j.fields[i].name)
    IN Carries(row[at], j.fields[i].type, record[i], columns[at], j.rounding)

Succeeded == pc = "over" /\ code = "ok"

KeptRows == IF job.mode = "append" THEN before ELSE <<>>

MergeSurvives ==
  /\ \A r \in DOMAIN job.records :
       \E k \in DOMAIN rows : RowCarries(job, table.value, rows[k], job.records[r])
  /\ \A k \in DOMAIN before :
       \/ rows[k] = before[k]
       \/ \E r \in DOMAIN job.records : RowCarries(job, table.value, rows[k], job.records[r])

InsertsSurvive ==
  /\ Len(rows) = Len(KeptRows) + Len(job.records)
  /\ IsPrefix(KeptRows, rows)
  /\ \A r \in DOMAIN job.records :
       RowCarries(job, table.value, rows[Len(KeptRows) + r], job.records[r])

(* Every record of a load that succeeds is in the table with every value   *)
(* it had: nothing truncated, wrapped, substituted, defaulted or rounded,  *)
(* except timestamps under accept_datetime_rounding, and those to the      *)
(* nearest tick (ADR-0062, ADR-0065).  Append keeps the rows there were,   *)
(* merge the ones no key of the load matches; a load that fails changes    *)
(* none.                                                                   *)
ValueSurvives ==
  IF Succeeded THEN IF job.mode = "merge" THEN MergeSurvives ELSE InsertsSurvive
  ELSE rows = before

(* A table in the shape a full refresh creates is in the Accept Family of  *)
(* every later load of the same fields, in any mode, and takes every value *)
(* they have but a text the driver cannot send and a timestamp beyond the  *)
(* years 0001 to 9999 (ADR-0062's two slivers).                            *)
CreatedTakesAll ==
  table.ok /\ table.value = Created(job.fields) /\ pc = "over" =>
    \/ code \in {"ok", "duplicate_merge_keys"}
    \/ ~Plannable(job.fields)
    \/ \E r \in DOMAIN job.records, i \in DOMAIN job.fields :
         LET value == job.records[r][i]
         IN /\ value.ok
            /\ \/ job.fields[i].type.kind = "utf8" /\ Length(value.value) > TextMax
               \/ /\ job.fields[i].type.kind \in Timestamps
                  /\ ~MomentCell(value.value).ok

RoundedKey ==
  \E key \in job.keys : Rounds(table.value[Position(table.value, key)])

(* Merging records that a load, of whatever mode, has just written updates *)
(* them to what they are and inserts none: the staged keys find the stored *)
(* ones, and the conversion the server does in MERGE agrees with the one   *)
(* done on the wire.  A key column that rounds is the exception: what is   *)
(* stored no longer matches what is staged, and the records go in twice.   *)
MergeConverges ==
  Succeeded /\ job.mode = "merge" /\ first # NotRun /\ ~RoundedKey => rows = before
=============================================================================
