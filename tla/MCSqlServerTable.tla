-------------------------- MODULE MCSqlServerTable --------------------------
(* Families of loads for SqlServerTable: every timestamp around the ends   *)
(* of its range against every column a timestamp may meet, and values of   *)
(* the other types against tables of two columns.                          *)
EXTENDS SqlServerTable

Field(name, type, nullable) ==
  [name |-> name, type |-> type, nullable |-> nullable]

Column(name, type, precision, scale) ==
  [name |-> name, type |-> type, precision |-> precision, scale |-> scale,
   max_length |-> -1, nullable |-> TRUE, identity |-> FALSE,
   has_default |-> FALSE]

Variants(column) ==
  {column, [column EXCEPT !.nullable = FALSE],
   [column EXCEPT !.has_default = TRUE],
   [column EXCEPT !.nullable = FALSE, !.has_default = TRUE],
   [column EXCEPT !.nullable = FALSE, !.identity = TRUE]}

Jobs(fields, recordSets, modes, keys) ==
  {[fields |-> f, mode |-> mode, keys |-> keys, rounding |-> rounding,
    records |-> records] :
     f \in fields, records \in recordSets, mode \in modes, rounding \in BOOLEAN}

Family(jobs, tables) == [jobs |-> jobs, tables |-> tables]

-----------------------------------------------------------------------------
(* One field: a moment within a tick of every day boundary and a few more. *)
Moments ==
  {day * UnitsPerDay + units :
     day \in -EpochDay .. LastDay - EpochDay + 1,
     units \in {-7, -2, -1, 0, 1, 2, 4, 5, 6, 49, 50, 51, 105}}

MomentColumns ==
  {Column("a", "datetime2", 0, scale) : scale \in 0 .. UnitDigits + 1}
    \union {Column("a", "datetime", 0, 0), Column("a", "date", 0, 0),
            Column("a", NoType, 0, 0), Column("A", "datetime2", 0, UnitDigits)}

MomentFamilies ==
  {Family(Jobs({<<Field("a", Type(kind), nullable)>> :
                  kind \in Timestamps, nullable \in BOOLEAN},
               {<<<<Some(n)>>>> : n \in Moments}, Modes, {"a"}),
          {None} \union {Some(<<column>>) : column \in MomentColumns})}

-----------------------------------------------------------------------------
(* Two fields, the key "k" first; the columns come the other way round,    *)
(* and a third one may follow.                                             *)
Others ==
  {<<Type("int64"), {-9, 0, 3, 8, 20}>>,
   <<Type("float64"), {3}>>,
   <<Type("boolean"), {1}>>,
   <<Type("utf8"), {-2, 0, 3, 6}>>,
   <<Decimal(3, 1), {-15, 999}>>,
   <<Type("timestamp"), {199}>>}

OtherColumns(kind) ==
  CASE kind = "int64" ->
         {Column("v", type, 0, 0) : type \in {"bigint", "int", "smallint", "tinyint", "bit"}}
    [] kind = "float64" ->
         {Column("v", "float", 53, 0), Column("v", "real", 24, 0)}
    [] kind = "boolean" -> {Column("v", "bit", 0, 0)}
    [] kind = "utf8" ->
         {Column("v", "nvarchar", 0, 0), Column("v", "varchar", 0, 0),
          [Column("v", "nvarchar", 0, 0) EXCEPT !.max_length = 4]}
    [] kind = "decimal" ->
         {Column("v", "decimal", 3, 1), Column("v", "numeric", 4, 1),
          Column("v", "decimal", 2, 1), Column("v", "decimal", 3, 0)}
    [] OTHER -> {Column("v", "datetime2", 0, 0)}

Records(values) ==
  {<<<<Some(1), v>>, <<Some(k), w>>>> :
     k \in {1, 2}, v \in values, w \in values}

KeyColumn == [Column("k", "bigint", 0, 0) EXCEPT !.nullable = FALSE]
Extras ==
  {<<>>} \union {<<column>> : column \in Variants(Column("x", "bigint", 0, 0))}

Tables(kind) ==
  {None} \union
  {Some(<<column, key>> \o extra) :
     column \in UNION {Variants(c) : c \in OtherColumns(kind)},
     key \in {KeyColumn, [KeyColumn EXCEPT !.identity = TRUE]},
     extra \in Extras}

OtherFamilies ==
  {Family(Jobs({<<Field("k", Type("int64"), FALSE), Field("v", other[1], nullable)>>},
               Records({Some(n) : n \in other[2]}
                         \union (IF nullable THEN {None} ELSE {})),
               Modes, {"k"}),
          Tables(other[1].kind)) :
     other \in Others, nullable \in BOOLEAN}

\* A dataset that names a field twice, and one of no records.
OddFamilies ==
  {Family(Jobs({<<Field("v", Type("utf8"), TRUE), Field("v", Type("utf8"), TRUE)>>},
               {<<<<Some(2), Some(1)>>>>}, Modes, {"v"}),
          {None, Some(<<Column("v", "nvarchar", 0, 0)>>)}),
   Family(Jobs({<<Field("v", Type("utf8"), TRUE)>>}, {<<>>}, Modes, {"v"}),
          {None, Some(<<Column("v", "nvarchar", 0, 0)>>)})}

MCFamilies == MomentFamilies \union OtherFamilies \union OddFamilies
=============================================================================
