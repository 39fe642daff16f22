------------------------------- MODULE MCLoad -------------------------------
(* Load for TLC.  The runs of a definition, and the field names, are each  *)
(* other's equals, and no property of Load tells them apart; definitions   *)
(* name fields of their own.                                               *)
EXTENDS Load

Blank == Definition!Blank

\* Three definitions that are accepted, one per connector and load mode.
Refresh ==
  [text |-> "parsed", version |-> 1,
   source |-> [connector |-> "local_file", format |-> Unset,
               extension |-> "csv"],
   destination |-> [connector |-> "parquet"],
   dataset |-> Unset, load_mode |-> Unset, merge |-> Unset,
   transform |-> Unset,
   schema |-> [path |-> "pin", policy |-> Unset, overrides |-> Unset],
   retry |-> Unset]

Appended ==
  [Refresh EXCEPT
     !.destination = [connector |-> "duckdb"], !.dataset = "dotted",
     !.load_mode = "append",
     !.schema.policy = "allow_additive_nullable",
     !.retry = [max_attempts |-> 8, initial |-> 3000, max |-> MaxWord]]

ServerBlock ==
  [connector |-> "sqlserver", host |-> "host", database |-> "database",
   user |-> "user", password_env |-> "SECRET", encryption |-> Unset,
   schema |-> Unset]

None == Definition!None
Typed(kind) == Definition!Some(Definition!Type(kind))
Override(name, type, nullable) ==
  [name |-> name, type |-> type, nullable |-> nullable]
Flatten(output) == [path |-> <<"object", "key">>, output |-> output]

Merged ==
  [Refresh EXCEPT
     !.source.format = "jsonl",
     !.destination = ServerBlock, !.dataset = "plain",
     !.load_mode = "merge", !.merge = <<"key", "other">>,
     !.transform = [flatten |-> <<Flatten("key")>>, select |-> Unset,
                    rename |-> Unset],
     !.schema.overrides = <<Override("key", Typed("int64"), None)>>,
     !.retry = [max_attempts |-> Unset, initial |-> 500, max |-> 100]]

\* Definitions at fault in one respect.
BrokenOnce ==
  {[Refresh EXCEPT !.text = t] : t \in {"unreadable", "invalid"}}
  \union {[Refresh EXCEPT !.version = v] : v \in {Unset, 2}}
  \union {[Refresh EXCEPT !.source = Unset],
          [Refresh EXCEPT !.source.connector = "kafka"],
          [Refresh EXCEPT !.source.format = "xml"],
          [Refresh EXCEPT !.destination = Unset],
          [Refresh EXCEPT !.destination.connector = "s3"],
          [Refresh EXCEPT !.load_mode = "upsert"],
          [Refresh EXCEPT !.merge = <<"key">>],
          [Merged EXCEPT !.destination = Refresh.destination],
          [Merged EXCEPT !.source.format = Unset]}
  \union {[Merged EXCEPT !.merge = keys] :
            keys \in {Unset, <<>>, <<"key", "key">>}}
  \union {[Appended EXCEPT !.dataset = name] : name \in {Unset, Blank}}
  \union {[Merged EXCEPT !.dataset = name] : name \in {Unset, "dotted"}}
  \union {[Merged EXCEPT !.destination.host = Unset],
          [Merged EXCEPT !.destination.encryption = "off"],
          [Merged EXCEPT !.destination.schema = "dotted"],
          [Merged EXCEPT !.destination.password_env = "UNSET"]}
  \union {[Refresh EXCEPT !.schema = block] :
            block \in {[path |-> Blank, policy |-> Unset, overrides |-> Unset],
                       [path |-> Unset, policy |-> "fail", overrides |-> Unset],
                       [path |-> Unset, policy |-> Unset, overrides |-> Unset]}}
  \union {[Refresh EXCEPT !.schema.policy = "ignore"]}
  \union {[Refresh EXCEPT !.schema.overrides = entries] :
            entries \in {<<>>, <<Override("key", Typed("date"), None)>>,
                         <<Override("key", Typed("int64"), None),
                           Override("key", Typed("utf8"), None)>>,
                         <<Override("key", None, None)>>}}

\* Definitions at fault in two, so that the order of the checks decides.
BrokenTwice ==
  {[Merged EXCEPT !.dataset = "dotted", !.destination.password_env = "UNSET"],
   [Merged EXCEPT !.merge = <<"key", "key">>, !.source.connector = "kafka"],
   [Merged EXCEPT !.destination = Refresh.destination, !.source.format = "xml"],
   [Appended EXCEPT !.dataset = Blank, !.schema.policy = "ignore"]}

MCDefinitions == {Refresh, Appended, Merged} \union BrokenOnce \union BrokenTwice
MCPlain == {Refresh, Appended}

Symmetry == Permutations(Loads) \union Permutations(Fields)
=============================================================================
