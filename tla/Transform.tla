------------------------------ MODULE Transform ------------------------------
(***************************************************************************)
(* The structural transform of a load definition (schema.rs): the mapping  *)
(* of source fields to dataset fields by flattening, selecting and         *)
(* renaming, its validation before any data is read, its resolution        *)
(* against the observed source fields, and the reverse lookup from a       *)
(* dataset name to where a JSONL record keeps its value.                   *)
(*                                                                         *)
(* A transform is [flatten, select, rename], each a sequence, or Unset.    *)
(* A flatten entry has a path of segments and an output name; a rename     *)
(* entry has a source and a target.  An address is a sequence of names:    *)
(* one for a top-level field, more for a flatten path.                     *)
(***************************************************************************)
EXTENDS Integers, Sequences, SequencesExt

CONSTANT Unset    \* a key the definition does not set

OrEmpty(block) == IF block = Unset THEN <<>> ELSE block
NoTransform == [flatten |-> Unset, select |-> Unset, rename |-> Unset]
Blank == ""

Outputs(transform) == [k \in DOMAIN OrEmpty(transform.flatten) |->
                         transform.flatten[k].output]
Sources(transform) == [k \in DOMAIN OrEmpty(transform.rename) |->
                         transform.rename[k].source]
Targets(transform) == [k \in DOMAIN OrEmpty(transform.rename) |->
                         transform.rename[k].target]

FirstIndex(names, name) == SelectInSeq(names, LAMBDA n : n = name)

\* The rename mapping, applied to one name; identity where it names no target.
FinalName(transform, name) ==
  LET renamed == FirstIndex(Sources(transform), name)
  IN IF renamed = 0 THEN name ELSE transform.rename[renamed].target

FinalNames(transform, names) ==
  [k \in DOMAIN names |-> FinalName(transform, names[k])]

-----------------------------------------------------------------------------
(* SchemaTransform::from_config                                            *)

\* The maps are parsed with their keys unique (deserialize_ordered_unique_map).
ParsesAsMaps(transform) ==
  /\ IsInjective(Sources(transform))
  /\ IsInjective([k \in DOMAIN OrEmpty(transform.flatten) |->
                    transform.flatten[k].path])

SetsSomething(transform) ==
  \E block \in {"flatten", "select", "rename"} : transform[block] # Unset

FlattenValid(transform, format) ==
  transform.flatten # Unset =>
    /\ format # "csv"
    /\ transform.flatten # <<>>
    /\ \A k \in DOMAIN transform.flatten :
         /\ Len(transform.flatten[k].path) >= 2
         /\ Blank \notin Range(transform.flatten[k].path)
         /\ transform.flatten[k].output # Blank
    /\ IsInjective(Outputs(transform))

SelectValid(transform) ==
  transform.select # Unset =>
    transform.select # <<>> /\ IsInjective(transform.select)

RenameValid(transform) ==
  transform.rename # Unset =>
    /\ transform.rename # <<>>
    /\ \A k \in DOMAIN transform.rename :
         LET entry == transform.rename[k]
         IN /\ entry.target # Blank
            /\ entry.source # entry.target
            /\ \/ transform.select = Unset
               \/ entry.source \in Range(transform.select)
    /\ IsInjective(Targets(transform))

\* The dataset names the configuration alone decides are unique: with select,
\* all of them; without, the rename targets and the flatten outputs.
NamesValid(transform) ==
  IF transform.select # Unset
    THEN /\ Range(Outputs(transform)) \subseteq Range(transform.select)
         /\ IsInjective(FinalNames(transform, transform.select))
    ELSE LET renames == SelectSeq(OrEmpty(transform.rename),
               LAMBDA entry : entry.source \notin Range(Outputs(transform)))
         IN IsInjective([k \in DOMAIN renames |-> renames[k].target]
                          \o FinalNames(transform, Outputs(transform)))

TransformValid(transform, format) ==
  /\ SetsSomething(transform)
  /\ FlattenValid(transform, format) /\ SelectValid(transform)
  /\ RenameValid(transform) /\ NamesValid(transform)

-----------------------------------------------------------------------------
(* resolve_transform                                                       *)

Column(name, source, index) ==
  [name |-> name, source |-> source, index |-> index]

FlattenColumn(transform, names, k) ==
  Column(FinalName(transform, transform.flatten[k].output),
         transform.flatten[k].path, Len(names) + k)

FieldColumn(transform, names, k) ==
  Column(FinalName(transform, names[k]), <<names[k]>>, k)

\* A select entry is a flatten output first, else the first observed field of
\* the name.
SelectedColumn(transform, names, name) ==
  LET position == FirstIndex(Outputs(transform), name)
  IN IF position > 0
       THEN FlattenColumn(transform, names, position)
       ELSE FieldColumn(transform, names, FirstIndex(names, name))

ResolvedColumns(transform, names) ==
  IF transform.select # Unset
    THEN [k \in DOMAIN transform.select |->
            SelectedColumn(transform, names, transform.select[k])]
    ELSE [k \in DOMAIN names |-> FieldColumn(transform, names, k)]
           \o [k \in DOMAIN Outputs(transform) |->
                 FlattenColumn(transform, names, k)]

\* A select entry, a rename key or the head of a flatten path that names no
\* field after flattening.
UnknownFields(transform, names) ==
  \/ ~(Range(OrEmpty(transform.select)) \union Range(Sources(transform)))
        \subseteq Range(names) \union Range(Outputs(transform))
  \/ \E k \in DOMAIN Outputs(transform) :
       transform.flatten[k].path[1] \notin Range(names)

NameChanged(column) == column.source # <<column.name>>

BugIgnoresShadowing(transform, names) ==
  LET columns == ResolvedColumns(transform, names)
  IN \E i, j \in DOMAIN columns :
       /\ i # j /\ columns[i].name = columns[j].name
       /\ Len(columns[i].source) = 1 /\ NameChanged(columns[i])

\* A flatten output that shadows an observed field, or a name two columns
\* claim that the transform put there.  Duplicates of the header that pass
\* through are left to the pin.
Collides(transform, names) ==
  LET columns == ResolvedColumns(transform, names)
  IN \/ Range(Outputs(transform)) \intersect Range(names) # {}
     \/ \E i, j \in DOMAIN columns :
          /\ i # j /\ columns[i].name = columns[j].name
          /\ NameChanged(columns[i]) \/ NameChanged(columns[j])

TransformVerdict(transform, names) ==
  IF UnknownFields(transform, names) THEN "unknown_transform_field"
  ELSE IF Collides(transform, names) THEN "transform_name_collision"
  ELSE "ok"

-----------------------------------------------------------------------------
(* json_source_address: from a dataset name, before the shape is known.    *)

JsonSource(transform, name) ==
  LET flattened == FirstIndex(FinalNames(transform, Outputs(transform)), name)
      renamed == FirstIndex(Targets(transform), name)
  IN IF flattened > 0 THEN transform.flatten[flattened].path
     ELSE IF renamed > 0 THEN <<transform.rename[renamed].source>>
     ELSE <<name>>
=============================================================================
