------------------------------- MODULE MCSchema -------------------------------
(* Three families of loads for Schema: every pair of values under every type, *)
(* every schema block against a small pin, every transform; each for CSV and  *)
(* for JSONL.                                                                 *)
EXTENDS Schema

Plain(int) == NumberText("", int, <<>>)
Texts ==
  {Plain(<<7>>), Plain(<<0, 7>>), Plain(<<2, 0, 0>>),
   NumberText("-", <<3>>, <<>>), NumberText("-", <<1, 2>>, <<5>>),
   NumberText("", <<0>>, <<1, 2, 5>>), NumberText("+", <<>>, <<5>>),
   [Plain(<<1>>) EXCEPT !.point = TRUE],
   [Plain(<<2>>) EXCEPT !.exponent = Some(1)],
   [Plain(<<2>>) EXCEPT !.exponent = Some(3)],
   [Plain(<<1, 0, 0, 0>>) EXCEPT !.commas = TRUE],
   ClockText(90061, <<>>, NoZone), ClockText(90061, <<5>>, NoZone),
   ClockText(90061, <<5>>, Offset(-1, 5, 30)),
   ClockText(90061, <<>>, Offset(1, 24, 0)),
   ClockText(90061, <<5, 0, 1>>, NoZone), ClockText(90061, <<>>, Junk),
   [ClockText(90061, <<>>, NoZone) EXCEPT !.calendar = FALSE],
   Day(TRUE), Flag(TRUE), Word}

Values ==
  {JsonNull, JsonBool(FALSE), JsonInt(7), JsonInt(200), JsonFloat(2500),
   JsonArray, JsonObject(<<>>)}
    \union {JsonString(t) : t \in
              {Plain(<<7>>), NumberText("-", <<1, 2>>, <<5>>), Word,
               ClockText(90061, <<5>>, Offset(1, 2, 0))}}

Types == {Type(kind) : kind \in Inferable \union {"timestamp", "timestamptz"}}
           \union {Decimal(3, 1), Decimal(2, 2), Decimal(4, 0)}

Entry(name, type, nullable) ==
  [name |-> name, type |-> type, nullable |-> nullable]
Block(path, policy, overrides) ==
  [path |-> path, policy |-> policy, overrides |-> overrides]
Definition(format, transform, block, keys) ==
  [format |-> format, transform |-> transform, block |-> block, keys |-> keys]
Definitions(format, transforms, blocks, keys) ==
  {Definition(format, t, b, k) : t \in transforms, b \in blocks, k \in keys}
Family(definitions, files, pins) ==
  [definitions |-> definitions, files |-> files, pins |-> pins]
PinField(name, type, nullable) ==
  [name |-> name, type |-> type, nullable |-> nullable]

-----------------------------------------------------------------------------
TypeBlocks ==
  {Unset, Block("pin", Unset, Unset)}
    \union {Block(path, Unset, <<Entry("a", Some(type), nullable)>>) :
              path \in {Unset, "pin"}, type \in Types,
              nullable \in {None, Some(FALSE)}}

Pairs(S) == {<<x, y>> : x \in S, y \in S}

JsonFile(rows) ==
  [header |-> <<>>,
   records |-> [k \in DOMAIN rows |->
                  [j \in DOMAIN rows[k] |->
                     [key |-> rows[k][j][1], value |-> rows[k][j][2]]]]]

ValueFamilies ==
  {Family(Definitions("csv", {Unset}, TypeBlocks, {<<>>}),
          {[header |-> <<"a">>, records |-> <<<<rows[1]>>, <<rows[2]>>>>] :
             rows \in Pairs({Some(t) : t \in Texts} \union {None})},
          {None}),
   Family(Definitions("jsonl", {Unset}, TypeBlocks, {<<>>}),
          {JsonFile(<<<<<<"a", rows[1]>>>>, <<<<"a", rows[2]>>>>>>) :
             rows \in Pairs(Values)},
          {None})}

-----------------------------------------------------------------------------
Pins ==
  {None, Some(<<>>),
   Some(<<PinField("a", Type("int64"), TRUE)>>),
   Some(<<PinField("a", Type("float64"), FALSE)>>),
   Some(<<PinField("a", Type("timestamptz"), TRUE)>>),
   Some(<<PinField("b", Type("utf8"), TRUE), PinField("a", Decimal(3, 1), TRUE)>>),
   Some(<<PinField("a", Decimal(2, 3), TRUE)>>)}

OverrideLists ==
  {Unset, <<>>,
   <<Entry("a", Some(Type("float64")), None)>>,
   <<Entry("a", Some(Type("timestamptz")), None)>>,
   <<Entry("b", Some(Type("int64")), None),
     Entry("a", Some(Decimal(3, 1)), Some(TRUE))>>,
   <<Entry("b", None, Some(FALSE))>>,
   <<Entry("b", None, Some(FALSE)), Entry("b", None, Some(TRUE))>>,
   <<Entry("a", None, None)>>, <<Entry("a", Some(Type("int32")), None)>>}

SchemaBlocks ==
  {Block(path, policy, overrides) :
     path \in {Unset, Blank, "pin"},
     policy \in {Unset, "allow_additive_nullable", "lenient"},
     overrides \in OverrideLists}

CsvFiles ==
  LET row(t) == Some(t)
  IN {[header |-> <<"a">>, records |-> <<<<row(Plain(<<7>>))>>, <<None>>>>],
      [header |-> <<"a", "b">>,
       records |-> <<<<row(Plain(<<7>>)), row(Word)>>,
                     <<row(Word), row(Plain(<<7>>))>>>>],
      [header |-> <<"b", "a">>,
       records |-> <<<<None, row(ClockText(5, <<>>, Offset(1, 0, 30)))>>,
                     <<row(Plain(<<8>>)), None>>>>],
      [header |-> <<"a", "a">>,
       records |-> <<<<row(Word), None>>, <<None, row(Word)>>>>],
      [header |-> <<"b">>, records |-> <<>>]}

JsonFiles ==
  {JsonFile(<<>>), JsonFile(<<<<>>>>),
   JsonFile(<<<<<<"a", JsonInt(7)>>>>,
              <<<<"b", JsonString(Word)>>, <<"a", JsonInt(200)>>>>>>),
   JsonFile(<<<<<<"b", JsonNull>>>>, <<<<"b", JsonInt(1)>>,
                                      <<"a", JsonFloat(1500)>>>>>>)}

KeyLists == {<<>>, <<"a">>, <<"b", "a">>}

SchemaFamilies ==
  {Family(Definitions("csv", {Unset}, SchemaBlocks, KeyLists), CsvFiles, Pins),
   Family(Definitions("jsonl", {Unset}, SchemaBlocks, KeyLists), JsonFiles,
          Pins)}

-----------------------------------------------------------------------------
Flatten(path, output) == [path |-> path, output |-> output]
Rename(from, to) == [source |-> from, target |-> to]
PK == <<"p", "k">>

Transforms ==
  [flatten : {Unset, <<>>, <<Flatten(PK, "x")>>, <<Flatten(PK, "a")>>,
              <<Flatten(PK, "x"), Flatten(<<"p", "a">>, "y")>>,
              <<Flatten(PK, "x"), Flatten(<<"p", "a">>, "x")>>,
              <<Flatten(<<"p">>, "x")>>, <<Flatten(<<"p", Blank>>, "x")>>,
              <<Flatten(<<"z", "k">>, "x")>>, <<Flatten(PK, Blank)>>},
   select : {Unset, <<>>, <<"a">>, <<"x", "a">>, <<"b", "x", "a", "p">>,
             <<"a", "a">>, <<"z">>},
   rename : {Unset, <<>>, <<Rename("a", "b")>>,
             <<Rename("a", "b"), Rename("b", "a")>>, <<Rename("x", "c")>>,
             <<Rename("x", "p"), Rename("p", "x")>>, <<Rename("x", "p")>>,
             <<Rename("a", "x")>>, <<Rename("a", "c"), Rename("b", "c")>>,
             <<Rename("a", "a")>>, <<Rename("z", "c")>>,
             <<Rename("a", Blank)>>}]

NestedFile ==
  JsonFile(<<<<<<"a", JsonInt(1)>>, <<"b", JsonString(Word)>>,
               <<"p", JsonObject(<<[key |-> "k", value |-> JsonInt(2)]>>)>>>>,
             <<<<"p", JsonString(Word)>>, <<"a", JsonNull>>>>,
             <<<<"p", JsonObject(<<[key |-> "k", value |-> JsonString(Word)]>>)>>,
               <<"b", JsonInt(3)>>>>>>)

TransformBlocks ==
  {Unset, Block("pin", Unset, Unset),
   Block("pin", Unset, <<Entry("b", Some(Type("int64")), None)>>),
   Block(Unset, Unset, <<Entry("c", Some(Type("int64")), None)>>),
   Block(Unset, Unset, <<Entry("x", None, Some(FALSE))>>),
   Block("pin", Unset, <<Entry("p", Some(Type("float64")), None)>>)}

Parsed == {t \in Transforms : ParsesAsMaps(t)}
FlatTransforms == {t \in Parsed : t.flatten \in {Unset, <<Flatten(PK, "x")>>}}

TransformFamilies ==
  {Family(Definitions("jsonl", Parsed, TransformBlocks,
                      {<<>>, <<"a">>, <<"x">>}),
          {NestedFile}, {None}),
   Family(Definitions("csv", FlatTransforms, TransformBlocks, {<<>>}),
          {f \in CsvFiles : f.header # <<"b">>}, {None})}

MCFamilies == ValueFamilies \union SchemaFamilies \union TransformFamilies
=============================================================================
