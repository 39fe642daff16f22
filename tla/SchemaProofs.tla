----------------------------- MODULE SchemaProofs -----------------------------
(***************************************************************************)
(* Theorems about Schema, for any definitions, files and pins, of any      *)
(* length, and any values in them: what one load keeps, rejects and builds *)
(* and what a second one, under the pin the first wrote, makes of the same *)
(* records.                                                                *)
(***************************************************************************)
EXTENDS Schema, FiniteSetTheorems, SequenceTheorems, TLAPS

-----------------------------------------------------------------------------
(* Lists, and what is picked from them.                                    *)

\* A set of naturals that is not empty has a least element.
LEMMA LeastNumber ==
  ASSUME NEW T \in SUBSET Nat, T # {}
  PROVE  \E n \in T : \A m \in T : n <= m
<1> DEFINE below == { pair \in Nat \X Nat : pair[1] < pair[2] }
<1>1. IsWellFoundedOn(below, Nat)
  BY NatLessThanWellFounded DEF OpToRel
<1>2. PICK n \in T : \A m \in T : <<m, n>> \notin below
  <2> HIDE DEF below
  <2>. QED
    BY <1>1, WFMin
<1>3. \A m \in T : ~(m < n)
  BY <1>2
<1>. QED
  BY <1>3

\* A rank that tells the members of a finite set apart takes every value from
\* 1 to their number.
LEMMA Ranking ==
  ASSUME NEW D, IsFiniteSet(D), NEW rank \in [D -> 1 .. Cardinality(D)],
         \A x, y \in D : rank[x] = rank[y] => x = y
  PROVE  \A n \in 1 .. Cardinality(D) : \E x \in D : rank[x] = n
<1> DEFINE T == 1 .. Cardinality(D)
<1>1. Cardinality(D) \in Nat
  BY FS_CardinalityType
<1>2. IsFiniteSet(T) /\ Cardinality(T) = Cardinality(D)
  BY <1>1, FS_Interval
<1> HIDE DEF T
<1>3. rank \in [D -> T]
  BY DEF T
<1>4. rank \in Injection(D, T)
  BY <1>3 DEF Injection, IsInjective
<1>5. rank \in Surjection(D, T)
  BY <1>2, <1>4, FS_Injection
<1>. QED
  BY <1>5 DEF Surjection, T

\* A list is the function of its indices.
LEMMA ListedIs ==
  ASSUME NEW list
  PROVE  /\ Listed(list) => /\ Len(list) \in Nat /\ DOMAIN list = 1 .. Len(list)
                            /\ list = [k \in 1 .. Len(list) |-> list[k]]
         /\ \A S : list \in Seq(S) => Listed(list)
<1>1. Listed(list) => /\ Len(list) \in Nat /\ DOMAIN list = 1 .. Len(list)
                      /\ list = [k \in 1 .. Len(list) |-> list[k]]
  BY DEF Listed
<1>2. ASSUME NEW S, list \in Seq(S) PROVE Listed(list)
  <2>1. /\ Len(list) \in Nat /\ DOMAIN list = 1 .. Len(list)
        /\ list = [k \in 1 .. Len(list) |-> list[k]]
    BY <1>2
  <2>2. \A k \in 1 .. Len(list) : list[k] \in Range(list)
    BY <2>1 DEF Range
  <2> DEFINE n == Len(list)
             R == Range(list)
  <2> HIDE DEF n, R
  <2>3. [k \in 1 .. n |-> list[k]] \in Seq(R)
    BY <2>1, <2>2 DEF n, R
  <2>. QED
    BY <2>1, <2>3 DEF Listed, n, R
<1>. QED
  BY <1>1, <1>2

LEMMA FunctionListed ==
  ASSUME NEW n \in Nat, NEW f, DOMAIN f = 1 .. n, f = [k \in 1 .. n |-> f[k]]
  PROVE  Listed(f) /\ Len(f) = n
<1> DEFINE R == Range(f)
<1>1. \A k \in 1 .. n : f[k] \in R
  BY DEF Range
<1> HIDE DEF R
<1>2. [k \in 1 .. n |-> f[k]] \in Seq(R) /\ Len([k \in 1 .. n |-> f[k]]) = n
  BY <1>1
<1>. QED
  BY <1>2 DEF Listed, R

LEMMA ConcatListed ==
  ASSUME NEW s, NEW u, Listed(s), Listed(u)
  PROVE  /\ Listed(s \o u) /\ Len(s \o u) = Len(s) + Len(u)
         /\ \A k \in 1 .. Len(s) : (s \o u)[k] = s[k]
         /\ \A k \in 1 .. Len(u) : (s \o u)[Len(s) + k] = u[k]
         /\ Range(s \o u) = Range(s) \union Range(u)
<1> DEFINE S == Range(s) \union Range(u)
<1>1. s \in Seq(S) /\ u \in Seq(S)
  <2>1. Range(s) \subseteq S /\ Range(u) \subseteq S
    OBVIOUS
  <2>2. s \in Seq(Range(s)) /\ u \in Seq(Range(u))
    BY DEF Listed
  <2> DEFINE A == Range(s)
             B == Range(u)
  <2> HIDE DEF A, B, S
  <2>3. s \in Seq(A) /\ u \in Seq(B) /\ A \subseteq S /\ B \subseteq S
    BY <2>1, <2>2 DEF A, B
  <2>. QED
    BY <2>3
<1> HIDE DEF S
<1>2. s \o u \in Seq(S)
  BY <1>1
<1>3. Range(s \o u) = Range(s) \union Range(u)
  BY <1>1, RangeConcatenation
<1>4. Listed(s \o u)
  BY <1>2, ListedIs
<1>5. /\ Len(s \o u) = Len(s) + Len(u)
      /\ \A k \in 1 .. Len(s) : (s \o u)[k] = s[k]
      /\ \A k \in 1 .. Len(u) : (s \o u)[Len(s) + k] = u[k]
  BY <1>1
<1>. QED
  BY <1>3, <1>4, <1>5

\* Where an element is picked to: as far along as its index is among them.
RankIn(indices, k) == Cardinality({ j \in indices : j <= k })

LEMMA PickedAt ==
  ASSUME NEW list, Listed(list), NEW indices \in SUBSET DOMAIN list
  PROVE  LET picked == Picked(list, indices)
         IN /\ Listed(picked) /\ IsFiniteSet(indices) /\ Cardinality(indices) \in Nat
            /\ DOMAIN picked = 1 .. Cardinality(indices)
            /\ \A n \in DOMAIN picked : \E k \in indices : picked[n] = list[k] /\ RankIn(indices, k) = n
            /\ \A k \in indices : /\ RankIn(indices, k) \in DOMAIN picked
                                  /\ picked[RankIn(indices, k)] = list[k]
<1> DEFINE size == Cardinality(indices)
           upto(k) == { j \in indices : j <= k }
           rank == [k \in indices |-> Cardinality(upto(k))]
           at(n) == CHOOSE k \in indices : Cardinality(upto(k)) = n
<1>1. Len(list) \in Nat /\ DOMAIN list = 1 .. Len(list)
  BY ListedIs
<1>2. IsFiniteSet(indices) /\ size \in Nat
  <2>1. IsFiniteSet(1 .. Len(list))
    BY <1>1, FS_Interval
  <2>. QED
    BY <1>1, <2>1, FS_Subset, FS_CardinalityType
<1>3. ASSUME NEW k \in indices
      PROVE  /\ IsFiniteSet(upto(k)) /\ Cardinality(upto(k)) \in 1 .. size
  <2>1. upto(k) \subseteq indices /\ k \in upto(k)
    BY <1>1
  <2>2. IsFiniteSet(upto(k)) /\ Cardinality(upto(k)) \in Nat /\ Cardinality(upto(k)) <= size
    BY <1>2, <2>1, FS_Subset, FS_CardinalityType
  <2>3. Cardinality(upto(k)) # 0
    BY <2>1, <2>2, FS_EmptySet
  <2>. QED
    BY <1>2, <2>2, <2>3
<1>4. ASSUME NEW j \in indices, NEW k \in indices, j < k
      PROVE  Cardinality(upto(j)) < Cardinality(upto(k))
  <2>1. upto(j) \subseteq upto(k) /\ k \in upto(k) /\ k \notin upto(j)
    BY <1>1, <1>4
  <2>2. upto(j) # upto(k)
    BY <2>1
  <2>3. IsFiniteSet(upto(k))
    BY <1>3
  <2> HIDE DEF upto
  <2>. QED
    BY <2>1, <2>2, <2>3, FS_Subset, FS_CardinalityType
<1>5. \A j, k \in indices : rank[j] = rank[k] => j = k
  <2>1. ASSUME NEW j \in indices, NEW k \in indices, rank[j] = rank[k], j # k
        PROVE  FALSE
    <3>1. j < k \/ k < j
      BY <1>1, <2>1
    <3>2. Cardinality(upto(j)) \in Nat /\ Cardinality(upto(k)) \in Nat
      BY <1>2, <1>3
    <3>3. Cardinality(upto(j)) = Cardinality(upto(k))
      BY <2>1
    <3> HIDE DEF upto
    <3>. QED
      BY <1>4, <3>1, <3>2, <3>3
  <2>. QED
    BY <2>1
<1>6. rank \in [indices -> 1 .. size]
  BY <1>3
<1>7. \A n \in 1 .. size : \E k \in indices : Cardinality(upto(k)) = n
  <2>1. \A n \in 1 .. size : \E k \in indices : rank[k] = n
    <3> HIDE DEF rank
    <3>. QED
      BY <1>2, <1>5, <1>6, Ranking
  <2>. QED
    BY <2>1
<1>8. \A n \in 1 .. size : at(n) \in indices /\ Cardinality(upto(at(n))) = n
  BY <1>7
<1>9. ASSUME NEW k \in indices PROVE Cardinality(upto(k)) \in 1 .. size
                                      /\ at(Cardinality(upto(k))) = k
  <2>1. Cardinality(upto(k)) \in 1 .. size
    BY <1>3
  <2>2. at(Cardinality(upto(k))) \in indices
        /\ Cardinality(upto(at(Cardinality(upto(k))))) = Cardinality(upto(k))
    BY <1>8, <2>1
  <2>. QED
    BY <1>5, <2>1, <2>2
<1>10. Picked(list, indices) = [n \in 1 .. size |-> list[at(n)]]
  BY DEF Picked
<1> HIDE DEF size, at, upto, rank
<1>11. DOMAIN Picked(list, indices) = 1 .. size
       /\ \A n \in 1 .. size : Picked(list, indices)[n] = list[at(n)]
  BY <1>10
<1>12. Listed(Picked(list, indices))
  BY <1>2, <1>10, <1>11, FunctionListed DEF size
<1>13. ASSUME NEW n \in DOMAIN Picked(list, indices)
       PROVE  \E k \in indices : Picked(list, indices)[n] = list[k] /\ Cardinality(upto(k)) = n
  BY <1>8, <1>11
<1>14. ASSUME NEW k \in indices
       PROVE  /\ Cardinality(upto(k)) \in DOMAIN Picked(list, indices)
              /\ Picked(list, indices)[Cardinality(upto(k))] = list[k]
  BY <1>9, <1>11
<1>15. \A k : Cardinality(upto(k)) = RankIn(indices, k)
  BY DEF upto, RankIn
<1>. QED
  BY <1>2, <1>11, <1>12, <1>13, <1>14, <1>15 DEF size

\* What is picked from a list: the elements at the indices, each once.
LEMMA PickedIs ==
  ASSUME NEW list, Listed(list), NEW indices \in SUBSET DOMAIN list
  PROVE  /\ Listed(Picked(list, indices))
         /\ \A n \in DOMAIN Picked(list, indices) :
              \E k \in indices : Picked(list, indices)[n] = list[k]
         /\ \A k \in indices : \E n \in DOMAIN Picked(list, indices) :
              Picked(list, indices)[n] = list[k]
BY PickedAt

-----------------------------------------------------------------------------
(* Lists, and the first element that passes a test.                        *)

LEMMA MinIs ==
  ASSUME NEW T \in SUBSET Nat, T # {}
  PROVE  Min(T) \in T
<1>1. PICK n \in T : \A m \in T : n <= m
  BY LeastNumber
<1>. QED
  BY <1>1 DEF Min

LEMMA FirstIndexIs ==
  ASSUME NEW list, Listed(list), NEW x
  PROVE  \/ /\ FirstIndex(list, x) = 0 /\ \A k \in DOMAIN list : list[k] # x
         \/ /\ FirstIndex(list, x) \in DOMAIN list /\ FirstIndex(list, x) > 0
            /\ list[FirstIndex(list, x)] = x
<1> DEFINE T == { k \in 1 .. Len(list) : list[k] = x }
<1>1. Len(list) \in Nat /\ DOMAIN list = 1 .. Len(list)
  BY ListedIs
<1>2. FirstIndex(list, x) = IF T # {} THEN Min(T) ELSE 0
  BY DEF FirstIndex, SelectInSeq
<1>3. T # {} => Min(T) \in T
  <2>1. T \in SUBSET Nat
    BY <1>1
  <2> HIDE DEF T
  <2>. QED
    BY <2>1, MinIs
<1>. QED
  BY <1>1, <1>2, <1>3

LEMMA FirstCodeResult ==
  ASSUME NEW S, NEW codes \in Seq(S)
  PROVE  \/ FirstCode(codes) = "ok" /\ \A k \in DOMAIN codes : codes[k] = "ok"
         \/ FirstCode(codes) # "ok" /\ FirstCode(codes) \in S
<1> DEFINE T == { k \in 1 .. Len(codes) : codes[k] # "ok" }
<1>1. T # {} => Min(T) \in T
  <2>1. T \in SUBSET Nat
    OBVIOUS
  <2> HIDE DEF T
  <2>. QED
    BY <2>1, MinIs
<1>2. FirstCode(codes) = LET k == IF T # {} THEN Min(T) ELSE 0
                         IN IF k = 0 THEN "ok" ELSE codes[k]
  BY DEF FirstCode, SelectInSeq
<1>. QED
  BY <1>1, <1>2

\* The entry of an override list for a name, if there is one.
LEMMA OverrideOfIs ==
  ASSUME NEW dir, Listed(dir.overrides), NEW name
  PROVE  \/ /\ name \notin NameSet(dir.overrides)
            /\ OverrideOf(dir, name) = [name |-> name, type |-> None, nullable |-> None]
         \/ /\ name \in NameSet(dir.overrides)
            /\ \E k \in DOMAIN dir.overrides :
                 OverrideOf(dir, name) = dir.overrides[k] /\ dir.overrides[k].name = name
<1> DEFINE list == dir.overrides
           T == { k \in 1 .. Len(list) : list[k].name = name }
<1>1. Len(list) \in Nat /\ DOMAIN list = 1 .. Len(list)
  BY ListedIs
<1>2. T # {} => Min(T) \in T
  <2>1. T \in SUBSET Nat
    BY <1>1
  <2> HIDE DEF T
  <2>. QED
    BY <2>1, MinIs
<1>3. OverrideOf(dir, name) =
        LET k == IF T # {} THEN Min(T) ELSE 0
        IN IF k = 0 THEN [name |-> name, type |-> None, nullable |-> None] ELSE list[k]
  BY DEF OverrideOf, SelectInSeq
<1>4. name \in NameSet(list) <=> T # {}
  BY <1>1 DEF NameSet
<1>5. CASE T = {}
  BY <1>3, <1>4, <1>5
<1>6. CASE T # {}
  <2>1. Min(T) \in DOMAIN list /\ Min(T) # 0 /\ list[Min(T)].name = name
    BY <1>1, <1>2, <1>6
  <2>2. OverrideOf(dir, name) = list[Min(T)]
    BY <1>3, <1>6, <2>1
  <2>. QED
    BY <1>4, <1>6, <2>1, <2>2
<1>. QED
  BY <1>5, <1>6

LEMMA ColumnOfIs ==
  ASSUME NEW columns, Listed(columns), NEW name \in NameSet(columns)
  PROVE  \E k \in DOMAIN columns :
           ColumnOf(columns, name) = columns[k] /\ columns[k].name = name
<1> DEFINE T == { k \in 1 .. Len(columns) : columns[k].name = name }
<1>1. Len(columns) \in Nat /\ DOMAIN columns = 1 .. Len(columns)
  BY ListedIs
<1>2. T # {}
  BY <1>1 DEF NameSet
<1>3. Min(T) \in T
  <2>1. T \in SUBSET Nat
    BY <1>1
  <2> HIDE DEF T
  <2>. QED
    BY <1>2, <2>1, MinIs
<1>4. ColumnOf(columns, name) = columns[Min(T)]
  BY <1>2 DEF ColumnOf, SelectInSeq
<1>. QED
  BY <1>1, <1>3, <1>4

\* A rejection is named for a record exactly when it violates a check.
LEMMA RejectionForOk ==
  ASSUME NEW record, NEW checks, Listed(checks)
  PROVE  RejectionFor(record, checks).ok <=> ViolatesAny(record, checks)
<1> DEFINE T == { k \in 1 .. Len(checks) : Violates(record, checks[k]) }
<1>1. Len(checks) \in Nat /\ DOMAIN checks = 1 .. Len(checks)
  BY ListedIs
<1>2. T # {} => Min(T) \in T
  <2>1. T \in SUBSET Nat
    BY <1>1
  <2> HIDE DEF T
  <2>. QED
    BY <2>1, MinIs
<1>3. SelectInSeq(checks, LAMBDA check : Violates(record, check))
        = IF T # {} THEN Min(T) ELSE 0
  BY DEF SelectInSeq
<1>4. (T # {}) <=> ViolatesAny(record, checks)
  BY <1>1 DEF ViolatesAny
<1>5. CASE T = {}
  <2>1. RejectionFor(record, checks) = None
    BY <1>3, <1>5 DEF RejectionFor
  <2>. QED
    BY <1>4, <1>5, <2>1 DEF None
<1>6. CASE T # {}
  <2>1. SelectInSeq(checks, LAMBDA check : Violates(record, check)) # 0
    BY <1>2, <1>3, <1>6
  <2>2. PICK rejection : RejectionFor(record, checks) = Some(rejection)
    BY <2>1 DEF RejectionFor
  <2>. QED
    BY <1>4, <1>6, <2>2 DEF Some
<1>. QED
  BY <1>5, <1>6

\* A key a JSON object does not have reads as missing.
LEMMA GetMissing ==
  ASSUME NEW fields, Listed(fields), NEW key,
         \A k \in DOMAIN fields : fields[k].key # key
  PROVE  Get(JsonObject(fields), key) = Missing
<1> DEFINE object == JsonObject(fields)
           T == { k \in 1 .. Len(object.fields) : object.fields[k].key = key }
<1>1. object.fields = fields /\ DOMAIN fields = 1 .. Len(fields)
  BY ListedIs DEF JsonObject
<1>2. T = {}
  BY <1>1
<1>. QED
  BY <1>2 DEF Get, SelectInSeq

LEMMA TailListed ==
  ASSUME NEW list, Listed(list), NEW m \in Nat, m <= Len(list)
  PROVE  /\ Listed(SubSeq(list, m + 1, Len(list)))
         /\ Len(SubSeq(list, m + 1, Len(list))) = Len(list) - m
<1> DEFINE S == Range(list)
<1>1. list \in Seq(S) /\ Len(list) \in Nat
  BY ListedIs DEF Listed
<1> HIDE DEF S
<1>2. /\ SubSeq(list, m + 1, Len(list)) \in Seq(S)
      /\ Len(SubSeq(list, m + 1, Len(list))) = Len(list) - m
  BY <1>1
<1>. QED
  BY <1>2, ListedIs

LEMMA PaddedIs ==
  ASSUME NEW S, NEW s \in Seq(S), NEW u \in Seq(S)
  PROVE  /\ s \o u \in Seq(S) /\ Len(s \o u) = Len(s) + Len(u)
         /\ \A i \in 1 .. Len(s) : (s \o u)[i] = s[i]
         /\ \A i \in Len(s) + 1 .. Len(s) + Len(u) : (s \o u)[i] = u[i - Len(s)]
<1>1. s \o u \in Seq(S) /\ Len(s \o u) = Len(s) + Len(u) /\ Len(s) \in Nat /\ Len(u) \in Nat
  OBVIOUS
<1>2. \A i \in 1 .. Len(s) : (s \o u)[i] = s[i]
  OBVIOUS
<1>3. \A i \in Len(s) + 1 .. Len(s) + Len(u) : (s \o u)[i] = u[i - Len(s)]
  OBVIOUS
<1>. QED
  BY <1>1, <1>2, <1>3

-----------------------------------------------------------------------------
(* The observation lattice.                                                *)

Observable == {"null"} \union Inferable

\* InferredType::merge is the join of an order: commutative, associative and
\* idempotent, with "null" below and "utf8" above every other type.  So what a
\* field is observed to hold does not depend on the order of the records.
THEOREM MergeIsJoin ==
  /\ \A a, b \in Observable : Merge(a, b) \in Observable /\ Merge(a, b) = Merge(b, a)
  /\ \A a, b, c \in Observable : Merge(Merge(a, b), c) = Merge(a, Merge(b, c))
  /\ \A a \in Observable : /\ Merge(a, a) = a
                           /\ Merge("null", a) = a /\ Merge(a, "utf8") = "utf8"
<1>1. \A a, b \in Observable : Merge(a, b) \in Observable /\ Merge(a, b) = Merge(b, a)
  BY DEF Merge, Observable, Inferable
<1>2. ASSUME NEW a \in Observable, NEW b \in Observable, NEW c \in Observable
      PROVE  Merge(Merge(a, b), c) = Merge(a, Merge(b, c))
  BY DEF Merge, Observable, Inferable
<1>3. \A a \in Observable : /\ Merge(a, a) = a
                            /\ Merge("null", a) = a /\ Merge(a, "utf8") = "utf8"
  BY DEF Merge, Observable, Inferable
<1>. QED
  BY <1>1, <1>2, <1>3

\* A type a value has been merged into holds it, whatever is merged later.
LEMMA MergeHolds ==
  ASSUME NEW a \in Observable, NEW b \in Observable, NEW c \in Observable
  PROVE  /\ Merge(Merge(a, b), b) = Merge(a, b)
         /\ Merge(a, c) = a => Merge(Merge(a, b), c) = Merge(a, b)
  BY DEF Merge, Observable, Inferable

\* What was merged into an observed type widens to the field type it becomes.
LEMMA HeldWidens ==
  ASSUME NEW a \in Observable, NEW b \in Inferable, Merge(a, b) = a
  PROVE  KnownType(FieldType(a)) /\ HasLatticeType(FieldType(a)) /\ Widens(b, FieldType(a))
<1>1. a # "null"
  BY DEF Merge, Inferable
<1>2. FieldType(a) = Type(a) /\ Type(a).kind = a /\ a \in Inferable
  BY <1>1 DEF FieldType, Type, Observable
<1>3. Merge(b, a) = a
  BY <1>2 DEF Merge, Inferable
<1>. QED
  BY <1>2, <1>3 DEF KnownType, HasLatticeType, Widens

LEMMA FieldTypeKnown ==
  ASSUME NEW a \in Observable
  PROVE  KnownType(FieldType(a))
BY DEF KnownType, FieldType, Type, Observable, Inferable

LEMMA InferIn ==
  ASSUME NEW value
  PROVE  /\ Infer(value) \in Observable
         /\ ~Absent(value) => Infer(value) \in Inferable
<1>1. InferText(value.value) \in Inferable
  BY DEF InferText, Inferable
<1>2. InferJson(value) \in Observable
  BY DEF InferJson, Observable, Inferable
<1>3. ~IsNull(value) => InferJson(value) \in Inferable
  BY DEF InferJson, IsNull, Inferable
<1>. QED
  BY <1>1, <1>2, <1>3 DEF Infer, Absent, Observable

-----------------------------------------------------------------------------
(* A value that fits a type builds into a cell of that type.               *)

Kinds == Inferable \union {"timestamp", "timestamptz", "decimal"}

LEMMA KindsKnown ==
  ASSUME NEW type, KnownType(type)
  PROVE  type.kind \in Kinds
BY DEF KnownType, Kinds

Built(cell, kind) == \E x : cell = Some([is |-> kind, value |-> x])

LEMMA CellBuilt ==
  ASSUME NEW kind, NEW parsed, parsed.ok
  PROVE  Built(Cell(kind, parsed), kind)
BY DEF Cell, Built

LEMMA BuiltIs ==
  ASSUME NEW cell, NEW kind \in Kinds, Built(cell, kind)
  PROVE  cell.ok /\ cell.value.is = kind /\ cell # Some(NullCell)
<1>1. PICK x : cell = Some([is |-> kind, value |-> x])
  BY DEF Built
<1>2. cell.ok /\ cell.value.is = kind
  BY <1>1 DEF Some
<1>3. Some(NullCell).value.is = "null"
  BY DEF Some, NullCell
<1>. QED
  BY <1>2, <1>3 DEF Kinds, Inferable

LEMMA WidensTo ==
  ASSUME NEW observed \in Inferable, NEW type, Widens(observed, type)
  PROVE  /\ type.kind = "boolean" => observed = "boolean"
         /\ type.kind = "int64" => observed = "int64"
         /\ type.kind = "float64" => observed \in {"int64", "float64"}
BY DEF Widens, HasLatticeType, Merge, Inferable

\* What infer_text_type reads from a text parses as that.
LEMMA InferTextParses ==
  ASSUME NEW text
  PROVE  /\ InferText(text) = "boolean" => text.form = "Flag"
         /\ InferText(text) = "int64" => ParseInt(text).ok
         /\ InferText(text) \in {"int64", "float64"} => ParseFinite(text).ok
<1>1. /\ InferText(text) = "boolean" => text.form = "Flag"
      /\ InferText(text) = "int64" => ParseInt(text).ok
      /\ InferText(text) = "float64" => ParseFinite(text).ok
  BY DEF InferText
<1>2. ParseInt(text).ok =>
        text.form = "Number" /\ text.int # <<>> /\ ~text.exponent.ok /\ ~text.commas
  BY DEF ParseInt, When, None
<1>3. text.form = "Number" /\ text.int # <<>> /\ ~text.exponent.ok /\ ~text.commas
        => ParseFinite(text).ok
  BY DEF ParseFinite, ParsesFloat, When, Some
<1>. QED
  BY <1>1, <1>2, <1>3

\* text_value_fits and build_text_array agree: a text that fits a type builds
\* into a cell of it.
THEOREM TextFitBuilds ==
  ASSUME NEW text, NEW type, KnownType(type), TextFits(text, type)
  PROVE  Built(BuildText(type, Some(text)), type.kind)
<1> DEFINE cell == Some(text)
<1>1. cell.ok /\ cell.value = text
  BY DEF Some
<1>2. InferText(text) \in Inferable
  BY DEF InferText, Inferable
<1>3. type.kind \in Inferable => Widens(InferText(text), type)
  BY DEF TextFits, Inferable
<1> HIDE DEF cell
<1>4. CASE type.kind = "utf8"
  <2>1. BuildText(type, cell) = Cell("utf8", cell)
    BY <1>1, <1>4 DEF BuildText
  <2>. QED
    BY <1>1, <1>4, <2>1, CellBuilt DEF cell
<1>5. CASE type.kind = "boolean"
  <2>1. text.form = "Flag"
    BY <1>2, <1>3, <1>5, WidensTo, InferTextParses DEF Inferable
  <2> DEFINE parsed == When(text.form = "Flag", text.flag)
  <2>2. BuildText(type, cell) = Cell("boolean", parsed)
    BY <1>1, <1>5 DEF BuildText
  <2>3. parsed.ok
    BY <2>1 DEF When, Some
  <2> HIDE DEF parsed
  <2>. QED
    BY <1>5, <2>2, <2>3, CellBuilt DEF cell
<1>6. CASE type.kind = "int64"
  <2>1. ParseInt(text).ok
    BY <1>2, <1>3, <1>6, WidensTo, InferTextParses DEF Inferable
  <2>2. BuildText(type, cell) = Cell("int64", ParseInt(text))
    BY <1>1, <1>6 DEF BuildText
  <2>. QED
    BY <1>6, <2>1, <2>2, CellBuilt DEF cell
<1>7. CASE type.kind = "float64"
  <2>1. ParseFinite(text).ok
    BY <1>2, <1>3, <1>7, WidensTo, InferTextParses DEF Inferable
  <2>2. BuildText(type, cell) = Cell("float64", ParseFinite(text))
    BY <1>1, <1>7 DEF BuildText
  <2>. QED
    BY <1>7, <2>1, <2>2, CellBuilt DEF cell
<1>8. CASE type.kind \in {"timestamp", "timestamptz"}
  <2>1. ParseMoment(text, type).ok
    BY <1>8 DEF TextFits
  <2>2. BuildText(type, cell) = Cell(type.kind, ParseMoment(text, type))
    BY <1>1, <1>8 DEF BuildText, BuildDeclared
  <2>. QED
    BY <2>1, <2>2, CellBuilt DEF cell
<1>9. CASE type.kind = "decimal"
  <2>1. ParseDecimal(text, type.precision, type.scale).ok
    BY <1>9 DEF TextFits
  <2>2. BuildText(type, cell) = Cell(type.kind, ParseDecimal(text, type.precision, type.scale))
    BY <1>1, <1>9 DEF BuildText, BuildDeclared
  <2>. QED
    BY <2>1, <2>2, CellBuilt DEF cell
<1>. QED
  BY <1>4, <1>5, <1>6, <1>7, <1>8, <1>9, KindsKnown DEF Kinds, Inferable, cell

\* json_value_fits and build_json_array agree: a JSON value that fits a type
\* builds into a cell of it.
THEOREM JsonFitBuilds ==
  ASSUME NEW value, NEW type, KnownType(type), ~IsNull(value), JsonFits(value, type)
  PROVE  Built(BuildJson(type, value), type.kind)
<1>2. InferJson(value) \in Inferable
  BY DEF InferJson, IsNull, Inferable
<1>3. type.kind \in Inferable => Widens(InferJson(value), type)
  BY DEF JsonFits, Inferable
<1>4. /\ InferJson(value) = "boolean" => value.kind = "boolean"
      /\ InferJson(value) = "int64" => value.kind = "number" /\ IsI64(value)
      /\ InferJson(value) = "float64" => value.kind = "number"
  BY DEF InferJson
<1>5. CASE type.kind = "utf8"
  <2>1. BuildJson(type, value) = Cell("utf8", Some(Rendered(value)))
    BY <1>5 DEF BuildJson
  <2>2. Some(Rendered(value)).ok
    BY DEF Some
  <2>. QED
    BY <1>5, <2>1, <2>2, CellBuilt
<1>6. CASE type.kind = "boolean"
  <2> DEFINE parsed == When(value.kind = "boolean", value.flag)
  <2>1. BuildJson(type, value) = Cell("boolean", parsed)
    BY <1>6 DEF BuildJson
  <2>2. parsed.ok
    BY <1>2, <1>3, <1>4, <1>6, WidensTo DEF Inferable, When, Some
  <2> HIDE DEF parsed
  <2>. QED
    BY <1>6, <2>1, <2>2, CellBuilt
<1>7. CASE type.kind = "int64"
  <2> DEFINE parsed == When(value.kind = "number" /\ IsI64(value), value.n)
  <2>1. BuildJson(type, value) = Cell("int64", parsed)
    BY <1>7 DEF BuildJson
  <2>2. parsed.ok
    BY <1>2, <1>3, <1>4, <1>7, WidensTo DEF Inferable, When, Some
  <2> HIDE DEF parsed
  <2>. QED
    BY <1>7, <2>1, <2>2, CellBuilt
<1>8. CASE type.kind = "float64"
  <2> DEFINE parsed == When(value.kind = "number", AsFloat(value))
  <2>1. BuildJson(type, value) = Cell("float64", parsed)
    BY <1>8 DEF BuildJson
  <2>2. parsed.ok
    BY <1>2, <1>3, <1>4, <1>8, WidensTo DEF Inferable, When, Some
  <2> HIDE DEF parsed
  <2>. QED
    BY <1>8, <2>1, <2>2, CellBuilt
<1>9. CASE type.kind \in {"timestamp", "timestamptz"}
  <2>1. value.kind = "string" /\ ParseMoment(value.text, type).ok
    BY <1>9 DEF JsonFits
  <2>2. BuildJson(type, value) = Cell(type.kind, ParseMoment(value.text, type))
    BY <1>9, <2>1 DEF BuildJson, BuildDeclared
  <2>. QED
    BY <2>1, <2>2, CellBuilt
<1>10. CASE type.kind = "decimal" /\ value.kind = "string"
  <2>1. ParseDecimal(value.text, type.precision, type.scale).ok
    BY <1>10 DEF JsonFits
  <2>2. BuildJson(type, value)
          = Cell(type.kind, ParseDecimal(value.text, type.precision, type.scale))
    BY <1>10 DEF BuildJson, BuildDeclared
  <2>. QED
    BY <2>1, <2>2, CellBuilt
<1>11. CASE type.kind = "decimal" /\ value.kind # "string"
  <2>1. /\ value.kind = "number" /\ value.int
        /\ RescaleInteger(value.n, type.precision, type.scale).ok
    BY <1>11 DEF JsonFits
  <2>2. BuildJson(type, value)
          = Cell("decimal", RescaleInteger(value.n, type.precision, type.scale))
    BY <1>11, <2>1 DEF BuildJson
  <2>. QED
    BY <1>11, <2>1, <2>2, CellBuilt
<1>. QED
  BY <1>5, <1>6, <1>7, <1>8, <1>9, <1>10, <1>11, KindsKnown DEF Kinds, Inferable

\* A value that is there and fits builds; one that is absent builds as null.
LEMMA FitBuilds ==
  ASSUME NEW value, NEW type, KnownType(type)
  PROVE  /\ Absent(value) => Build(value, type) = Some(NullCell)
         /\ ~Absent(value) /\ Fits(value, type) => Built(Build(value, type), type.kind)
<1>1. Absent(value) => Build(value, type) = Some(NullCell)
  BY DEF Absent, Build, BuildText, BuildJson
<1>2. ASSUME ~Absent(value), Fits(value, type), Csv
      PROVE  Built(Build(value, type), type.kind)
  <2>1. Built(BuildText(type, Some(value.value)), type.kind)
    BY <1>2, TextFitBuilds DEF Fits
  <2>2. value.ok /\ Some(value.value).ok /\ Some(value.value).value = value.value
    BY <1>2 DEF Absent, Some
  <2>3. CASE type.kind # "utf8"
    <3>1. BuildText(type, value) = BuildText(type, Some(value.value))
      BY <2>2, <2>3 DEF BuildText
    <3>. QED
      BY <1>2, <2>1, <3>1 DEF Build
  <2>4. CASE type.kind = "utf8"
    <3>1. BuildText(type, value) = Cell("utf8", value)
      BY <2>2, <2>4 DEF BuildText
    <3>. QED
      BY <1>2, <2>2, <2>4, <3>1, CellBuilt DEF Build
  <2>. QED
    BY <2>3, <2>4
<1>3. ASSUME ~Absent(value), Fits(value, type), ~Csv
      PROVE  Built(Build(value, type), type.kind)
  BY <1>3, JsonFitBuilds DEF Absent, Fits, Build
<1>. QED
  BY <1>1, <1>2, <1>3

-----------------------------------------------------------------------------
(* The transform: from a dataset name back to the source it reads.         *)

\* What the definition phase leaves of a transform.
Sound(t) ==
  /\ Listed(OrEmpty(t.flatten)) /\ Listed(OrEmpty(t.select)) /\ Listed(OrEmpty(t.rename))
  /\ IsInjective(Sources(t)) /\ IsInjective(Outputs(t))
  /\ \A k \in DOMAIN OrEmpty(t.flatten) : Len(t.flatten[k].path) >= 2
  /\ \A k \in DOMAIN OrEmpty(t.rename) :
       /\ t.rename[k].source # t.rename[k].target
       /\ t.select # Unset => t.rename[k].source \in Range(t.select)
  /\ t.select # Unset => Range(Outputs(t)) \subseteq Range(t.select)

LEMMA NoTransformSound == Sound(NoTransform)
<1>1. OrEmpty(Unset) = <<>> /\ DOMAIN <<>> = {} /\ Listed(<<>>)
  <2>1. OrEmpty(Unset) = <<>> /\ DOMAIN <<>> = {} /\ <<>> \in Seq({})
    BY DEF OrEmpty
  <2>. QED
    BY <2>1, ListedIs
<1>. QED
  BY <1>1 DEF Sound, NoTransform, Sources, Outputs, IsInjective

LEMMA ValidSound ==
  ASSUME NEW t, NEW format, TransformValid(t, format), ParsesAsMaps(t),
         Listed(OrEmpty(t.flatten)), Listed(OrEmpty(t.select)), Listed(OrEmpty(t.rename))
  PROVE  Sound(t)
<1>1. DOMAIN OrEmpty(Unset) = {}
  BY DEF OrEmpty
<1>2. \A k \in DOMAIN OrEmpty(t.flatten) : Len(t.flatten[k].path) >= 2
  BY <1>1 DEF TransformValid, FlattenValid, OrEmpty
<1>3. \A k \in DOMAIN OrEmpty(t.rename) :
        /\ t.rename[k].source # t.rename[k].target
        /\ t.select # Unset => t.rename[k].source \in Range(t.select)
  BY <1>1 DEF TransformValid, RenameValid, OrEmpty
<1>4. t.select # Unset => Range(Outputs(t)) \subseteq Range(t.select)
  BY DEF TransformValid, NamesValid
<1>5. IsInjective(Outputs(t))
  BY <1>1 DEF TransformValid, FlattenValid, Outputs, IsInjective
<1>. QED
  BY <1>2, <1>3, <1>4, <1>5 DEF Sound, ParsesAsMaps

LEMMA TransformLists ==
  ASSUME NEW t, Sound(t)
  PROVE  /\ Listed(Outputs(t)) /\ DOMAIN Outputs(t) = DOMAIN OrEmpty(t.flatten)
         /\ \A k \in DOMAIN Outputs(t) : Outputs(t)[k] = t.flatten[k].output
         /\ Listed(Sources(t)) /\ DOMAIN Sources(t) = DOMAIN OrEmpty(t.rename)
         /\ \A k \in DOMAIN Sources(t) : Sources(t)[k] = t.rename[k].source
         /\ Listed(Targets(t)) /\ DOMAIN Targets(t) = DOMAIN OrEmpty(t.rename)
         /\ \A k \in DOMAIN Targets(t) : Targets(t)[k] = t.rename[k].target
         /\ Listed(FinalNames(t, Outputs(t)))
         /\ DOMAIN FinalNames(t, Outputs(t)) = DOMAIN Outputs(t)
         /\ \A k \in DOMAIN Outputs(t) :
              FinalNames(t, Outputs(t))[k] = FinalName(t, t.flatten[k].output)
<1> DEFINE f == Len(OrEmpty(t.flatten))
           r == Len(OrEmpty(t.rename))
<1>1. /\ f \in Nat /\ DOMAIN OrEmpty(t.flatten) = 1 .. f
      /\ r \in Nat /\ DOMAIN OrEmpty(t.rename) = 1 .. r
  BY ListedIs DEF Sound
<1> HIDE DEF f, r
<1>2. Outputs(t) = [k \in 1 .. f |-> t.flatten[k].output]
  BY <1>1 DEF Outputs
<1>3. Sources(t) = [k \in 1 .. r |-> t.rename[k].source]
  BY <1>1 DEF Sources
<1>4. Targets(t) = [k \in 1 .. r |-> t.rename[k].target]
  BY <1>1 DEF Targets
<1>5. FinalNames(t, Outputs(t)) = [k \in 1 .. f |-> FinalName(t, t.flatten[k].output)]
  BY <1>2 DEF FinalNames
<1>6. Listed(Outputs(t))
  BY <1>1, <1>2, FunctionListed
<1>7. Listed(Sources(t))
  BY <1>1, <1>3, FunctionListed
<1>8. Listed(Targets(t))
  BY <1>1, <1>4, FunctionListed
<1>9. Listed(FinalNames(t, Outputs(t)))
  BY <1>1, <1>5, FunctionListed
<1>. QED
  BY <1>1, <1>2, <1>3, <1>4, <1>5, <1>6, <1>7, <1>8, <1>9

LEMMA FinalNameIs ==
  ASSUME NEW t, Sound(t), NEW name
  PROVE  /\ \A k \in DOMAIN Sources(t) :
              t.rename[k].source = name => FinalName(t, name) = t.rename[k].target
         /\ \/ FinalName(t, name) = name
            \/ \E k \in DOMAIN Targets(t) : FinalName(t, name) = t.rename[k].target
<1> DEFINE n == FirstIndex(Sources(t), name)
<1>1. /\ Listed(Sources(t)) /\ DOMAIN Sources(t) = DOMAIN Targets(t)
      /\ \A k \in DOMAIN Sources(t) : Sources(t)[k] = t.rename[k].source
  BY TransformLists
<1>2. \/ n = 0 /\ \A k \in DOMAIN Sources(t) : Sources(t)[k] # name
      \/ n \in DOMAIN Sources(t) /\ n > 0 /\ Sources(t)[n] = name
  BY <1>1, FirstIndexIs
<1>3. FinalName(t, name) = IF n = 0 THEN name ELSE t.rename[n].target
  BY DEF FinalName
<1>4. \A j, k \in DOMAIN Sources(t) : Sources(t)[j] = Sources(t)[k] => j = k
  BY DEF Sound, IsInjective
<1> HIDE DEF n
<1>. QED
  BY <1>1, <1>2, <1>3, <1>4

\* A column of the dataset: a flatten output's, or an observed field's.
LEMMA ColumnsAre ==
  ASSUME NEW t, Sound(t), NEW fields, Listed(fields), ~UnknownFields(t, fields)
  PROVE  LET columns == ResolvedColumns(t, fields)
             outputs == Outputs(t)
         IN /\ Listed(columns)
            /\ \A i \in DOMAIN columns :
                 \/ \E k \in DOMAIN outputs : columns[i] = FlattenColumn(t, fields, k)
                 \/ \E k \in DOMAIN fields : columns[i] = FieldColumn(t, fields, k)
            /\ \A k \in DOMAIN outputs : \E i \in DOMAIN columns :
                 \E j \in DOMAIN outputs :
                   outputs[j] = outputs[k] /\ columns[i] = FlattenColumn(t, fields, j)
            /\ \A name \in Range(fields) \ Range(outputs) :
                 t.select = Unset \/ name \in Range(t.select) =>
                   \E i \in DOMAIN columns : \E k \in DOMAIN fields :
                     fields[k] = name /\ columns[i] = FieldColumn(t, fields, k)
<1> DEFINE columns == ResolvedColumns(t, fields)
           outputs == Outputs(t)
<1>1. /\ Listed(outputs) /\ Len(outputs) \in Nat /\ DOMAIN outputs = 1 .. Len(outputs)
      /\ Len(fields) \in Nat /\ DOMAIN fields = 1 .. Len(fields)
  BY TransformLists, ListedIs
<1> HIDE DEF outputs
<1>2. CASE t.select = Unset
  <2> DEFINE plain == [k \in DOMAIN fields |-> FieldColumn(t, fields, k)]
             flat == [k \in DOMAIN outputs |-> FlattenColumn(t, fields, k)]
  <2>1. columns = plain \o flat
    BY <1>2 DEF ResolvedColumns, outputs
  <2>2. /\ DOMAIN plain = 1 .. Len(fields) /\ plain = [k \in 1 .. Len(fields) |-> plain[k]]
        /\ DOMAIN flat = 1 .. Len(outputs) /\ flat = [k \in 1 .. Len(outputs) |-> flat[k]]
    BY <1>1
  <2>3. /\ \A k \in DOMAIN fields : plain[k] = FieldColumn(t, fields, k)
        /\ \A k \in DOMAIN outputs : flat[k] = FlattenColumn(t, fields, k)
    OBVIOUS
  <2> HIDE DEF columns, plain, flat
  <2>4. /\ Listed(plain) /\ Len(plain) = Len(fields)
        /\ Listed(flat) /\ Len(flat) = Len(outputs)
    BY <1>1, <2>2, FunctionListed
  <2>5. /\ Listed(columns) /\ Len(columns) = Len(fields) + Len(outputs)
        /\ DOMAIN columns = 1 .. Len(fields) + Len(outputs)
        /\ \A k \in 1 .. Len(fields) : columns[k] = plain[k]
        /\ \A k \in 1 .. Len(outputs) : columns[Len(fields) + k] = flat[k]
    <3>1. /\ Listed(plain \o flat) /\ Len(plain \o flat) = Len(plain) + Len(flat)
          /\ \A k \in 1 .. Len(plain) : (plain \o flat)[k] = plain[k]
          /\ \A k \in 1 .. Len(flat) : (plain \o flat)[Len(plain) + k] = flat[k]
      <4>1. Listed(plain) /\ Listed(flat)
        BY <2>4
      <4>2. /\ Listed(plain \o flat) /\ Len(plain \o flat) = Len(plain) + Len(flat)
            /\ \A k \in 1 .. Len(plain) : (plain \o flat)[k] = plain[k]
        BY <4>1, ConcatListed, Zenon
      <4>3. \A k \in 1 .. Len(flat) : (plain \o flat)[Len(plain) + k] = flat[k]
        BY <4>1, ConcatListed
      <4>. QED
        BY <4>2, <4>3
    <3>2. DOMAIN columns = 1 .. Len(columns)
      BY <2>1, <3>1, ListedIs, Zenon
    <3>. QED
      BY <2>1, <2>4, <3>1, <3>2
  <2>6. ASSUME NEW i \in DOMAIN columns
        PROVE  \/ \E k \in DOMAIN outputs : columns[i] = FlattenColumn(t, fields, k)
               \/ \E k \in DOMAIN fields : columns[i] = FieldColumn(t, fields, k)
    <3>1. CASE i <= Len(fields)
      <4>1. i \in DOMAIN fields /\ columns[i] = FieldColumn(t, fields, i)
        BY <1>1, <2>3, <2>5, <3>1
      <4>. QED
        BY <4>1
    <3>2. CASE i > Len(fields)
      <4> DEFINE k == i - Len(fields)
      <4>1. k \in 1 .. Len(outputs) /\ Len(fields) + k = i
        BY <1>1, <2>5, <3>2
      <4> HIDE DEF k
      <4>2. columns[i] = FlattenColumn(t, fields, k)
        BY <1>1, <2>3, <2>5, <4>1
      <4>. QED
        BY <1>1, <4>1, <4>2
    <3>. QED
      BY <1>1, <2>5, <3>1, <3>2
  <2>7. ASSUME NEW k \in DOMAIN outputs
        PROVE  \E i \in DOMAIN columns : columns[i] = FlattenColumn(t, fields, k)
    <3>1. Len(fields) + k \in DOMAIN columns
      BY <1>1, <2>5
    <3>2. columns[Len(fields) + k] = FlattenColumn(t, fields, k)
      BY <1>1, <2>3, <2>5
    <3>. QED
      BY <3>1, <3>2
  <2>8. ASSUME NEW name \in Range(fields)
        PROVE  \E i \in DOMAIN columns : \E k \in DOMAIN fields :
                 fields[k] = name /\ columns[i] = FieldColumn(t, fields, k)
    <3>1. PICK k \in DOMAIN fields : fields[k] = name
      BY DEF Range
    <3>2. k \in DOMAIN columns /\ columns[k] = FieldColumn(t, fields, k)
      BY <1>1, <2>3, <2>5
    <3>. QED
      BY <3>1, <3>2
  <2>. QED
    BY <2>5, <2>6, <2>7, <2>8 DEF columns, outputs
<1>3. CASE t.select # Unset
  <2>1. /\ Listed(t.select) /\ Len(t.select) \in Nat
        /\ DOMAIN t.select = 1 .. Len(t.select)
    BY <1>3, ListedIs DEF Sound, OrEmpty
  <2>2. columns = [k \in DOMAIN t.select |-> SelectedColumn(t, fields, t.select[k])]
    BY <1>3 DEF ResolvedColumns
  <2>3. Range(outputs) \subseteq Range(t.select)
        /\ Range(t.select) \subseteq Range(fields) \union Range(outputs)
    BY <1>3 DEF Sound, UnknownFields, OrEmpty, outputs
  <2> HIDE DEF columns
  <2>4. Listed(columns) /\ DOMAIN columns = DOMAIN t.select
    BY <2>1, <2>2, FunctionListed
  <2>5. ASSUME NEW name \in Range(t.select)
        PROVE  \/ \E k \in DOMAIN outputs :
                    /\ outputs[k] = name
                    /\ SelectedColumn(t, fields, name) = FlattenColumn(t, fields, k)
               \/ /\ name \notin Range(outputs)
                  /\ \E k \in DOMAIN fields :
                       /\ fields[k] = name
                       /\ SelectedColumn(t, fields, name) = FieldColumn(t, fields, k)
    <3> DEFINE p == FirstIndex(outputs, name)
               q == FirstIndex(fields, name)
    <3>1. SelectedColumn(t, fields, name) =
            IF p > 0 THEN FlattenColumn(t, fields, p) ELSE FieldColumn(t, fields, q)
      BY DEF SelectedColumn, outputs
    <3>2. \/ p = 0 /\ \A k \in DOMAIN outputs : outputs[k] # name
          \/ p \in DOMAIN outputs /\ p > 0 /\ outputs[p] = name
      BY <1>1, FirstIndexIs
    <3>3. \/ q = 0 /\ \A k \in DOMAIN fields : fields[k] # name
          \/ q \in DOMAIN fields /\ q > 0 /\ fields[q] = name
      BY FirstIndexIs
    <3> HIDE DEF p, q
    <3>4. CASE p > 0
      BY <3>1, <3>2, <3>4
    <3>5. CASE ~(p > 0)
      <4>1. name \notin Range(outputs)
        BY <3>2, <3>5 DEF Range
      <4>2. name \in Range(fields)
        BY <2>3, <4>1
      <4>3. q \in DOMAIN fields /\ fields[q] = name
        BY <3>3, <4>2 DEF Range
      <4>. QED
        BY <3>1, <3>5, <4>1, <4>3
    <3>. QED
      BY <3>4, <3>5
  <2>6. ASSUME NEW i \in DOMAIN columns
        PROVE  \/ \E k \in DOMAIN outputs : columns[i] = FlattenColumn(t, fields, k)
               \/ \E k \in DOMAIN fields : columns[i] = FieldColumn(t, fields, k)
    <3>1. t.select[i] \in Range(t.select)
          /\ columns[i] = SelectedColumn(t, fields, t.select[i])
      BY <2>2, <2>4 DEF Range
    <3>. QED
      BY <2>5, <3>1
  <2>7. ASSUME NEW name \in Range(t.select)
        PROVE  \E i \in DOMAIN columns : columns[i] = SelectedColumn(t, fields, name)
    BY <2>2, <2>4 DEF Range
  <2>8. ASSUME NEW k \in DOMAIN outputs
        PROVE  \E i \in DOMAIN columns : \E j \in DOMAIN outputs :
                 outputs[j] = outputs[k] /\ columns[i] = FlattenColumn(t, fields, j)
    <3>1. outputs[k] \in Range(outputs) /\ outputs[k] \in Range(t.select)
      BY <2>3 DEF Range
    <3>2. PICK j \in DOMAIN outputs :
            /\ outputs[j] = outputs[k]
            /\ SelectedColumn(t, fields, outputs[k]) = FlattenColumn(t, fields, j)
      BY <2>5, <3>1
    <3>. QED
      BY <2>7, <3>1, <3>2
  <2>9. ASSUME NEW name \in Range(fields) \ Range(outputs), name \in Range(t.select)
        PROVE  \E i \in DOMAIN columns : \E k \in DOMAIN fields :
                 fields[k] = name /\ columns[i] = FieldColumn(t, fields, k)
    <3>1. PICK k \in DOMAIN fields :
            fields[k] = name /\ SelectedColumn(t, fields, name) = FieldColumn(t, fields, k)
      BY <2>5, <2>9 DEF Range
    <3>. QED
      BY <2>7, <2>9, <3>1
  <2>. QED
    BY <1>3, <2>4, <2>6, <2>8, <2>9 DEF columns, outputs
<1>. QED
  BY <1>2, <1>3

LEMMA LongPath ==
  ASSUME NEW path, Len(path) >= 2, NEW x
  PROVE  path # <<x>>
<1>1. Len(<<x>>) = 1 /\ ~(1 >= 2)
  OBVIOUS
<1>. QED
  BY <1>1

\* A dataset name, looked up backwards, leads to the source its column reads.
LEMMA NameResolves ==
  ASSUME NEW t, Sound(t), NEW fields, Listed(fields),
         ~UnknownFields(t, fields), ~Collides(t, fields),
         NEW i \in DOMAIN ResolvedColumns(t, fields)
  PROVE  LET column == ResolvedColumns(t, fields)[i]
         IN JsonSource(t, column.name) = column.source
<1> DEFINE columns == ResolvedColumns(t, fields)
           outputs == Outputs(t)
           name == columns[i].name
           f == FirstIndex(FinalNames(t, outputs), name)
           r == FirstIndex(Targets(t), name)
<1>1. JsonSource(t, name) = IF f > 0 THEN t.flatten[f].path
                            ELSE IF r > 0 THEN <<t.rename[r].source>>
                            ELSE <<name>>
  BY DEF JsonSource
<1>2. /\ DOMAIN outputs = DOMAIN OrEmpty(t.flatten)
      /\ \A k \in DOMAIN outputs : outputs[k] = t.flatten[k].output
      /\ DOMAIN Targets(t) = DOMAIN OrEmpty(t.rename)
      /\ DOMAIN Sources(t) = DOMAIN OrEmpty(t.rename)
      /\ \A k \in DOMAIN Sources(t) : Sources(t)[k] = t.rename[k].source
  BY TransformLists
<1>3. \/ /\ f = 0 /\ \A k \in DOMAIN outputs : FinalName(t, t.flatten[k].output) # name
      \/ f \in DOMAIN outputs /\ f > 0 /\ FinalName(t, t.flatten[f].output) = name
  <2> DEFINE finals == FinalNames(t, outputs)
  <2>1. /\ Listed(finals) /\ DOMAIN finals = DOMAIN outputs
        /\ \A k \in DOMAIN outputs : finals[k] = FinalName(t, t.flatten[k].output)
    BY TransformLists
  <2>2. \/ f = 0 /\ \A k \in DOMAIN finals : finals[k] # name
        \/ f \in DOMAIN finals /\ f > 0 /\ finals[f] = name
    BY <2>1, FirstIndexIs
  <2> HIDE DEF finals, outputs, name
  <2>. QED
    BY <2>1, <2>2
<1>4. \/ r = 0 /\ \A k \in DOMAIN OrEmpty(t.rename) : t.rename[k].target # name
      \/ /\ r \in DOMAIN OrEmpty(t.rename) /\ r > 0 /\ t.rename[r].target = name
  <2> DEFINE targets == Targets(t)
  <2>1. /\ Listed(targets) /\ DOMAIN targets = DOMAIN OrEmpty(t.rename)
        /\ \A k \in DOMAIN targets : targets[k] = t.rename[k].target
    BY TransformLists
  <2>2. \/ r = 0 /\ \A k \in DOMAIN targets : targets[k] # name
        \/ r \in DOMAIN targets /\ r > 0 /\ targets[r] = name
    BY <2>1, FirstIndexIs
  <2> HIDE DEF targets, name
  <2>. QED
    BY <2>1, <2>2
<1>5. /\ \/ \E k \in DOMAIN outputs : columns[i] = FlattenColumn(t, fields, k)
         \/ \E k \in DOMAIN fields : columns[i] = FieldColumn(t, fields, k)
      /\ \A k \in DOMAIN outputs : \E j \in DOMAIN columns :
           \E m \in DOMAIN outputs :
             outputs[m] = outputs[k] /\ columns[j] = FlattenColumn(t, fields, m)
      /\ \A s \in Range(fields) \ Range(outputs) :
           t.select = Unset \/ s \in Range(t.select) =>
             \E j \in DOMAIN columns : \E k \in DOMAIN fields :
               fields[k] = s /\ columns[j] = FieldColumn(t, fields, k)
  BY ColumnsAre
\* Two columns of one name are the same, if either has its name changed.
<1>6. ASSUME NEW j \in DOMAIN columns, columns[j].name = name, NameChanged(columns[j])
      PROVE  columns[j] = columns[i]
  BY <1>6 DEF Collides
<1>7. /\ \A k \in DOMAIN outputs :
           LET c == FlattenColumn(t, fields, k)
           IN /\ c.name = FinalName(t, t.flatten[k].output)
              /\ c.source = t.flatten[k].path /\ c.index = Len(fields) + k
              /\ NameChanged(c)
      /\ \A k \in DOMAIN fields :
           LET c == FieldColumn(t, fields, k)
           IN c.name = FinalName(t, fields[k]) /\ c.source = <<fields[k]>> /\ c.index = k
  <2>1. \A k \in DOMAIN outputs : Len(t.flatten[k].path) >= 2
    BY <1>2 DEF Sound
  <2>3. ASSUME NEW k \in DOMAIN outputs, NEW x PROVE t.flatten[k].path # <<x>>
    BY <2>1, LongPath
  <2> HIDE DEF outputs
  <2>4. \A k \in DOMAIN outputs :
           LET c == FlattenColumn(t, fields, k)
           IN /\ c.name = FinalName(t, t.flatten[k].output)
              /\ c.source = t.flatten[k].path /\ c.index = Len(fields) + k
    BY DEF FlattenColumn, Column
  <2>5. \A k \in DOMAIN fields :
           LET c == FieldColumn(t, fields, k)
           IN c.name = FinalName(t, fields[k]) /\ c.source = <<fields[k]>> /\ c.index = k
    BY DEF FieldColumn, Column
  <2>. QED
    BY <2>3, <2>4, <2>5 DEF NameChanged
<1>8. /\ Len(fields) \in Nat /\ DOMAIN fields = 1 .. Len(fields)
      /\ DOMAIN outputs = 1 .. Len(outputs) /\ Len(outputs) \in Nat
  BY TransformLists, ListedIs
<1>9. \A j, k \in DOMAIN outputs : outputs[j] = outputs[k] => j = k
  BY DEF Sound, IsInjective
<1> HIDE DEF columns, outputs, name, f, r
\* If a flatten output has the name, its column is the one.
<1>10. ASSUME NEW k \in DOMAIN outputs, FinalName(t, t.flatten[k].output) = name
       PROVE  columns[i] = FlattenColumn(t, fields, k)
  <2>1. PICK j \in DOMAIN columns : \E m \in DOMAIN outputs :
               outputs[m] = outputs[k] /\ columns[j] = FlattenColumn(t, fields, m)
    BY <1>5
  <2>2. columns[j] = FlattenColumn(t, fields, k)
    BY <1>9, <2>1
  <2>. QED
    BY <1>6, <1>7, <1>10, <2>2
<1>11. CASE f > 0
  <2>1. columns[i] = FlattenColumn(t, fields, f)
    BY <1>3, <1>10, <1>11
  <2>. QED
    BY <1>1, <1>3, <1>7, <1>11, <2>1 DEF columns, name
<1>12. CASE ~(f > 0)
  <2>1. \A k \in DOMAIN outputs : FinalName(t, t.flatten[k].output) # name
    BY <1>3, <1>12
  <2>2. PICK k \in DOMAIN fields : columns[i] = FieldColumn(t, fields, k)
    BY <1>5, <1>7, <2>1 DEF name
  <2>3. columns[i].source = <<fields[k]>> /\ name = FinalName(t, fields[k])
    BY <1>7, <2>2 DEF name
  <2>4. CASE r > 0
    <3> DEFINE s == t.rename[r].source
    <3>1. /\ r \in DOMAIN Sources(t) /\ t.rename[r].target = name /\ s # name
          /\ t.select = Unset \/ s \in Range(t.select)
      BY <1>2, <1>4, <2>4 DEF Sound
    <3>2. FinalName(t, s) = name
      BY <3>1, FinalNameIs
    <3>3. s \in Range(fields) \union Range(outputs)
      BY <1>2, <3>1 DEF UnknownFields, Range, outputs
    <3>4. s \notin Range(outputs)
      BY <1>2, <2>1, <3>2 DEF Range
    <3> HIDE DEF s
    <3>5. PICK j \in DOMAIN columns : \E m \in DOMAIN fields :
                 fields[m] = s /\ columns[j] = FieldColumn(t, fields, m)
      BY <1>5, <3>1, <3>3, <3>4
    <3>6. columns[j].name = name /\ columns[j].source = <<s>>
      BY <1>7, <3>2, <3>5
    <3>7. NameChanged(columns[j])
      <4>1. <<s>> # <<name>>
        BY <3>1
      <4>. QED
        BY <3>6, <4>1 DEF NameChanged
    <3>8. columns[i].source = <<s>>
      BY <1>6, <3>6, <3>7
    <3>. QED
      BY <1>1, <1>12, <2>4, <3>8 DEF s, columns, name
  <2>5. CASE ~(r > 0)
    <3>1. \A m \in DOMAIN OrEmpty(t.rename) : t.rename[m].target # name
      BY <1>4, <2>5
    <3>2. FinalName(t, fields[k]) = fields[k]
      BY <1>2, <2>3, <3>1, FinalNameIs
    <3>. QED
      BY <1>1, <1>12, <2>3, <2>5, <3>2 DEF columns, name
  <2>. QED
    BY <2>4, <2>5
<1>. QED
  BY <1>11, <1>12

-----------------------------------------------------------------------------
(* The directive an accepted definition and its pin amount to.             *)

Directed(dir) ==
  /\ Sound(dir.transform)
  /\ Listed(dir.pin) /\ \A k \in DOMAIN dir.pin : KnownType(dir.pin[k].type)
  /\ dir.pin # <<>> => dir.mode = "pinned"
  /\ Listed(dir.overrides)
  /\ \A j, k \in DOMAIN dir.overrides :
       dir.overrides[j].name = dir.overrides[k].name => j = k
  /\ \A k \in DOMAIN dir.overrides :
       dir.overrides[k].type.ok => KnownType(dir.overrides[k].type.value)

KeysOf(record) == [j \in DOMAIN record |-> record[j].key]
Flagged(nullable) == nullable.ok => nullable.value \in BOOLEAN

\* The files of a load, as their parsers return them.
Files ==
  /\ Listed(def.keys)
  /\ def.transform # Unset =>
       /\ ParsesAsMaps(def.transform)
       /\ Listed(OrEmpty(def.transform.flatten))
       /\ Listed(OrEmpty(def.transform.select))
       /\ Listed(OrEmpty(def.transform.rename))
  /\ def.block # Unset =>
       /\ Listed(OrEmpty(def.block.overrides))
       /\ \A k \in DOMAIN OrEmpty(def.block.overrides) :
            Flagged(OrEmpty(def.block.overrides)[k].nullable)
  /\ Listed(source.header) /\ Listed(source.records)
  /\ ~Csv => \A k \in DOMAIN source.records :
                /\ Listed(source.records[k]) /\ IsInjective(KeysOf(source.records[k]))
  /\ pin.ok => Listed(pin.value)

Codes ==
  {"ok", "invalid_transform_config", "invalid_schema_config", "unsupported_drift_policy",
   "unsupported_override_type", "invalid_pinned_schema", "unknown_transform_field",
   "transform_name_collision", "unknown_override_field", "unknown_merge_key_field",
   "schema_override_conflict", "schema_drift"}

LEMMA EntryResult ==
  ASSUME NEW overrides, NEW k
  PROVE  /\ EntryCode(overrides, k) \in Codes
         /\ EntryCode(overrides, k) = "ok" =>
              /\ \A j \in 1 .. k - 1 : overrides[j].name # overrides[k].name
              /\ overrides[k].type.ok => KnownType(overrides[k].type.value)
<1> DEFINE entry == overrides[k]
           a == Code(\E j \in 1 .. k - 1 : overrides[j].name = entry.name,
                     "invalid_schema_config")
           b == Code(~entry.type.ok /\ ~entry.nullable.ok, "invalid_schema_config")
           c == Code(entry.type.ok /\ ~KnownType(entry.type.value),
                     "unsupported_override_type")
<1>1. /\ a \in Codes /\ b \in Codes /\ c \in Codes
      /\ a = "ok" => ~(\E j \in 1 .. k - 1 : overrides[j].name = entry.name)
      /\ c = "ok" => ~(entry.type.ok /\ ~KnownType(entry.type.value))
  BY DEF Code, Codes
<1>2. EntryCode(overrides, k) = FirstCode(<<a, b, c>>)
  BY DEF EntryCode
<1> HIDE DEF a, b, c
<1>3. <<a, b, c>> \in Seq(Codes) /\ "ok" \in Codes
  BY <1>1 DEF Codes
<1>4. /\ EntryCode(overrides, k) \in Codes
      /\ EntryCode(overrides, k) = "ok" =>
           \A n \in DOMAIN <<a, b, c>> : <<a, b, c>>[n] = "ok"
  BY <1>2, <1>3, FirstCodeResult
<1>5. (\A n \in DOMAIN <<a, b, c>> : <<a, b, c>>[n] = "ok") => a = "ok" /\ c = "ok"
  OBVIOUS
<1>. QED
  BY <1>1, <1>4, <1>5

\* A list of overrides that is accepted names each field once, and known types.
Overriding(overrides) ==
  /\ \A j, k \in DOMAIN overrides : overrides[j].name = overrides[k].name => j = k
  /\ \A k \in DOMAIN overrides :
       overrides[k].type.ok => KnownType(overrides[k].type.value)

LEMMA OverridesResult ==
  ASSUME NEW overrides, Listed(overrides)
  PROVE  /\ OverridesCode(overrides) \in Codes
         /\ OverridesCode(overrides) = "ok" => Overriding(overrides)
<1> DEFINE codes == [k \in DOMAIN overrides |-> EntryCode(overrides, k)]
           size == Len(overrides)
<1>1. size \in Nat /\ DOMAIN overrides = 1 .. size
  BY ListedIs
<1>2. \A k \in DOMAIN overrides :
        /\ codes[k] \in Codes
        /\ codes[k] = "ok" =>
             /\ \A j \in 1 .. k - 1 : overrides[j].name # overrides[k].name
             /\ overrides[k].type.ok => KnownType(overrides[k].type.value)
  BY EntryResult
<1>3. OverridesCode(overrides) = FirstCode(codes)
  BY DEF OverridesCode
<1>4. DOMAIN codes = 1 .. size /\ codes = [k \in 1 .. size |-> codes[k]]
  BY <1>1
<1> HIDE DEF codes, size
<1>5. codes \in Seq(Codes) /\ "ok" \in Codes
  BY <1>1, <1>2, <1>4 DEF Codes
<1>6. FirstCode(codes) \in Codes
  BY <1>5, FirstCodeResult
<1>7. ASSUME FirstCode(codes) = "ok" PROVE Overriding(overrides)
  <2>1. \A k \in 1 .. size : codes[k] = "ok"
    BY <1>4, <1>5, <1>7, FirstCodeResult
  <2>2. ASSUME NEW i \in 1 .. size, NEW j \in 1 .. size, i < j
        PROVE  overrides[i].name # overrides[j].name
    BY <1>1, <1>2, <2>1, <2>2
  <2>3. \A i, j \in 1 .. size : overrides[i].name = overrides[j].name => i = j
    BY <1>1, <2>2
  <2>. QED
    BY <1>1, <1>2, <2>1, <2>3 DEF Overriding
<1>. QED
  BY <1>3, <1>6, <1>7

LEMMA BlockResult ==
  ASSUME NEW block, Listed(OrEmpty(block.overrides))
  PROVE  /\ BlockCode(block) \in Codes
         /\ BlockCode(block) = "ok" => Overriding(OrEmpty(block.overrides))
<1> DEFINE a == Code(block.path = Blank \/ block.overrides = <<>>, "invalid_schema_config")
           b == Code(block.path = Unset /\ (block.policy # Unset \/ block.overrides = Unset),
                     "invalid_schema_config")
           c == Code(block.policy \notin {Unset, "fail", "allow_additive_nullable"},
                     "unsupported_drift_policy")
           e == OverridesCode(OrEmpty(block.overrides))
<1>1. /\ a \in Codes /\ b \in Codes /\ c \in Codes /\ e \in Codes
      /\ e = "ok" => Overriding(OrEmpty(block.overrides))
  BY OverridesResult DEF Code, Codes
<1>2. BlockCode(block) = FirstCode(<<a, b, c, e>>)
  BY DEF BlockCode
<1> HIDE DEF a, b, c, e
<1>3. <<a, b, c, e>> \in Seq(Codes) /\ "ok" \in Codes
  BY <1>1 DEF Codes
<1>4. /\ BlockCode(block) \in Codes
      /\ BlockCode(block) = "ok" =>
           \A k \in DOMAIN <<a, b, c, e>> : <<a, b, c, e>>[k] = "ok"
  BY <1>2, <1>3, FirstCodeResult
<1>5. (\A k \in DOMAIN <<a, b, c, e>> : <<a, b, c, e>>[k] = "ok") => e = "ok"
  OBVIOUS
<1>. QED
  BY <1>1, <1>4, <1>5

LEMMA SchemaResult ==
  ASSUME NEW transform, NEW block, NEW format,
         block # Unset => Listed(OrEmpty(block.overrides))
  PROVE  /\ SchemaCode(transform, block, format) \in Codes
         /\ SchemaCode(transform, block, format) = "ok" =>
              /\ transform # Unset => TransformValid(transform, format)
              /\ block # Unset => Overriding(OrEmpty(block.overrides))
<1> DEFINE a == Code(transform # Unset /\ ~TransformValid(transform, format),
                     "invalid_transform_config")
           b == IF block = Unset THEN "ok" ELSE BlockCode(block)
<1>1. /\ a \in Codes /\ b \in Codes
      /\ a = "ok" => (transform # Unset => TransformValid(transform, format))
      /\ b = "ok" => (block # Unset => Overriding(OrEmpty(block.overrides)))
  BY BlockResult DEF Code, Codes
<1>2. SchemaCode(transform, block, format) = FirstCode(<<a, b>>)
  BY DEF SchemaCode
<1> HIDE DEF a, b
<1>3. <<a, b>> \in Seq(Codes) /\ "ok" \in Codes
  BY <1>1 DEF Codes
<1>4. /\ SchemaCode(transform, block, format) \in Codes
      /\ SchemaCode(transform, block, format) = "ok" =>
           \A k \in DOMAIN <<a, b>> : <<a, b>>[k] = "ok"
  BY <1>2, <1>3, FirstCodeResult
<1>5. (\A k \in DOMAIN <<a, b>> : <<a, b>>[k] = "ok") => a = "ok" /\ b = "ok"
  OBVIOUS
<1>. QED
  BY <1>1, <1>4, <1>5

\* What a directive that resolves was checked for, and back.
LEMMA ConfigIs ==
  ASSUME Files
  PROVE  /\ ConfigCode \in Codes
         /\ ConfigCode = "ok" <=>
              /\ SchemaCode(def.transform, def.block, def.format) = "ok"
              /\ def.block # Unset /\ def.block.path # Unset /\ pin.ok => PinReads(pin.value)
<1> DEFINE a == SchemaCode(def.transform, def.block, def.format)
           b == Code(/\ def.block # Unset /\ def.block.path # Unset
                     /\ pin.ok /\ ~PinReads(pin.value), "invalid_pinned_schema")
<1>1. /\ a \in Codes /\ b \in Codes
      /\ b = "ok" <=> (def.block # Unset /\ def.block.path # Unset /\ pin.ok
                         => PinReads(pin.value))
  BY SchemaResult DEF Files, Code, Codes
<1>2. ConfigCode = FirstCode(<<a, b>>)
  BY DEF ConfigCode
<1> HIDE DEF a, b
<1>3. <<a, b>> \in Seq(Codes) /\ "ok" \in Codes
  BY <1>1 DEF Codes
<1>4. /\ ConfigCode \in Codes
      /\ ConfigCode = "ok" => \A k \in DOMAIN <<a, b>> : <<a, b>>[k] = "ok"
  BY <1>2, <1>3, FirstCodeResult
<1>5. (\A k \in DOMAIN <<a, b>> : <<a, b>>[k] = "ok") => a = "ok" /\ b = "ok"
  OBVIOUS
<1>6. ASSUME a = "ok", b = "ok" PROVE ConfigCode = "ok"
  <2>1. <<a, b>> \in Seq({"ok"})
    BY <1>6
  <2>2. \/ FirstCode(<<a, b>>) = "ok"
        \/ FirstCode(<<a, b>>) # "ok" /\ FirstCode(<<a, b>>) \in {"ok"}
    BY <2>1, FirstCodeResult, Zenon
  <2>. QED
    BY <1>2, <2>2
<1>. QED
  BY <1>1, <1>4, <1>5, <1>6 DEF a

LEMMA ConfigResult ==
  ASSUME Files
  PROVE  /\ ConfigCode \in Codes
         /\ ConfigCode = "ok" =>
              /\ Directed(Directive)
              /\ Csv => DOMAIN Outputs(Directive.transform) = {}
<1>1. ConfigCode \in Codes
  BY ConfigIs
<1>2. ASSUME ConfigCode = "ok"
      PROVE  Directed(Directive) /\ (Csv => DOMAIN Outputs(Directive.transform) = {})
  <2>1. /\ def.transform # Unset => TransformValid(def.transform, def.format)
        /\ def.block # Unset => Overriding(OrEmpty(def.block.overrides))
        /\ def.block # Unset /\ def.block.path # Unset /\ pin.ok => PinReads(pin.value)
    BY <1>2, ConfigIs, SchemaResult DEF Files
  <2>2. Listed(<<>>) /\ DOMAIN <<>> = {} /\ OrEmpty(Unset) = <<>>
    <3>1. <<>> \in Seq({}) /\ DOMAIN <<>> = {} /\ OrEmpty(Unset) = <<>>
      BY DEF OrEmpty
    <3>. QED
      BY <3>1, ListedIs
  <2>3. Sound(Directive.transform)
    <3>1. CASE def.transform = Unset
      BY <3>1, NoTransformSound DEF Directive
    <3>2. CASE def.transform # Unset
      <4>1. Sound(def.transform)
        BY <2>1, <3>2, ValidSound DEF Files
      <4>. QED
        BY <3>2, <4>1 DEF Directive
    <3>. QED
      BY <3>1, <3>2
  <2>4. Directive.overrides = IF def.block = Unset THEN <<>> ELSE OrEmpty(def.block.overrides)
    BY <2>2 DEF Directive
  <2>5. /\ Listed(Directive.overrides) /\ Overriding(Directive.overrides)
    <3>1. CASE def.block = Unset
      BY <2>2, <2>4, <3>1 DEF Overriding
    <3>2. CASE def.block # Unset
      BY <2>1, <2>4, <3>2 DEF Files
    <3>. QED
      BY <3>1, <3>2
  <2>6. \/ Directive.pin = <<>>
        \/ /\ Directive.pin = pin.value /\ Directive.mode = "pinned"
           /\ pin.ok /\ PinReads(pin.value)
    <3>1. CASE def.block = Unset \/ def.block.path = Unset \/ ~pin.ok
      BY <3>1 DEF Directive
    <3>2. CASE def.block # Unset /\ def.block.path # Unset /\ pin.ok
      BY <2>1, <3>2 DEF Directive
    <3>. QED
      BY <3>1, <3>2
  <2>7. /\ Listed(Directive.pin)
        /\ \A k \in DOMAIN Directive.pin : KnownType(Directive.pin[k].type)
        /\ Directive.pin # <<>> => Directive.mode = "pinned"
    <3>1. CASE Directive.pin = <<>>
      <4>1. DOMAIN Directive.pin = {}
        BY <2>2, <3>1
      <4>. QED
        BY <2>2, <3>1, <4>1
    <3>2. CASE /\ Directive.pin = pin.value /\ Directive.mode = "pinned"
               /\ pin.ok /\ PinReads(pin.value)
      BY <3>2 DEF Files, PinReads
    <3>. QED
      BY <2>6, <3>1, <3>2
  <2>8. ASSUME Csv PROVE DOMAIN Outputs(Directive.transform) = {}
    <3>1. Directive.transform.flatten = Unset
      BY <2>1, <2>8 DEF Directive, NoTransform, TransformValid, FlattenValid, Csv
    <3>. QED
      BY <2>2, <3>1 DEF Outputs
  <2>. QED
    BY <2>3, <2>5, <2>7, <2>8 DEF Directed, Overriding
<1>. QED
  BY <1>1, <1>2

\* What the verdict says of the shape, when it passes.
Agreed(dir, keys, fields) ==
  LET columns == ResolvedColumns(dir.transform, fields)
  IN /\ ~UnknownFields(dir.transform, fields) /\ ~Collides(dir.transform, fields)
     /\ NameSet(dir.overrides) \subseteq NameSet(columns)
     /\ Range(keys) \subseteq NameSet(columns)
     /\ NameSet(dir.pin) \subseteq NameSet(columns)

LEMMA VerdictResult ==
  ASSUME NEW dir, Directed(dir), NEW keys, NEW fields
  PROVE  /\ Verdict(dir, keys, fields) \in Codes
         /\ Verdict(dir, keys, fields) = "ok" => Agreed(dir, keys, fields)
<1> DEFINE columns == ResolvedColumns(dir.transform, fields)
           shape == TransformVerdict(dir.transform, fields)
           a == Code(~(NameSet(dir.overrides) \subseteq NameSet(columns)),
                     "unknown_override_field")
           b == Code(~(Range(keys) \subseteq NameSet(columns)), "unknown_merge_key_field")
           c == Code(Conflicts(dir), "schema_override_conflict")
           e == Code(/\ dir.mode = "pinned"
                     /\ ShapeDrifts(dir, columns) \/ Undeclared(dir), "schema_drift")
<1>1. /\ shape \in Codes
      /\ shape = "ok" => /\ ~UnknownFields(dir.transform, fields)
                         /\ ~Collides(dir.transform, fields)
  BY DEF TransformVerdict, Codes
<1>2. /\ a \in Codes /\ b \in Codes /\ c \in Codes /\ e \in Codes
      /\ a = "ok" => NameSet(dir.overrides) \subseteq NameSet(columns)
      /\ b = "ok" => Range(keys) \subseteq NameSet(columns)
      /\ e = "ok" => (dir.mode = "pinned" => ~ShapeDrifts(dir, columns))
  BY DEF Code, Codes
<1>3. Verdict(dir, keys, fields) = IF shape # "ok" THEN shape
                                   ELSE FirstCode(<<a, b, c, e>>)
  BY DEF Verdict
<1>4. ~ShapeDrifts(dir, columns) => NameSet(dir.pin) \subseteq NameSet(columns)
  BY DEF ShapeDrifts
<1>5. dir.mode # "pinned" => NameSet(dir.pin) = {}
  <2>1. DOMAIN <<>> = {}
    OBVIOUS
  <2>. QED
    BY <2>1 DEF Directed, NameSet
<1> HIDE DEF shape, a, b, c, e
<1>6. <<a, b, c, e>> \in Seq(Codes) /\ "ok" \in Codes
  BY <1>2 DEF Codes
<1>7. /\ FirstCode(<<a, b, c, e>>) \in Codes
      /\ FirstCode(<<a, b, c, e>>) = "ok" =>
           \A k \in DOMAIN <<a, b, c, e>> : <<a, b, c, e>>[k] = "ok"
  BY <1>6, FirstCodeResult
<1>8. (\A k \in DOMAIN <<a, b, c, e>> : <<a, b, c, e>>[k] = "ok")
        => a = "ok" /\ b = "ok" /\ e = "ok"
  OBVIOUS
<1>9. ASSUME Verdict(dir, keys, fields) = "ok" PROVE Agreed(dir, keys, fields)
  <2>1. shape = "ok" /\ a = "ok" /\ b = "ok" /\ e = "ok"
    BY <1>3, <1>7, <1>8, <1>9
  <2>2. NameSet(dir.pin) \subseteq NameSet(columns)
    BY <1>2, <1>4, <1>5, <2>1
  <2>. QED
    BY <1>1, <1>2, <2>1, <2>2 DEF Agreed
<1>. QED
  BY <1>1, <1>3, <1>7, <1>9

-----------------------------------------------------------------------------
(* The checks: those of the directive alone, and the resolved ones.        *)

LEMMA PickedRange ==
  ASSUME NEW list, Listed(list), NEW indices \in SUBSET DOMAIN list
  PROVE  Range(Picked(list, indices)) = { list[k] : k \in indices }
<1> DEFINE picked == Picked(list, indices)
<1>1. /\ \A n \in DOMAIN picked : \E k \in indices : picked[n] = list[k]
      /\ \A k \in indices : \E n \in DOMAIN picked : picked[n] = list[k]
  BY PickedIs
<1> HIDE DEF picked
<1>. QED
  BY <1>1 DEF Range, picked

LEMMA OutsideIs ==
  ASSUME NEW list, Listed(list), NEW dir
  PROVE  /\ Listed(Outside(list, dir))
         /\ Range(Outside(list, dir)) =
              { entry \in Range(list) : entry.name \notin NameSet(dir.pin) }
<1> DEFINE indices == { k \in DOMAIN list : list[k].name \notin NameSet(dir.pin) }
<1>1. Outside(list, dir) = Picked(list, indices)
  BY DEF Outside
<1>2. { list[k] : k \in indices } =
        { entry \in Range(list) : entry.name \notin NameSet(dir.pin) }
  BY DEF Range
<1>3. indices \in SUBSET DOMAIN list
  OBVIOUS
<1> HIDE DEF indices
<1>. QED
  BY <1>1, <1>2, <1>3, PickedIs, PickedRange

LEMMA MappedIs ==
  ASSUME NEW list, Listed(list), NEW f, DOMAIN f = DOMAIN list,
         f = [k \in DOMAIN list |-> f[k]]
  PROVE  Listed(f) /\ Range(f) = { f[k] : k \in DOMAIN list }
<1>1. Len(list) \in Nat /\ DOMAIN list = 1 .. Len(list)
  BY ListedIs
<1>2. Listed(f)
  BY <1>1, FunctionListed
<1>. QED
  BY <1>2 DEF Range

LEMMA ThreeLists ==
  ASSUME NEW a, NEW b, NEW c, Listed(a), Listed(b), Listed(c)
  PROVE  /\ Listed(a \o b \o c)
         /\ Range(a \o b \o c) = Range(a) \union Range(b) \union Range(c)
<1>1. Listed(a \o b) /\ Range(a \o b) = Range(a) \union Range(b)
  BY ConcatListed, Zenon
<1> DEFINE d == a \o b
<1> HIDE DEF d
<1>2. Listed(d) /\ Range(d) = Range(a) \union Range(b)
  BY <1>1 DEF d
<1>3. Listed(d \o c) /\ Range(d \o c) = Range(d) \union Range(c)
  BY <1>2, ConcatListed, Zenon
<1>. QED
  BY <1>2, <1>3, Zenon DEF d

LEMMA DirectiveChecksAre ==
  ASSUME NEW dir, Directed(dir), NEW keys, Listed(keys)
  PROVE  LET at(name) == Column(name, JsonSource(dir.transform, name), 0)
         IN /\ Listed(DirectiveChecks(dir, keys))
            /\ Range(DirectiveChecks(dir, keys)) =
                 { KeyCheck(at(keys[k])) : k \in DOMAIN keys }
                   \union { PinCheck(at(dir.pin[k].name), dir.pin[k]) : k \in DOMAIN dir.pin }
                   \union { OverrideCheck(at(entry.name), entry) :
                             entry \in { entry \in Range(dir.overrides) :
                                          entry.name \notin NameSet(dir.pin) } }
<1> DEFINE at(name) == Column(name, JsonSource(dir.transform, name), 0)
           outside == Outside(dir.overrides, dir)
           a == [k \in DOMAIN keys |-> KeyCheck(at(keys[k]))]
           b == [k \in DOMAIN dir.pin |-> PinCheck(at(dir.pin[k].name), dir.pin[k])]
           c == [k \in DOMAIN outside |-> OverrideCheck(at(outside[k].name), outside[k])]
           O == { entry \in Range(dir.overrides) : entry.name \notin NameSet(dir.pin) }
<1>1. DirectiveChecks(dir, keys) = a \o b \o c
  BY DEF DirectiveChecks
<1>2. Listed(outside) /\ Range(outside) = O
  BY OutsideIs DEF Directed
<1>3. Listed(a) /\ Range(a) = { KeyCheck(at(keys[k])) : k \in DOMAIN keys }
  <2>1. Listed(a) /\ Range(a) = { a[k] : k \in DOMAIN keys }
    <3>1. DOMAIN a = DOMAIN keys /\ a = [k \in DOMAIN keys |-> a[k]]
      OBVIOUS
    <3> HIDE DEF a
    <3>. QED
      BY <3>1, MappedIs
  <2>. QED
    BY <2>1
<1>4. /\ Listed(b)
      /\ Range(b) = { PinCheck(at(dir.pin[k].name), dir.pin[k]) : k \in DOMAIN dir.pin }
  <2>1. Listed(b) /\ Range(b) = { b[k] : k \in DOMAIN dir.pin }
    <3>1. DOMAIN b = DOMAIN dir.pin /\ b = [k \in DOMAIN dir.pin |-> b[k]]
      OBVIOUS
    <3> HIDE DEF b
    <3>. QED
      BY <3>1, MappedIs DEF Directed
  <2>. QED
    BY <2>1
<1>5. Listed(c) /\ Range(c) = { OverrideCheck(at(entry.name), entry) : entry \in O }
  <2> HIDE DEF outside, O
  <2>1. Listed(c) /\ Range(c) = { c[k] : k \in DOMAIN outside }
    <3>1. DOMAIN c = DOMAIN outside /\ c = [k \in DOMAIN outside |-> c[k]]
      OBVIOUS
    <3> HIDE DEF c
    <3>. QED
      BY <1>2, <3>1, MappedIs
  <2>2. { c[k] : k \in DOMAIN outside }
          = { OverrideCheck(at(entry.name), entry) : entry \in Range(outside) }
    BY DEF Range
  <2>. QED
    BY <1>2, <2>1, <2>2
<1> HIDE DEF a, b, c, O
<1>6. Listed(a \o b \o c) /\ Range(a \o b \o c) = Range(a) \union Range(b) \union Range(c)
  BY <1>3, <1>4, <1>5, ThreeLists
<1>. QED
  BY <1>1, <1>3, <1>4, <1>5, <1>6, Zenon DEF O

\* The columns whose name an override has and the pin has not.
Overridden(dir, columns) ==
  { c \in Range(columns) : /\ c.name \notin NameSet(dir.pin)
                           /\ c.name \in NameSet(dir.overrides) }

\* The resolved checks: the keys', then the pin's, then the overrides'.
Orders(dir, keys, columns, a, b, c) ==
  /\ ResolvedChecks(dir, keys, columns) = a \o b \o c
  /\ Listed(a) /\ Listed(b) /\ Listed(c)
  /\ a = [k \in DOMAIN keys |-> KeyCheck(ColumnOf(columns, keys[k]))]
  /\ Range(b) = { PinCheck(ColumnOf(columns, dir.pin[k].name), dir.pin[k]) :
                  k \in DOMAIN dir.pin }
  /\ Range(c) = { OverrideCheck(x, OverrideOf(dir, x.name)) :
                  x \in Overridden(dir, columns) }

LEMMA ResolvedLists ==
  ASSUME NEW dir, Directed(dir), NEW keys, Listed(keys), NEW columns, Listed(columns)
  PROVE  \E a, b, c : Orders(dir, keys, columns, a, b, c)
<1> DEFINE added == AddedColumns(dir, columns)
           indices == { k \in DOMAIN added : added[k].name \in NameSet(dir.overrides) }
           named == Picked(added, indices)
           a == [k \in DOMAIN keys |-> KeyCheck(ColumnOf(columns, keys[k]))]
           b == [k \in DOMAIN dir.pin |->
                   PinCheck(ColumnOf(columns, dir.pin[k].name), dir.pin[k])]
           c == [k \in DOMAIN named |->
                   OverrideCheck(named[k], OverrideOf(dir, named[k].name))]
<1>1. ResolvedChecks(dir, keys, columns) = a \o b \o c
  BY DEF ResolvedChecks, OverrideChecks
<1>2. /\ Listed(added)
      /\ Range(added) = { x \in Range(columns) : x.name \notin NameSet(dir.pin) }
  BY OutsideIs DEF AddedColumns
<1>3. Listed(named) /\ Range(named) = Overridden(dir, columns)
  <2>1. indices \in SUBSET DOMAIN added
    OBVIOUS
  <2> HIDE DEF added
  <2>2. { added[k] : k \in indices }
          = { x \in Range(added) : x.name \in NameSet(dir.overrides) }
    BY DEF Range
  <2> HIDE DEF indices
  <2>3. Listed(named) /\ Range(named) = { added[k] : k \in indices }
    BY <1>2, <2>1, PickedIs, PickedRange
  <2> HIDE DEF named
  <2>. QED
    BY <1>2, <2>2, <2>3 DEF Overridden
<1>4. Listed(a)
  <2>1. DOMAIN a = DOMAIN keys /\ a = [k \in DOMAIN keys |-> a[k]]
    OBVIOUS
  <2> HIDE DEF a
  <2>. QED
    BY <2>1, MappedIs
<1>5. /\ Listed(b)
      /\ Range(b) = { PinCheck(ColumnOf(columns, dir.pin[k].name), dir.pin[k]) :
                       k \in DOMAIN dir.pin }
  <2>1. Listed(b) /\ Range(b) = { b[k] : k \in DOMAIN dir.pin }
    <3>1. DOMAIN b = DOMAIN dir.pin /\ b = [k \in DOMAIN dir.pin |-> b[k]]
      OBVIOUS
    <3> HIDE DEF b
    <3>. QED
      BY <3>1, MappedIs DEF Directed
  <2>. QED
    BY <2>1
<1>6. /\ Listed(c)
      /\ Range(c) = { OverrideCheck(x, OverrideOf(dir, x.name)) :
                       x \in Overridden(dir, columns) }
  <2> HIDE DEF named
  <2>1. Listed(c) /\ Range(c) = { c[k] : k \in DOMAIN named }
    <3>1. DOMAIN c = DOMAIN named /\ c = [k \in DOMAIN named |-> c[k]]
      OBVIOUS
    <3> HIDE DEF c
    <3>. QED
      BY <1>3, <3>1, MappedIs
  <2>2. { c[k] : k \in DOMAIN named }
          = { OverrideCheck(x, OverrideOf(dir, x.name)) : x \in Range(named) }
    BY DEF Range
  <2>. QED
    BY <1>3, <2>1, <2>2
<1>7. a = [k \in DOMAIN keys |-> KeyCheck(ColumnOf(columns, keys[k]))]
  OBVIOUS
<1> HIDE DEF a, b, c
<1>. QED
  BY <1>1, <1>4, <1>5, <1>6, <1>7, Zenon DEF Orders

LEMMA ResolvedChecksAre ==
  ASSUME NEW dir, Directed(dir), NEW keys, Listed(keys), NEW columns, Listed(columns)
  PROVE  /\ Listed(ResolvedChecks(dir, keys, columns))
         /\ Range(ResolvedChecks(dir, keys, columns)) =
              { KeyCheck(ColumnOf(columns, keys[k])) : k \in DOMAIN keys }
                \union { PinCheck(ColumnOf(columns, dir.pin[k].name), dir.pin[k]) :
                          k \in DOMAIN dir.pin }
                \union { OverrideCheck(c, OverrideOf(dir, c.name)) :
                          c \in Overridden(dir, columns) }
<1>1. PICK a, b, c : Orders(dir, keys, columns, a, b, c)
  BY ResolvedLists
<1>2. Range(a) = { KeyCheck(ColumnOf(columns, keys[k])) : k \in DOMAIN keys }
  BY <1>1 DEF Orders, Range
<1>3. Listed(a \o b \o c) /\ Range(a \o b \o c) = Range(a) \union Range(b) \union Range(c)
  BY <1>1, ThreeLists DEF Orders
<1>. QED
  BY <1>1, <1>2, <1>3, Zenon DEF Orders

\* In that order, the keys come before what the schema requires.
LEMMA ChecksOrdered ==
  ASSUME NEW dir, Directed(dir), NEW keys, Listed(keys), NEW columns, Listed(columns)
  PROVE  LET checks == ResolvedChecks(dir, keys, columns)
         IN /\ Listed(checks) /\ Len(keys) \in Nat /\ DOMAIN keys = 1 .. Len(keys)
            /\ \A k \in DOMAIN keys : /\ k \in DOMAIN checks
                                      /\ checks[k] = KeyCheck(ColumnOf(columns, keys[k]))
            /\ \A k \in DOMAIN checks \ DOMAIN keys :
                 /\ k > Len(keys)
                 /\ \/ \E p \in DOMAIN dir.pin :
                         checks[k] = PinCheck(ColumnOf(columns, dir.pin[p].name), dir.pin[p])
                    \/ \E c \in Overridden(dir, columns) :
                         checks[k] = OverrideCheck(c, OverrideOf(dir, c.name))
<1> DEFINE checks == ResolvedChecks(dir, keys, columns)
           K(k) == KeyCheck(ColumnOf(columns, keys[k]))
           B == { PinCheck(ColumnOf(columns, dir.pin[k].name), dir.pin[k]) :
                   k \in DOMAIN dir.pin }
           C == { OverrideCheck(x, OverrideOf(dir, x.name)) : x \in Overridden(dir, columns) }
<1>0. PICK a, b, c : Orders(dir, keys, columns, a, b, c)
  BY ResolvedLists
<1>1. /\ checks = a \o b \o c /\ Listed(a) /\ Listed(b) /\ Listed(c)
      /\ a = [k \in DOMAIN keys |-> K(k)] /\ Range(b) = B /\ Range(c) = C
  BY <1>0 DEF Orders
<1>2. Len(keys) \in Nat /\ DOMAIN keys = 1 .. Len(keys)
  BY ListedIs
<1>3. Listed(checks)
  BY <1>1, ThreeLists
<1>4. \A x \in B : \E p \in DOMAIN dir.pin :
        x = PinCheck(ColumnOf(columns, dir.pin[p].name), dir.pin[p])
  OBVIOUS
<1>5. \A x \in C : \E y \in Overridden(dir, columns) : x = OverrideCheck(y, OverrideOf(dir, y.name))
  OBVIOUS
<1> HIDE DEF checks, K, B, C
<1>6. /\ Len(a) = Len(keys) /\ DOMAIN a = DOMAIN keys /\ \A k \in DOMAIN keys : a[k] = K(k)
      /\ Len(b) \in Nat /\ Len(c) \in Nat /\ DOMAIN b = 1 .. Len(b) /\ DOMAIN c = 1 .. Len(c)
  BY <1>1, <1>2, ListedIs
<1> DEFINE d == a \o b
<1>7. /\ Listed(d) /\ Len(d) = Len(keys) + Len(b)
      /\ \A k \in 1 .. Len(keys) : d[k] = a[k]
      /\ \A k \in 1 .. Len(b) : d[Len(keys) + k] = b[k]
  <2>1. /\ Listed(d) /\ Len(d) = Len(a) + Len(b)
        /\ \A k \in 1 .. Len(a) : d[k] = a[k]
        /\ \A k \in 1 .. Len(b) : d[Len(a) + k] = b[k]
    BY <1>1, ConcatListed
  <2> HIDE DEF d
  <2>. QED
    BY <1>6, <2>1
<1> HIDE DEF d
<1>8. /\ Len(checks) = Len(d) + Len(c) /\ DOMAIN checks = 1 .. Len(checks)
      /\ \A k \in 1 .. Len(d) : checks[k] = d[k]
      /\ \A k \in 1 .. Len(c) : checks[Len(d) + k] = c[k]
  <2>1. checks = d \o c
    BY <1>1 DEF d
  <2>2. /\ Len(d \o c) = Len(d) + Len(c)
        /\ \A k \in 1 .. Len(d) : (d \o c)[k] = d[k]
        /\ \A k \in 1 .. Len(c) : (d \o c)[Len(d) + k] = c[k]
    <3>1. Listed(d) /\ Listed(c)
      BY <1>1, <1>7
    <3>. QED
      BY <3>1, ConcatListed
  <2>3. DOMAIN checks = 1 .. Len(checks)
    BY <1>3, ListedIs
  <2>. QED
    BY <2>1, <2>2, <2>3
<1>9. ASSUME NEW k \in DOMAIN keys PROVE k \in DOMAIN checks /\ checks[k] = K(k)
  BY <1>2, <1>6, <1>7, <1>8
<1>10. ASSUME NEW k \in DOMAIN checks \ DOMAIN keys
       PROVE  k > Len(keys) /\ (checks[k] \in B \/ checks[k] \in C)
  <2>1. k \in Nat /\ k > Len(keys) /\ k <= Len(keys) + Len(b) + Len(c)
    BY <1>2, <1>6, <1>7, <1>8
  <2>2. CASE k <= Len(keys) + Len(b)
    <3>1. k - Len(keys) \in DOMAIN b /\ checks[k] = b[k - Len(keys)]
      <4>1. k - Len(keys) \in 1 .. Len(b) /\ Len(keys) + (k - Len(keys)) = k
        BY <1>2, <1>6, <1>7, <2>1, <2>2
      <4>2. d[k] = b[k - Len(keys)] /\ k \in 1 .. Len(d)
        BY <1>2, <1>6, <1>7, <2>1, <2>2, <4>1
      <4>. QED
        BY <1>6, <1>7, <1>8, <4>1, <4>2
    <3>. QED
      BY <1>1, <2>1, <3>1 DEF Range
  <2>3. CASE k > Len(keys) + Len(b)
    <3>1. k - Len(d) \in DOMAIN c /\ checks[k] = c[k - Len(d)]
      <4>1. Len(d) \in Nat /\ k - Len(d) \in 1 .. Len(c) /\ Len(d) + (k - Len(d)) = k
        BY <1>2, <1>6, <1>7, <2>1, <2>3
      <4>. QED
        BY <1>6, <1>7, <1>8, <4>1
    <3>. QED
      BY <1>1, <2>1, <3>1 DEF Range
  <2>. QED
    BY <1>2, <1>6, <1>7, <2>1, <2>2, <2>3
<1>. QED
  BY <1>2, <1>3, <1>4, <1>5, <1>9, <1>10 DEF checks, K

LEMMA ViolatesAnyIs ==
  ASSUME NEW record, NEW checks
  PROVE  ViolatesAny(record, checks) <=> \E check \in Range(checks) : Violates(record, check)
BY DEF ViolatesAny, Range

\* Checks that ask the same of the same place of a JSON record.
Alike(x, y) ==
  x.source = y.source /\ x.expected = y.expected /\ x.required = y.required

LEMMA AlikeViolate ==
  ASSUME ~Csv, NEW x, NEW y, Alike(x, y), NEW record
  PROVE  Violates(record, x) <=> Violates(record, y)
<1>1. ValueAt(record, x) = ValueAt(record, y)
  BY DEF ValueAt, Alike
<1>. QED
  BY <1>1 DEF Violates, Alike

\* directive_checks: whenever the verdict passes, what the directive alone says
\* of a JSON record is what the resolved checks say.
THEOREM JsonChecksAgree ==
  ASSUME NEW dir, Directed(dir), NEW keys, Listed(keys), NEW fields, Listed(fields),
         Verdict(dir, keys, fields) = "ok", ~Csv, NEW record
  PROVE  LET columns == ResolvedColumns(dir.transform, fields)
         IN ViolatesAny(record, DirectiveChecks(dir, keys))
              <=> ViolatesAny(record, ResolvedChecks(dir, keys, columns))
<1> DEFINE columns == ResolvedColumns(dir.transform, fields)
           at(name) == Column(name, JsonSource(dir.transform, name), 0)
           D == Range(DirectiveChecks(dir, keys))
           R == Range(ResolvedChecks(dir, keys, columns))
           O == { entry \in Range(dir.overrides) : entry.name \notin NameSet(dir.pin) }
<1>1. Agreed(dir, keys, fields)
  BY VerdictResult
<1>2. Listed(columns)
  BY <1>1, ColumnsAre DEF Agreed, Directed
<1>3. \A c \in Range(columns) : JsonSource(dir.transform, c.name) = c.source
  BY <1>1, NameResolves DEF Agreed, Directed, Range
<1>4. D = { KeyCheck(at(keys[k])) : k \in DOMAIN keys }
            \union { PinCheck(at(dir.pin[k].name), dir.pin[k]) : k \in DOMAIN dir.pin }
            \union { OverrideCheck(at(entry.name), entry) : entry \in O }
  BY DirectiveChecksAre
<1>5. R = { KeyCheck(ColumnOf(columns, keys[k])) : k \in DOMAIN keys }
            \union { PinCheck(ColumnOf(columns, dir.pin[k].name), dir.pin[k]) :
                      k \in DOMAIN dir.pin }
            \union { OverrideCheck(c, OverrideOf(dir, c.name)) :
                      c \in Overridden(dir, columns) }
  BY <1>2, ResolvedChecksAre
<1>6. ASSUME NEW name \in NameSet(columns)
      PROVE  /\ ColumnOf(columns, name).name = name
             /\ ColumnOf(columns, name).source = at(name).source
             /\ at(name).name = name
             /\ ColumnOf(columns, name) \in Range(columns)
  <2>1. ColumnOf(columns, name) \in Range(columns) /\ ColumnOf(columns, name).name = name
    BY <1>2, ColumnOfIs DEF Range
  <2>. QED
    BY <1>3, <2>1 DEF Column
<1>7. /\ \A k \in DOMAIN keys : keys[k] \in NameSet(columns)
      /\ \A k \in DOMAIN dir.pin : dir.pin[k].name \in NameSet(columns)
      /\ \A entry \in O : entry.name \in NameSet(columns)
  <2>1. \A k \in DOMAIN keys : keys[k] \in NameSet(columns)
    BY <1>1 DEF Agreed, Range
  <2>2. \A k \in DOMAIN dir.pin : dir.pin[k].name \in NameSet(columns)
    <3>1. \A k \in DOMAIN dir.pin : dir.pin[k].name \in NameSet(dir.pin)
      BY DEF NameSet
    <3>. QED
      BY <1>1, <3>1 DEF Agreed
  <2>3. \A entry \in O : entry.name \in NameSet(columns)
    <3>1. \A entry \in O : entry.name \in NameSet(dir.overrides)
      BY DEF NameSet, Range
    <3>. QED
      BY <1>1, <3>1 DEF Agreed
  <2>. QED
    BY <2>1, <2>2, <2>3
<1>8. \A x, y : x.source = y.source =>
        /\ Alike(KeyCheck(x), KeyCheck(y))
        /\ \A field : Alike(PinCheck(x, field), PinCheck(y, field))
        /\ \A entry : Alike(OverrideCheck(x, entry), OverrideCheck(y, entry))
  BY DEF Alike, KeyCheck, PinCheck, OverrideCheck, Check
<1>9. /\ \A entry \in O : OverrideOf(dir, entry.name) = entry
      /\ \A c \in Overridden(dir, columns) :
           OverrideOf(dir, c.name) \in O /\ OverrideOf(dir, c.name).name = c.name
  <2>1. Listed(dir.overrides)
    BY DEF Directed
  <2>2. ASSUME NEW name \in NameSet(dir.overrides)
        PROVE  \E k \in DOMAIN dir.overrides :
                 OverrideOf(dir, name) = dir.overrides[k] /\ dir.overrides[k].name = name
    BY <2>1, OverrideOfIs
  <2>3. ASSUME NEW entry \in O PROVE OverrideOf(dir, entry.name) = entry
    <3>1. PICK j \in DOMAIN dir.overrides : entry = dir.overrides[j]
      BY DEF Range
    <3>2. entry.name \in NameSet(dir.overrides)
      BY <3>1 DEF NameSet
    <3>3. PICK k \in DOMAIN dir.overrides :
            OverrideOf(dir, entry.name) = dir.overrides[k]
              /\ dir.overrides[k].name = entry.name
      BY <2>2, <3>2
    <3>. QED
      BY <3>1, <3>3 DEF Directed
  <2>4. ASSUME NEW c \in Overridden(dir, columns)
        PROVE  OverrideOf(dir, c.name) \in O /\ OverrideOf(dir, c.name).name = c.name
    BY <2>2 DEF Overridden, Range
  <2>. QED
    BY <2>3, <2>4
<1> HIDE DEF D, R, at, columns, O
<1>10. ASSUME NEW x \in D PROVE \E y \in R : Alike(x, y)
  <2>1. CASE \E k \in DOMAIN keys : x = KeyCheck(at(keys[k]))
    BY <1>5, <1>6, <1>7, <1>8, <2>1
  <2>2. CASE \E k \in DOMAIN dir.pin : x = PinCheck(at(dir.pin[k].name), dir.pin[k])
    <3>1. PICK k \in DOMAIN dir.pin : x = PinCheck(at(dir.pin[k].name), dir.pin[k])
      BY <2>2
    <3> DEFINE name == dir.pin[k].name
               c == ColumnOf(columns, name)
    <3>2. c.source = at(name).source
      BY <1>6, <1>7
    <3>3. PinCheck(c, dir.pin[k]) \in R
      BY <1>5
    <3>4. x = PinCheck(at(name), dir.pin[k])
      BY <3>1
    <3> HIDE DEF c, name
    <3>. QED
      BY <1>8, <3>2, <3>3, <3>4
  <2>3. CASE \E entry \in O : x = OverrideCheck(at(entry.name), entry)
    <3>1. PICK entry \in O : x = OverrideCheck(at(entry.name), entry)
      BY <2>3
    <3> DEFINE c == ColumnOf(columns, entry.name)
    <3>2. /\ c \in Range(columns) /\ c.name = entry.name
          /\ c.source = at(entry.name).source
      BY <1>6, <1>7
    <3> HIDE DEF c
    <3>3. c \in Overridden(dir, columns)
      BY <3>2 DEF Overridden, O, NameSet, Range
    <3>4. OverrideCheck(c, entry) \in R
      BY <1>5, <1>9, <3>2, <3>3
    <3>. QED
      BY <1>8, <3>1, <3>2, <3>4
  <2>. QED
    BY <1>4, <2>1, <2>2, <2>3
<1>11. ASSUME NEW y \in R PROVE \E x \in D : Alike(x, y)
  <2>1. CASE \E k \in DOMAIN keys : y = KeyCheck(ColumnOf(columns, keys[k]))
    BY <1>4, <1>6, <1>7, <1>8, <2>1
  <2>2. CASE \E k \in DOMAIN dir.pin :
               y = PinCheck(ColumnOf(columns, dir.pin[k].name), dir.pin[k])
    <3>1. PICK k \in DOMAIN dir.pin :
            y = PinCheck(ColumnOf(columns, dir.pin[k].name), dir.pin[k])
      BY <2>2
    <3> DEFINE name == dir.pin[k].name
               c == ColumnOf(columns, name)
    <3>2. at(name).source = c.source
      BY <1>6, <1>7
    <3>3. PinCheck(at(name), dir.pin[k]) \in D
      BY <1>4
    <3>4. y = PinCheck(c, dir.pin[k])
      BY <3>1
    <3> HIDE DEF c, name
    <3>. QED
      BY <1>8, <3>2, <3>3, <3>4
  <2>3. CASE \E c \in Overridden(dir, columns) : y = OverrideCheck(c, OverrideOf(dir, c.name))
    <3>1. PICK c \in Overridden(dir, columns) : y = OverrideCheck(c, OverrideOf(dir, c.name))
      BY <2>3
    <3> DEFINE entry == OverrideOf(dir, c.name)
    <3>2. entry \in O /\ entry.name = c.name
      BY <1>9
    <3> HIDE DEF entry
    <3>3. at(entry.name).source = c.source
      BY <1>3, <3>2 DEF at, Column, Overridden
    <3>4. OverrideCheck(at(entry.name), entry) \in D
      BY <1>4, <3>2
    <3>5. y = OverrideCheck(c, entry)
      BY <3>1 DEF entry
    <3>. QED
      BY <1>8, <3>3, <3>4, <3>5
  <2>. QED
    BY <1>5, <2>1, <2>2, <2>3
<1>12. (\E x \in D : Violates(record, x)) <=> (\E y \in R : Violates(record, y))
  <2>1. \A x \in D : \E y \in R : Violates(record, x) <=> Violates(record, y)
    BY <1>10, AlikeViolate
  <2>2. \A y \in R : \E x \in D : Violates(record, x) <=> Violates(record, y)
    BY <1>11, AlikeViolate
  <2>. QED
    BY <2>1, <2>2
<1>. QED
  BY <1>12, ViolatesAnyIs DEF D, R, columns

-----------------------------------------------------------------------------
(* The inductive invariant.                                                *)

Judgements == {"unjudged", "rejected", "survived"}
Seen == [fields : Seq(Observable), flatten : Seq(Observable)]

\* Under a directive: from Configure on, and after a verdict that passed.
Live == pc \in {"observe", "build"} \/ resolution.code = "ok"

Condemned(k) == ViolatesAny(Row(k), known.value)
FieldShown(k, i) == Infer(IF Csv THEN Row(k)[i] ELSE Get(Row(k), names[i]))
PathShown(k, j) == Infer(Walk(Row(k), directive.transform.flatten[j].path))

TypeOK ==
  /\ pc \in {"configure", "observe", "build", "over"}
  /\ Files
  /\ Listed(names) /\ judged \in Seq(Judgements) /\ seen \in Seen
  /\ Listed(rejections)

\* Nothing of a load is there before it begins.
FreshInv ==
  /\ pc = "configure" => names = <<>> /\ judged = <<>> /\ rejections = <<>>
  /\ pc \in {"configure", "observe"} => resolution = NotRun

\* What the directive is, and the checks pass 1 judges by.
KnownInv ==
  Live =>
    /\ Directed(directive)
    /\ Csv => /\ names = source.header /\ DOMAIN Outputs(directive.transform) = {}
              /\ known = When(Verdict(directive, def.keys, names) = "ok",
                              ResolvedChecks(directive, def.keys,
                                ResolvedColumns(directive.transform, names)))
    /\ ~Csv => known = Some(DirectiveChecks(directive, def.keys))

\* Every record read was judged by them, and its keys are in the union.
JudgedInv ==
  Live =>
    /\ Len(judged) <= Len(source.records)
    /\ \A k \in DOMAIN judged :
         judged[k] = IF ~known.ok THEN "unjudged"
                     ELSE IF Condemned(k) THEN "rejected" ELSE "survived"
    /\ ~Csv => \A k \in DOMAIN judged : \A n \in DOMAIN source.records[k] :
                source.records[k][n].key \in Range(names)

\* The observed types hold every survivor's values.
TypesInv ==
  Live =>
    /\ Len(seen.fields) = Len(names)
    /\ Len(seen.flatten) = Len(Outputs(directive.transform))
    /\ \A k \in DOMAIN judged : judged[k] = "survived" =>
         /\ \A i \in DOMAIN names :
              Merge(seen.fields[i], FieldShown(k, i)) = seen.fields[i]
         /\ \A j \in DOMAIN Outputs(directive.transform) :
              Merge(seen.flatten[j], PathShown(k, j)) = seen.flatten[j]

\* The rejections are of the records pass 1 rejected, one or more for each.
Marked ==
  /\ \A r \in DOMAIN rejections : /\ rejections[r].names.ok
                                  /\ rejections[r].record \in DOMAIN judged
                                  /\ judged[rejections[r].record] = "rejected"
  /\ \A k \in DOMAIN judged : judged[k] = "rejected" =>
       \E r \in DOMAIN rejections : rejections[r].record = k

RejectionsInv ==
  /\ pc = "observe" => IF Csv /\ known.ok THEN Marked ELSE rejections = <<>>
  /\ resolution.code = "ok" => Marked
  /\ pc = "over" /\ resolution.code \notin {"ok", "not resolved"} => rejections = <<>>

ResolvedInv ==
  /\ pc = "build" => resolution.code = "ok"
  /\ resolution.code = "ok" =>
       /\ pc \in {"build", "over"} /\ Len(judged) = Len(source.records)
       /\ resolution = ResolvePlan(directive, def.keys, names, seen.fields \o seen.flatten)

IInv ==
  /\ TypeOK /\ FreshInv /\ KnownInv /\ JudgedInv /\ TypesInv
  /\ RejectionsInv /\ ResolvedInv /\ SurvivorsBuild

LEMMA NotRunIs == NotRun.code = "not resolved"
BY DEF NotRun, Failed

LEMMA EmptyIs == Listed(<<>>) /\ DOMAIN <<>> = {} /\ Len(<<>>) = 0 /\ \A S : <<>> \in Seq(S)
<1>1. DOMAIN <<>> = {} /\ Len(<<>>) = 0 /\ \A S : <<>> \in Seq(S)
  OBVIOUS
<1>. QED
  BY <1>1, ListedIs

LEMMA InitIInv == Init => IInv
<1> SUFFICES ASSUME Init PROVE IInv
  OBVIOUS
<1>1. Files
  <2>1. /\ Listed(def.keys) /\ Listed(source.header) /\ Listed(source.records)
        /\ def.transform # Unset =>
             /\ ParsesAsMaps(def.transform)
             /\ Listed(OrEmpty(def.transform.flatten))
             /\ Listed(OrEmpty(def.transform.select))
             /\ Listed(OrEmpty(def.transform.rename))
        /\ pin.ok => Listed(pin.value)
    BY SchemaAssumption DEF Init
  <2>2. ASSUME def.block # Unset
        PROVE  /\ Listed(OrEmpty(def.block.overrides))
               /\ \A k \in DOMAIN OrEmpty(def.block.overrides) :
                    Flagged(OrEmpty(def.block.overrides)[k].nullable)
    BY <2>2, SchemaAssumption DEF Init, Flagged, OrEmpty
  <2>3. ASSUME ~Csv, NEW k \in DOMAIN source.records
        PROVE  Listed(source.records[k]) /\ IsInjective(KeysOf(source.records[k]))
    BY <2>3, SchemaAssumption DEF Init, Csv, KeysOf
  <2>. QED
    BY <2>1, <2>2, <2>3 DEF Files
<1>2. TypeOK
  <2>1. seen \in Seen
    BY EmptyIs DEF Init, NoTypes, Seen
  <2>. QED
    BY <1>1, <2>1, EmptyIs DEF Init, TypeOK
<1>3. ~Live /\ resolution.code = "not resolved"
  BY NotRunIs DEF Init, Live
<1>4. FreshInv
  BY DEF Init, FreshInv
<1>5. KnownInv /\ JudgedInv /\ TypesInv
  BY <1>3 DEF KnownInv, JudgedInv, TypesInv
<1>6. RejectionsInv
  BY <1>3 DEF Init, RejectionsInv
<1>7. ResolvedInv
  BY <1>3 DEF Init, ResolvedInv
<1>8. SurvivorsBuild
  BY DEF Init, SurvivorsBuild
<1>. QED
  BY <1>2, <1>4, <1>5, <1>6, <1>7, <1>8 DEF IInv

-----------------------------------------------------------------------------
(* What the invariant says of a load whose verdict passed.                 *)

LEMMA PlanIs ==
  ASSUME NEW dir, NEW keys, NEW fields, NEW types
  PROVE  LET plan == ResolvePlan(dir, keys, fields, types)
             columns == ResolvedColumns(dir.transform, fields)
         IN /\ plan.code = Verdict(dir, keys, fields)
            /\ plan.code = "ok" =>
                 /\ plan.columns = columns
                 /\ plan.checks = ResolvedChecks(dir, keys, columns)
                 /\ plan.fields = PlannedFields(dir, columns, types)
                 /\ plan.pinWrite.ok =>
                      plan.pinWrite.value = PinOf(PlannedFields(dir, columns, types))
<1> DEFINE columns == ResolvedColumns(dir.transform, fields)
           planned == PlannedFields(dir, columns, types)
           plan == ResolvePlan(dir, keys, fields, types)
           verdict == Verdict(dir, keys, fields)
           write == When(\/ dir.mode = "pin_inferred"
                         \/ dir.mode = "pinned" /\ AddedColumns(dir, columns) # <<>>,
                         PinOf(planned))
<1>1. plan = IF verdict # "ok" THEN Failed(verdict)
             ELSE [code |-> "ok", columns |-> columns,
                   checks |-> ResolvedChecks(dir, keys, columns),
                   fields |-> planned, pinWrite |-> write]
  BY DEF ResolvePlan
<1>2. Failed(verdict).code = verdict
  BY DEF Failed
<1>3. write.ok => write.value = PinOf(planned)
  BY DEF When, Some, None
<1> HIDE DEF columns, planned, verdict, write
<1>4. CASE verdict = "ok"
  BY <1>1, <1>3, <1>4 DEF columns, planned, verdict
<1>5. CASE verdict # "ok"
  BY <1>1, <1>2, <1>5 DEF verdict
<1>. QED
  BY <1>4, <1>5

\* The checks and columns of a verdict that passes are lists.
LEMMA VerdictLists ==
  ASSUME NEW dir, Directed(dir), NEW keys, Listed(keys), NEW fields, Listed(fields),
         Verdict(dir, keys, fields) = "ok"
  PROVE  LET columns == ResolvedColumns(dir.transform, fields)
         IN Listed(columns) /\ Listed(ResolvedChecks(dir, keys, columns))
<1>1. Agreed(dir, keys, fields)
  BY VerdictResult
<1>2. Listed(ResolvedColumns(dir.transform, fields))
  BY <1>1, ColumnsAre DEF Agreed, Directed
<1>. QED
  BY <1>2, ResolvedChecksAre

\* Pass 1 and pass 2 judge a record alike.
LEMMA JudgedAlike ==
  ASSUME TypeOK, KnownInv, Live, Verdict(directive, def.keys, names) = "ok", NEW record
  PROVE  LET columns == ResolvedColumns(directive.transform, names)
         IN /\ known.ok
            /\ ViolatesAny(record, known.value)
                 <=> ViolatesAny(record, ResolvedChecks(directive, def.keys, columns))
<1>1. /\ Directed(directive) /\ Listed(def.keys) /\ Listed(names)
      /\ \A x : Some(x).ok /\ Some(x).value = x
  BY DEF KnownInv, TypeOK, Files, Some
<1>2. CASE Csv
  BY <1>1, <1>2 DEF KnownInv, When
<1>3. CASE ~Csv
  BY <1>1, <1>3, JsonChecksAgree DEF KnownInv
<1>. QED
  BY <1>2, <1>3

LEMMA ResolvedNames == ASSUME TypeOK, KnownInv, ResolvedInv PROVE NamesResolve
<1> SUFFICES ASSUME Resolved, NEW i \in DOMAIN resolution.columns
             PROVE  LET column == resolution.columns[i]
                    IN /\ \A j \in DOMAIN resolution.columns :
                            /\ i # j /\ resolution.columns[j].name = column.name
                            => column.source = <<column.name>>
                       /\ ~Csv => JsonSource(directive.transform, column.name) = column.source
  BY DEF NamesResolve
<1>1. Directed(directive) /\ Listed(names)
  BY DEF Resolved, KnownInv, Live, TypeOK
<1>2. /\ Verdict(directive, def.keys, names) = "ok"
      /\ resolution.columns = ResolvedColumns(directive.transform, names)
  BY PlanIs DEF Resolved, ResolvedInv
<1>3. Agreed(directive, def.keys, names)
  BY <1>1, <1>2, VerdictResult
<1>4. JsonSource(directive.transform, resolution.columns[i].name)
        = resolution.columns[i].source
  BY <1>1, <1>2, <1>3, NameResolves DEF Agreed, Directed
<1>5. ASSUME NEW j \in DOMAIN resolution.columns, i # j,
             resolution.columns[j].name = resolution.columns[i].name
      PROVE  resolution.columns[i].source = <<resolution.columns[i].name>>
  BY <1>2, <1>3, <1>5 DEF Agreed, Collides, NameChanged
<1>. QED
  BY <1>4, <1>5

LEMMA PassesAgreed ==
  ASSUME TypeOK, KnownInv, JudgedInv, RejectionsInv, ResolvedInv
  PROVE  PassesAgree
<1>1. ASSUME Resolved, NEW k \in DOMAIN judged
      PROVE  /\ judged[k] # "unjudged"
             /\ (judged[k] = "rejected") = ViolatesAny(Row(k), resolution.checks)
             /\ (judged[k] = "rejected") =
                  (\E r \in DOMAIN rejections : /\ rejections[r].record = k
                                                /\ rejections[r].names.ok)
  <2>1. Live /\ resolution.code = "ok"
    BY <1>1 DEF Resolved, Live
  <2>2. /\ Verdict(directive, def.keys, names) = "ok"
        /\ resolution.checks = ResolvedChecks(directive, def.keys,
                                  ResolvedColumns(directive.transform, names))
    BY <2>1, PlanIs DEF ResolvedInv
  <2>3. known.ok /\ (Condemned(k) <=> ViolatesAny(Row(k), resolution.checks))
    BY <2>1, <2>2, JudgedAlike DEF Condemned
  <2>4. judged[k] = IF Condemned(k) THEN "rejected" ELSE "survived"
    BY <2>1, <2>3 DEF JudgedInv
  <2>5. judged[k] # "unjudged" /\ (judged[k] = "rejected" <=> Condemned(k))
    BY <2>4
  <2>6. judged[k] = "rejected" <=>
          (\E r \in DOMAIN rejections : /\ rejections[r].record = k
                                        /\ rejections[r].names.ok)
    BY <2>1 DEF RejectionsInv, Marked
  <2>7. ViolatesAny(Row(k), resolution.checks) \in BOOLEAN
    BY DEF ViolatesAny
  <2>8. (judged[k] = "rejected") = ViolatesAny(Row(k), resolution.checks)
    BY <2>3, <2>5, <2>7, Zenon
  <2>. QED
    BY <2>5, <2>6, <2>8
<1>2. pc = "over" /\ resolution.code \notin {"ok", "not resolved"} => rejections = <<>>
  BY DEF RejectionsInv
<1>. QED
  BY <1>1, <1>2 DEF PassesAgree

-----------------------------------------------------------------------------
(* What a step leaves as it was.                                           *)

LEMMA RowsStay ==
  ASSUME def' = def, source' = source, NEW k
  PROVE  /\ Row(k)' = Row(k) /\ Csv' = Csv
         /\ known' = known => (Condemned(k)' <=> Condemned(k))
         /\ \A i : names'[i] = names[i] => FieldShown(k, i)' = FieldShown(k, i)
         /\ directive' = directive => \A j : PathShown(k, j)' = PathShown(k, j)
<1>1. Row(k)' = Row(k) /\ Csv' = Csv
  BY DEF Row, Csv
<1>2. ASSUME known' = known PROVE Condemned(k)' <=> Condemned(k)
  BY <1>1, <1>2 DEF Condemned, ViolatesAny, Violates, ValueAt, Absent, Fits, Csv, Row
<1>3. ASSUME NEW i, names'[i] = names[i] PROVE FieldShown(k, i)' = FieldShown(k, i)
  BY <1>1, <1>3 DEF FieldShown, Infer, Absent, Csv, Row
<1>4. ASSUME directive' = directive, NEW j PROVE PathShown(k, j)' = PathShown(k, j)
  BY <1>1, <1>4 DEF PathShown, Infer, Absent, Csv, Row
<1>. QED
  BY <1>1, <1>2, <1>3, <1>4

LEMMA NullsAre ==
  ASSUME NEW list, Listed(list)
  PROVE  /\ Nulls(list) \in Seq(Observable) /\ Len(Nulls(list)) = Len(list)
         /\ \A k \in 1 .. Len(list) : Nulls(list)[k] = "null"
<1>1. Len(list) \in Nat /\ DOMAIN list = 1 .. Len(list)
  BY ListedIs
<1>2. Nulls(list) = [k \in 1 .. Len(list) |-> "null"] /\ "null" \in Observable
  BY <1>1 DEF Nulls, Observable
<1>. QED
  BY <1>1, <1>2

\* The key union keeps what it had and takes in the record's new keys.
LEMMA UnionIs ==
  ASSUME Listed(names), NEW record, Listed(record)
  PROVE  LET union == UnionNames(record)
         IN /\ Listed(union) /\ Len(names) <= Len(union)
            /\ \A i \in DOMAIN names : i \in DOMAIN union /\ union[i] = names[i]
            /\ \A i \in DOMAIN union \ DOMAIN names : union[i] \notin Range(names)
            /\ Range(names) \subseteq Range(union)
            /\ \A n \in DOMAIN record : record[n].key \in Range(union)
<1> DEFINE keys == [k \in DOMAIN record |-> record[k].key]
           new == {k \in DOMAIN keys : keys[k] \notin Range(names)}
           rest == Picked(keys, new)
           union == UnionNames(record)
<1>1. Listed(keys) /\ Range(keys) = {keys[k] : k \in DOMAIN record}
  <2> keys = [k \in DOMAIN record |-> keys[k]] /\ DOMAIN keys = DOMAIN record
    OBVIOUS
  <2> HIDE DEF keys
  <2>. QED
    BY MappedIs
<1>2. /\ \A n \in DOMAIN record : n \in DOMAIN keys /\ keys[n] = record[n].key
      /\ new \in SUBSET DOMAIN keys
  OBVIOUS
<1>3. \A n \in new : keys[n] \notin Range(names)
  OBVIOUS
<1>4. \A n \in DOMAIN keys \ new : keys[n] \in Range(names)
  OBVIOUS
<1>5. union = names \o rest
  BY DEF UnionNames
<1> HIDE DEF keys, new
<1>6. /\ Listed(rest)
      /\ \A n \in DOMAIN rest : \E k \in new : rest[n] = keys[k]
      /\ \A k \in new : \E n \in DOMAIN rest : rest[n] = keys[k]
  BY <1>1, <1>2, PickedIs
<1> HIDE DEF rest, union
<1>7. /\ Listed(union) /\ Len(union) = Len(names) + Len(rest)
      /\ \A k \in 1 .. Len(names) : union[k] = names[k]
      /\ \A k \in 1 .. Len(rest) : union[Len(names) + k] = rest[k]
      /\ Range(union) = Range(names) \union Range(rest)
  BY <1>5, <1>6, ConcatListed
<1>8. /\ Len(names) \in Nat /\ Len(rest) \in Nat /\ Len(union) \in Nat
      /\ DOMAIN names = 1 .. Len(names) /\ DOMAIN rest = 1 .. Len(rest)
      /\ DOMAIN union = 1 .. Len(union)
  BY <1>6, <1>7, ListedIs
<1>9. ASSUME NEW i \in DOMAIN union \ DOMAIN names PROVE union[i] \notin Range(names)
  <2>1. i - Len(names) \in 1 .. Len(rest) /\ union[i] = rest[i - Len(names)]
    BY <1>7, <1>8
  <2>. QED
    BY <1>3, <1>6, <1>8, <2>1
<1>10. ASSUME NEW n \in DOMAIN record PROVE record[n].key \in Range(union)
  <2>1. CASE n \in new
    <3>1. PICK m \in DOMAIN rest : rest[m] = keys[n]
      BY <1>6, <2>1
    <3>. QED
      BY <1>2, <1>7, <3>1 DEF Range
  <2>2. CASE n \notin new
    BY <1>2, <1>4, <1>7, <2>2
  <2>. QED
    BY <2>1, <2>2
<1>11. Listed(union) /\ Len(names) <= Len(union)
       /\ \A i \in DOMAIN names : i \in DOMAIN union /\ union[i] = names[i]
  BY <1>7, <1>8
<1>. QED
  BY <1>7, <1>9, <1>10, <1>11 DEF union

LEMMA ReverseIs ==
  ASSUME NEW list, Listed(list)
  PROVE  /\ Listed(Reverse(list))
         /\ \A k \in DOMAIN Reverse(list) : \E j \in DOMAIN list : Reverse(list)[k] = list[j]
<1>1. Len(list) \in Nat /\ DOMAIN list = 1 .. Len(list)
  BY ListedIs
<1>2. Reverse(list) = [k \in 1 .. Len(list) |-> list[(Len(list) - k) + 1]]
  BY DEF Reverse
<1>3. \A k \in 1 .. Len(list) : (Len(list) - k) + 1 \in 1 .. Len(list)
  BY <1>1
<1>4. /\ DOMAIN Reverse(list) = 1 .. Len(list)
      /\ Reverse(list) = [k \in 1 .. Len(list) |-> Reverse(list)[k]]
      /\ \A k \in 1 .. Len(list) : Reverse(list)[k] = list[(Len(list) - k) + 1]
  BY <1>2
<1>5. Listed(Reverse(list))
  BY <1>1, <1>4, FunctionListed
<1>. QED
  BY <1>1, <1>3, <1>4, <1>5

-----------------------------------------------------------------------------
(* Every step preserves the invariant.                                     *)

\* A load that is not under a directive has nothing to show for it.
LEMMA IdleIInv ==
  ASSUME TypeOK', FreshInv', ~Live', pc' # "observe", rejections' = <<>>, SurvivorsBuild'
  PROVE  IInv'
<1>1. KnownInv' /\ JudgedInv' /\ TypesInv'
  BY DEF KnownInv, JudgedInv, TypesInv
<1>2. RejectionsInv'
  BY DEF RejectionsInv, Live
<1>3. ResolvedInv'
  BY DEF ResolvedInv, Live
<1>. QED
  BY <1>1, <1>2, <1>3 DEF IInv

LEMMA ConfigureStep == ASSUME IInv, Configure PROVE IInv'
<1> USE DEF Configure
<1>1. /\ Files /\ names = <<>> /\ judged = <<>> /\ rejections = <<>> /\ resolution = NotRun
      /\ seen \in Seen
  BY DEF IInv, TypeOK, FreshInv
<1>2. Files'
  BY <1>1 DEF Files, Csv
<1>3. resolution' = NotRun /\ judged' = <<>> /\ rejections' = <<>> /\ Csv' = Csv
  BY <1>1 DEF Csv
<1>4. ConfigCode \in Codes /\ (ConfigCode = "ok" =>
         Directed(Directive) /\ (Csv => DOMAIN Outputs(Directive.transform) = {}))
  BY <1>1, ConfigResult
<1>5. CASE ConfigCode # "ok"
  <2>1. pc' = "over" /\ result' = ConfigCode /\ names' = names /\ seen' = seen
    BY <1>5 DEF Fails
  <2>2. TypeOK'
    BY <1>1, <1>2, <1>3, <2>1, EmptyIs DEF TypeOK
  <2>3. ~Live' /\ FreshInv'
    BY <1>3, <2>1, NotRunIs DEF Live, FreshInv
  <2>4. SurvivorsBuild'
    BY <1>4, <2>1 DEF SurvivorsBuild, Codes
  <2>. QED
    BY <1>3, <2>1, <2>2, <2>3, <2>4, IdleIInv
<1>6. CASE ConfigCode = "ok"
  <2> DEFINE out == Outputs(Directive.transform)
             probe == ResolvePlan(Directive, def.keys, source.header,
                                  Nulls(source.header \o out))
  <2>1. /\ pc' = "observe" /\ result' = result /\ directive' = Directive
        /\ names' = IF Csv THEN source.header ELSE <<>>
        /\ seen' = [fields |-> IF Csv THEN Nulls(source.header) ELSE <<>>,
                    flatten |-> Nulls(out)]
        /\ known' = IF Csv THEN When(probe.code = "ok", probe.checks)
                    ELSE Some(DirectiveChecks(Directive, def.keys))
    BY <1>6
  <2>2. Directed(Directive) /\ (Csv => DOMAIN out = {}) /\ Listed(out)
    BY <1>4, <1>6, TransformLists DEF Directed
  <2>3. Listed(source.header) /\ UNCHANGED <<def, source>>
    BY <1>1 DEF Files
  <2>4. /\ Nulls(source.header) \in Seq(Observable)
        /\ Len(Nulls(source.header)) = Len(source.header)
        /\ Nulls(out) \in Seq(Observable) /\ Len(Nulls(out)) = Len(out)
    BY <2>2, <2>3, NullsAre
  <2>5. /\ probe.code = Verdict(Directive, def.keys, source.header)
        /\ probe.code = "ok" => probe.checks = ResolvedChecks(Directive, def.keys,
                                  ResolvedColumns(Directive.transform, source.header))
    BY PlanIs
  <2> HIDE DEF probe
  <2>6. seen' \in Seen /\ Len(seen'.fields) = Len(names') /\ seen'.flatten = Nulls(out)
    BY <2>1, <2>4, EmptyIs DEF Seen
  <2>7. TypeOK'
    BY <1>2, <1>3, <2>1, <2>3, <2>6, EmptyIs DEF TypeOK
  <2>8. FreshInv' /\ SurvivorsBuild'
    BY <1>3, <2>1 DEF FreshInv, SurvivorsBuild, IInv
  <2>9. KnownInv'
    <3>1. CASE Csv
      <4>1. /\ names' = source.header
            /\ known' = When(Verdict(Directive, def.keys, source.header) = "ok",
                             ResolvedChecks(Directive, def.keys,
                               ResolvedColumns(Directive.transform, source.header)))
        BY <2>1, <2>5, <3>1 DEF When
      <4>. QED
        BY <1>3, <2>1, <2>2, <2>3, <3>1, <4>1 DEF KnownInv
    <3>2. CASE ~Csv
      <4>1. known' = Some(DirectiveChecks(Directive, def.keys))
        BY <2>1, <3>2
      <4>. QED
        BY <1>3, <2>1, <2>2, <2>3, <3>2, <4>1 DEF KnownInv
    <3>. QED
      BY <3>1, <3>2
  <2>10. JudgedInv'
    <3>1. Len(source.records) \in Nat
      BY <1>1, ListedIs DEF Files
    <3>. QED
      BY <1>3, <2>3, <3>1, EmptyIs DEF JudgedInv
  <2>11. TypesInv'
    BY <1>3, <2>1, <2>4, <2>6, EmptyIs DEF TypesInv
  <2>12. RejectionsInv'
    <3>1. resolution'.code = "not resolved"
      BY <1>3, NotRunIs
    <3>2. Marked'
      BY <1>3, EmptyIs DEF Marked
    <3>. QED
      BY <1>3, <2>1, <3>1, <3>2 DEF RejectionsInv
  <2>13. ResolvedInv'
    BY <1>3, <2>1, NotRunIs DEF ResolvedInv
  <2>. QED
    BY <2>7, <2>8, <2>9, <2>10, <2>11, <2>12, <2>13 DEF IInv
<1>. QED
  BY <1>5, <1>6

LEMMA RunAgainStep == ASSUME IInv, RunAgain PROVE IInv'
<1> USE DEF RunAgain
<1>1. Files /\ Listed(source.records)
  BY DEF IInv, TypeOK, Files
<1>2. /\ source'.header = source.header /\ Listed(source'.records)
      /\ \A k \in DOMAIN source'.records : \E j \in DOMAIN source.records :
           source'.records[k] = source.records[j]
  <2>1. PICK records \in {source.records, Reverse(source.records)} :
          source' = [header |-> source.header, records |-> records]
    OBVIOUS
  <2>2. source'.header = source.header /\ source'.records = records
    BY <2>1
  <2>3. CASE records = source.records
    BY <1>1, <2>2, <2>3
  <2>4. CASE records = Reverse(source.records)
    BY <1>1, <2>2, <2>4, ReverseIs
  <2>. QED
    BY <2>3, <2>4
<1>3. Files'
  BY <1>1, <1>2 DEF Files, Csv
<1>4. /\ pc' = "configure" /\ names' = <<>> /\ judged' = <<>> /\ rejections' = <<>>
      /\ seen' = NoTypes /\ resolution' = NotRun /\ result' = "running"
  OBVIOUS
<1>5. TypeOK'
  <2>1. seen' \in Seen
    BY <1>4, EmptyIs DEF NoTypes, Seen
  <2>. QED
    BY <1>3, <1>4, <2>1, EmptyIs DEF TypeOK
<1>6. ~Live' /\ FreshInv' /\ SurvivorsBuild'
  BY <1>4, NotRunIs DEF Live, FreshInv, SurvivorsBuild
<1>. QED
  BY <1>4, <1>5, <1>6, IdleIInv

\* What Observe reads, and the name it gives the record and the union.
LEMMA ObserveNames ==
  ASSUME IInv, Observe, NEW k, k = Len(judged) + 1
  PROVE  /\ k \in DOMAIN source.records /\ Listed(names) /\ Listed(names')
         /\ Csv => names' = names
         /\ ~Csv => \A n \in DOMAIN source.records[k] :
                      source.records[k][n].key \in Range(names')
         /\ Range(names) \subseteq Range(names')
         /\ \A i \in DOMAIN names : i \in DOMAIN names' /\ names'[i] = names[i]
         /\ \A i \in DOMAIN names' \ DOMAIN names : ~Csv /\ names'[i] \notin Range(names)
         /\ Len(names) <= Len(names')
<1> DEFINE record == source.records[k]
<1>1. Files /\ Listed(names) /\ judged \in Seq(Judgements)
  BY DEF IInv, TypeOK
<1>2. /\ Listed(source.records) /\ DOMAIN source.records = 1 .. Len(source.records)
      /\ Len(source.records) \in Nat /\ Len(judged) \in Nat
      /\ Len(names) \in Nat
  BY <1>1, ListedIs DEF Files
<1>3. k \in DOMAIN source.records /\ names' = IF Csv THEN names ELSE UnionNames(record)
  BY <1>2 DEF Observe
<1>4. CASE Csv
  <2>1. names' = names
    BY <1>3, <1>4
  <2>. QED
    BY <1>1, <1>2, <1>3, <1>4, <2>1
<1>5. CASE ~Csv
  <2>1. names' = UnionNames(record)
    BY <1>3, <1>5
  <2>2. Listed(record)
    BY <1>1, <1>3, <1>5 DEF Files
  <2> HIDE DEF record
  <2>4. /\ Listed(names') /\ Len(names) <= Len(names')
        /\ \A i \in DOMAIN names : i \in DOMAIN names' /\ names'[i] = names[i]
        /\ \A i \in DOMAIN names' \ DOMAIN names : names'[i] \notin Range(names)
        /\ Range(names) \subseteq Range(names')
        /\ \A n \in DOMAIN record : record[n].key \in Range(names')
    BY <1>1, <2>1, <2>2, UnionIs
  <2>. QED
    BY <1>1, <1>3, <1>5, <2>1, <2>4 DEF record
<1>. QED
  BY <1>4, <1>5

\* What Observe makes of the observed types.
LEMMA ObserveSeen ==
  ASSUME IInv, Observe, NEW k, k = Len(judged) + 1
  PROVE  LET survived == known.ok /\ ~Condemned(k)
             Old(i) == IF i \in DOMAIN names THEN seen.fields[i] ELSE "null"
         IN /\ seen' \in Seen /\ Len(seen'.fields) = Len(names')
            /\ Len(seen'.flatten) = Len(seen.flatten)
            /\ \A i \in DOMAIN names' :
                 seen'.fields[i] = IF survived THEN Merge(Old(i), FieldShown(k, i)')
                                               ELSE Old(i)
            /\ \A j \in DOMAIN Outputs(directive.transform) :
                 seen'.flatten[j] = IF survived THEN Merge(seen.flatten[j], PathShown(k, j))
                                                ELSE seen.flatten[j]
<1> DEFINE record == source.records[k]
           survived == known.ok /\ ~Condemned(k)
           outputs == Outputs(directive.transform)
           Old(i) == IF i \in DOMAIN names THEN seen.fields[i] ELSE "null"
           Shown(i) == Infer(IF Csv THEN record[i] ELSE Get(JsonObject(record), names'[i]))
<1>1. /\ k \in DOMAIN source.records /\ Listed(names) /\ Listed(names')
      /\ \A i \in DOMAIN names : i \in DOMAIN names' /\ names'[i] = names[i]
      /\ Len(names) <= Len(names')
  BY ObserveNames
<1>2. /\ seen.fields \in Seq(Observable) /\ seen.flatten \in Seq(Observable)
      /\ Len(seen.fields) = Len(names) /\ Len(seen.flatten) = Len(outputs)
      /\ Csv => DOMAIN outputs = {}
      /\ Listed(outputs) /\ seen = [fields |-> seen.fields, flatten |-> seen.flatten]
  <2>1. Live /\ seen \in Seen
    BY DEF IInv, TypeOK, Live, Observe
  <2>2. Sound(directive.transform)
    BY <2>1 DEF IInv, KnownInv, Directed
  <2>. QED
    BY <2>1, <2>2, TransformLists DEF IInv, KnownInv, TypesInv, Seen
<1>3. /\ DOMAIN names = 1 .. Len(names) /\ DOMAIN names' = 1 .. Len(names')
      /\ DOMAIN outputs = 1 .. Len(outputs) /\ Len(outputs) \in Nat
      /\ Len(names) \in Nat /\ Len(names') \in Nat
      /\ DOMAIN seen.fields = DOMAIN names /\ DOMAIN seen.flatten = DOMAIN outputs
  BY <1>1, <1>2, ListedIs
<1>4. names' = IF Csv THEN names ELSE UnionNames(record)
  BY DEF Observe
<1>5. seen' = IF survived THEN Observed(record, names')
              ELSE [seen EXCEPT !.fields =
                      @ \o Nulls(SubSeq(names', Len(@) + 1, Len(names')))]
  BY DEF Observe, Condemned
<1>6. /\ Row(k)' = Row(k) /\ Row(k) = IF Csv THEN record ELSE JsonObject(record)
      /\ Csv' = Csv
  BY DEF Row, Csv, Observe
<1>7. ASSUME NEW i PROVE FieldShown(k, i)' = Shown(i)
  <2>1. FieldShown(k, i)' = Infer(IF Csv THEN Row(k)[i] ELSE Get(Row(k), names'[i]))
    BY <1>6 DEF FieldShown, Infer, Absent, Csv
  <2>. QED
    BY <1>6, <2>1
<1>8. \A i \in DOMAIN names' : Old(i) \in Observable
  BY <1>2, <1>3 DEF Observable
<1> HIDE DEF Old, outputs, record
<1>9. CASE survived
  <2>1. /\ seen'.fields = [i \in 1 .. Len(names') |-> Merge(Old(i), Shown(i))]
        /\ seen'.flatten =
             [j \in 1 .. Len(outputs) |->
               Merge(seen.flatten[j],
                     Infer(Walk(JsonObject(record), directive.transform.flatten[j].path)))]
        /\ seen' = [fields |-> seen'.fields, flatten |-> seen'.flatten]
    <3>1. seen' = Observed(record, names')
      BY <1>5, <1>9
    <3>. QED
      BY <1>3, <3>1 DEF Observed, Old
  <2>2. \A i \in 1 .. Len(names') : seen'.fields[i] = Merge(Old(i), FieldShown(k, i)')
    <3> SUFFICES ASSUME NEW i \in 1 .. Len(names')
                 PROVE  seen'.fields[i] = Merge(Old(i), FieldShown(k, i)')
      OBVIOUS
    <3>1. FieldShown(k, i)' = Shown(i)
      BY <1>7
    <3> HIDE DEF Shown
    <3>. QED
      BY <2>1, <3>1
  <2>3. \A j \in 1 .. Len(outputs) : seen'.flatten[j] = Merge(seen.flatten[j], PathShown(k, j))
    <3> SUFFICES ASSUME NEW j \in 1 .. Len(outputs)
                 PROVE  seen'.flatten[j] = Merge(seen.flatten[j], PathShown(k, j))
      OBVIOUS
    <3>1. Row(k) = JsonObject(record)
      BY <1>2, <1>3, <1>6
    <3>2. PathShown(k, j) = Infer(Walk(JsonObject(record), directive.transform.flatten[j].path))
      BY <3>1 DEF PathShown
    <3>. QED
      BY <2>1, <3>2
  <2>4. \A i \in 1 .. Len(names') : Merge(Old(i), Shown(i)) \in Observable
    <3> SUFFICES ASSUME NEW i \in 1 .. Len(names')
                 PROVE  Merge(Old(i), Shown(i)) \in Observable
      OBVIOUS
    <3>1. Shown(i) \in Observable /\ Old(i) \in Observable
      BY <1>3, <1>8, InferIn
    <3> HIDE DEF Shown
    <3>. QED
      BY <3>1, MergeIsJoin
  <2>5. \A j \in 1 .. Len(outputs) : seen'.flatten[j] \in Observable
    <3> SUFFICES ASSUME NEW j \in 1 .. Len(outputs)
                 PROVE  seen'.flatten[j] \in Observable
      OBVIOUS
    <3>1. PathShown(k, j) \in Observable /\ seen.flatten[j] \in Observable
      BY <1>2, <1>3, InferIn DEF PathShown
    <3>. QED
      BY <2>3, <3>1, MergeIsJoin
  <2> HIDE DEF Shown
  <2>6. seen'.fields \in Seq(Observable) /\ Len(seen'.fields) = Len(names')
    <3> DEFINE F(i) == Merge(Old(i), Shown(i))
    <3>1. seen'.fields = [i \in 1 .. Len(names') |-> F(i)] /\ \A i \in 1 .. Len(names') : F(i) \in Observable
      BY <2>1, <2>4
    <3> HIDE DEF F
    <3>. QED
      BY <1>3, <3>1
  <2>7. seen'.flatten \in Seq(Observable) /\ Len(seen'.flatten) = Len(outputs)
    <3> DEFINE G(j) == Merge(seen.flatten[j],
                     Infer(Walk(JsonObject(record), directive.transform.flatten[j].path)))
    <3>1. seen'.flatten = [j \in 1 .. Len(outputs) |-> G(j)]
      BY <2>1
    <3> HIDE DEF G
    <3>. QED
      BY <1>3, <2>5, <3>1
  <2>8. seen' \in Seen
    BY <2>1, <2>6, <2>7 DEF Seen
  <2>. QED
    BY <1>2, <1>3, <1>9, <2>2, <2>3, <2>6, <2>7, <2>8 DEF outputs, Old
<1>10. CASE ~survived
  <2> DEFINE more == SubSeq(names', Len(seen.fields) + 1, Len(names'))
  <2>1. /\ seen'.fields = seen.fields \o Nulls(more)
        /\ seen'.flatten = seen.flatten
        /\ seen' = [fields |-> seen'.fields, flatten |-> seen'.flatten]
    BY <1>2, <1>5, <1>10
  <2>2. Len(more) = Len(names') - Len(names) /\ Listed(more)
    BY <1>1, <1>2, <1>3, TailListed
  <2> HIDE DEF more
  <2>3. /\ Nulls(more) \in Seq(Observable) /\ Len(Nulls(more)) = Len(names') - Len(names)
        /\ \A i \in 1 .. Len(names') - Len(names) : Nulls(more)[i] = "null"
    BY <2>2, NullsAre
  <2>4. /\ seen'.fields \in Seq(Observable)
        /\ Len(seen'.fields) = Len(names) + (Len(names') - Len(names))
        /\ \A i \in 1 .. Len(names) : seen'.fields[i] = seen.fields[i]
        /\ \A i \in Len(names) + 1 .. Len(names) + (Len(names') - Len(names)) :
             seen'.fields[i] = Nulls(more)[i - Len(names)]
    BY <1>2, <2>1, <2>3, PaddedIs
  <2>5. ASSUME NEW i \in 1 .. Len(names') PROVE seen'.fields[i] = Old(i)
    <3>1. CASE i <= Len(names)
      BY <1>3, <2>4, <3>1 DEF Old
    <3>2. CASE i > Len(names)
      <4>1. /\ i - Len(names) \in 1 .. Len(names') - Len(names)
            /\ i \in Len(names) + 1 .. Len(names) + (Len(names') - Len(names))
            /\ i \notin DOMAIN names
        BY <1>3, <3>2
      <4>. QED
        BY <2>3, <2>4, <4>1 DEF Old
    <3>. QED
      BY <1>3, <3>1, <3>2
  <2>6. seen' \in Seen
    BY <1>2, <2>1, <2>4 DEF Seen
  <2>7. Len(seen'.fields) = Len(names')
    BY <1>3, <2>4
  <2>. QED
    BY <1>3, <1>10, <2>1, <2>5, <2>6, <2>7 DEF outputs, Old
<1>. QED
  BY <1>9, <1>10

LEMMA ObserveStep == ASSUME IInv, Observe PROVE IInv'
<1>1. /\ Files /\ Listed(names) /\ judged \in Seq(Judgements) /\ Live /\ Listed(rejections)
      /\ resolution = NotRun /\ pc = "observe" /\ Directed(directive)
  BY DEF IInv, TypeOK, FreshInv, KnownInv, Live, Observe
<1>2. /\ UNCHANGED <<def, source, pin, pc, directive, known, resolution, result>>
      /\ Csv' = Csv
  BY DEF Observe, Csv
<1>3. PICK n : n = Len(judged) + 1
  OBVIOUS
<1>4. /\ n \in DOMAIN source.records /\ Listed(names')
      /\ Csv => names' = names
      /\ ~Csv => \A m \in DOMAIN source.records[n] : source.records[n][m].key \in Range(names')
      /\ Range(names) \subseteq Range(names')
      /\ \A i \in DOMAIN names : i \in DOMAIN names' /\ names'[i] = names[i]
      /\ \A i \in DOMAIN names' \ DOMAIN names : ~Csv /\ names'[i] \notin Range(names)
  BY <1>3, ObserveNames
<1> DEFINE verdict == IF ~known.ok THEN "unjudged"
                      ELSE IF Condemned(n) THEN "rejected" ELSE "survived"
<1>5. judged' = Append(judged, verdict) /\ verdict \in Judgements
  BY <1>3 DEF Observe, Condemned, Judgements
<1> HIDE DEF verdict
<1>6. /\ judged' \in Seq(Judgements) /\ Len(judged') = n /\ DOMAIN judged' = 1 .. n
      /\ \A m \in 1 .. n - 1 : judged'[m] = judged[m]
      /\ n \in DOMAIN judged' /\ judged'[n] = verdict /\ DOMAIN judged = 1 .. n - 1
      /\ n \in Nat /\ n <= Len(source.records)
  <2>1. DOMAIN source.records = 1 .. Len(source.records)
    BY <1>1, ListedIs DEF Files
  <2>. QED
    BY <1>1, <1>3, <1>4, <1>5, <2>1
<1>7. ASSUME NEW m PROVE /\ Row(m)' = Row(m) /\ (Condemned(m)' <=> Condemned(m))
                         /\ \A i : names'[i] = names[i] => FieldShown(m, i)' = FieldShown(m, i)
                         /\ \A j : PathShown(m, j)' = PathShown(m, j)
  BY <1>2, RowsStay
<1>8. Listed(known.value) \/ ~known.ok
  <2>1. \A x : Some(x).ok /\ Some(x).value = x /\ ~None.ok
    BY DEF Some, None
  <2>2. CASE Csv
    <3>1. CASE Verdict(directive, def.keys, names) = "ok"
      BY <1>1, <2>1, <2>2, <3>1, VerdictLists DEF IInv, KnownInv, When, Files
    <3>2. CASE Verdict(directive, def.keys, names) # "ok"
      BY <1>1, <2>1, <2>2, <3>2 DEF IInv, KnownInv, When
    <3>. QED
      BY <3>1, <3>2
  <2>3. CASE ~Csv
    BY <1>1, <2>1, <2>3, DirectiveChecksAre DEF IInv, KnownInv, Files
  <2>. QED
    BY <2>2, <2>3
<1>9. /\ rejections' = IF Csv /\ known.ok /\ Condemned(n)
                         THEN Append(rejections, [record |-> n,
                                      names |-> RejectionFor(Row(n), known.value)])
                         ELSE rejections
      /\ known.ok /\ Condemned(n) => RejectionFor(Row(n), known.value).ok
  BY <1>3, <1>8, RejectionForOk DEF Observe, Condemned
<1>10. Listed(rejections')
  <2>1. CASE Csv /\ known.ok /\ Condemned(n)
    <3> DEFINE r == [record |-> n, names |-> RejectionFor(Row(n), known.value)]
    <3>1. rejections \in Seq(Range(rejections) \union {r})
      <4>1. rejections \in Seq(Range(rejections))
        BY <1>1 DEF Listed
      <4> DEFINE R == Range(rejections)
      <4> HIDE DEF R, r
      <4>. QED
        BY <4>1 DEF R
    <3>2. rejections' \in Seq(Range(rejections) \union {r})
      <4>1. rejections' = Append(rejections, r)
        BY <1>9, <2>1
      <4> DEFINE R == Range(rejections)
      <4> HIDE DEF R, r
      <4>. QED
        BY <3>1, <4>1 DEF R
    <3>. QED
      BY <3>2, ListedIs
  <2>2. CASE ~(Csv /\ known.ok /\ Condemned(n))
    BY <1>1, <1>9, <2>2
  <2>. QED
    BY <2>1, <2>2
<1>11. TypeOK'
  <2>1. Files'
    BY <1>1, <1>2 DEF Files, Csv
  <2>2. seen' \in Seen
    BY <1>3, ObserveSeen
  <2>. QED
    BY <1>1, <1>2, <1>4, <1>6, <1>10, <2>1, <2>2 DEF TypeOK
<1>12. FreshInv' /\ SurvivorsBuild'
  BY <1>1, <1>2 DEF FreshInv, SurvivorsBuild, IInv
<1>13. KnownInv'
  BY <1>1, <1>2, <1>4 DEF IInv, KnownInv
<1>14. JudgedInv'
  <2>1. ASSUME NEW m \in DOMAIN judged'
        PROVE  judged'[m] = IF ~known.ok THEN "unjudged"
                            ELSE IF Condemned(m)' THEN "rejected" ELSE "survived"
    <3>1. CASE m = n
      BY <1>6, <1>7, <3>1 DEF verdict
    <3>2. CASE m # n
      <4>1. m \in 1 .. n - 1
        BY <1>6, <2>1, <3>2
      <4>. QED
        BY <1>1, <1>6, <1>7, <4>1 DEF IInv, JudgedInv
    <3>. QED
      BY <3>1, <3>2
  <2>2. ASSUME ~Csv, NEW m \in DOMAIN judged', NEW p \in DOMAIN source.records[m]
        PROVE  source.records[m][p].key \in Range(names')
    <3>1. CASE m = n
      BY <1>4, <2>2, <3>1
    <3>2. CASE m # n
      <4>1. m \in 1 .. n - 1
        BY <1>6, <2>2, <3>2
      <4>. QED
        BY <1>1, <1>4, <1>6, <2>2, <4>1 DEF IInv, JudgedInv
    <3>. QED
      BY <3>1, <3>2
  <2>. QED
    BY <1>2, <1>6, <2>1, <2>2 DEF JudgedInv
<1>15. TypesInv'
  <2> DEFINE survived == known.ok /\ ~Condemned(n)
             Old(i) == IF i \in DOMAIN names THEN seen.fields[i] ELSE "null"
             outputs == Outputs(directive.transform)
  <2>1. /\ seen' \in Seen /\ Len(seen'.fields) = Len(names')
        /\ Len(seen'.flatten) = Len(seen.flatten)
        /\ \A i \in DOMAIN names' :
             seen'.fields[i] = IF survived THEN Merge(Old(i), FieldShown(n, i)') ELSE Old(i)
        /\ \A j \in DOMAIN outputs :
             seen'.flatten[j] = IF survived THEN Merge(seen.flatten[j], PathShown(n, j))
                                            ELSE seen.flatten[j]
    BY <1>3, ObserveSeen
  <2>2. judged'[n] = "survived" <=> survived
    BY <1>6 DEF verdict
  <2>3. /\ seen \in Seen /\ Len(seen.fields) = Len(names) /\ Len(seen.flatten) = Len(outputs)
        /\ Listed(outputs) /\ DOMAIN outputs = 1 .. Len(outputs)
        /\ DOMAIN names = 1 .. Len(names)
    BY <1>1, TransformLists, ListedIs DEF IInv, TypeOK, TypesInv, Directed
  <2>4. /\ \A i : Old(i) \in Observable
        /\ \A j \in DOMAIN outputs : seen.flatten[j] \in Observable
        /\ \A m, i : FieldShown(m, i) \in Observable
        /\ \A m, j : PathShown(m, j) \in Observable
    <3>1. /\ seen.fields \in Seq(Observable) /\ seen.flatten \in Seq(Observable)
          /\ "null" \in Observable
      BY <2>3 DEF Seen, Observable
    <3>. QED
      BY <2>3, <3>1, InferIn DEF FieldShown, PathShown
  <2>5. \A i : FieldShown(n, i)' \in Observable
    <3> SUFFICES ASSUME NEW i PROVE FieldShown(n, i)' \in Observable
      OBVIOUS
    <3>1. FieldShown(n, i)' = Infer(IF Csv THEN Row(n)[i] ELSE Get(Row(n), names'[i]))
      BY <1>2, <1>7 DEF FieldShown, Infer, Absent, Csv
    <3>. QED
      BY <3>1, InferIn
  <2> HIDE DEF survived, Old, outputs
  <2>6. ASSUME NEW m \in DOMAIN judged', judged'[m] = "survived", NEW i \in DOMAIN names'
        PROVE  Merge(seen'.fields[i], FieldShown(m, i)') = seen'.fields[i]
    <3>1. CASE m = n
      <4>1. survived /\ seen'.fields[i] = Merge(Old(i), FieldShown(n, i)')
        BY <2>1, <2>2, <2>6, <3>1
      <4>. QED
        BY <2>4, <2>5, <3>1, <4>1, MergeHolds
    <3>2. CASE m # n
      <4>1. m \in 1 .. n - 1 /\ m \in DOMAIN judged /\ judged[m] = "survived"
        BY <1>6, <2>6, <3>2
      <4>2. Merge(Old(i), FieldShown(m, i)') = Old(i) /\ FieldShown(m, i)' \in Observable
        <5>1. CASE i \in DOMAIN names
          <6>1. FieldShown(m, i)' = FieldShown(m, i)
            BY <1>4, <1>7, <5>1
          <6>2. Merge(seen.fields[i], FieldShown(m, i)) = seen.fields[i]
            BY <1>1, <4>1, <5>1 DEF IInv, TypesInv
          <6>. QED
            BY <2>4, <5>1, <6>1, <6>2 DEF Old
        <5>2. CASE i \notin DOMAIN names
          <6>1. ~Csv /\ names'[i] \notin Range(names)
            BY <1>4, <2>6, <5>2
          <6>2. FieldShown(m, i)' = Infer(Get(Row(m), names'[i]))
            BY <1>2, <1>7, <6>1 DEF FieldShown, Infer, Absent, Csv
          <6>3. m \in DOMAIN source.records
            <7>1. Listed(source.records)
              BY <1>1 DEF Files
            <7>. QED
              BY <1>6, <4>1, <7>1, ListedIs
          <6>4. /\ Row(m) = JsonObject(source.records[m]) /\ Listed(source.records[m])
                /\ \A p \in DOMAIN source.records[m] : source.records[m][p].key # names'[i]
            BY <1>1, <4>1, <6>1, <6>3 DEF IInv, JudgedInv, Row, Files
          <6>5. Get(Row(m), names'[i]) = Missing
            BY <6>4, GetMissing
          <6>6. FieldShown(m, i)' = "null"
            BY <6>1, <6>2, <6>5 DEF Infer, Absent, Missing, IsNull
          <6>7. Old(i) = "null" /\ "null" \in Observable
            BY <5>2 DEF Old, Observable
          <6>. QED
            BY <6>6, <6>7, MergeIsJoin
        <5>. QED
          BY <5>1, <5>2
      <4>. QED
        BY <2>1, <2>4, <2>5, <4>2, MergeHolds
    <3>. QED
      BY <3>1, <3>2
  <2>7. ASSUME NEW m \in DOMAIN judged', judged'[m] = "survived", NEW j \in DOMAIN outputs
        PROVE  Merge(seen'.flatten[j], PathShown(m, j)') = seen'.flatten[j]
    <3>1. PathShown(m, j)' = PathShown(m, j)
      BY <1>7
    <3>2. CASE m = n
      <4>1. survived /\ seen'.flatten[j] = Merge(seen.flatten[j], PathShown(n, j))
        BY <2>1, <2>2, <2>7, <3>2
      <4>. QED
        BY <2>4, <3>1, <3>2, <4>1, MergeHolds
    <3>3. CASE m # n
      <4>1. m \in DOMAIN judged /\ judged[m] = "survived"
        BY <1>6, <2>7, <3>3
      <4>2. Merge(seen.flatten[j], PathShown(m, j)) = seen.flatten[j]
        BY <1>1, <4>1 DEF IInv, TypesInv, outputs
      <4>. QED
        BY <2>1, <2>4, <3>1, <4>2, MergeHolds
    <3>. QED
      BY <3>2, <3>3
  <2>. QED
    BY <1>2, <2>1, <2>3, <2>6, <2>7 DEF TypesInv, outputs
<1>16. RejectionsInv'
  <2>1. resolution'.code = "not resolved" /\ pc' = "observe"
    BY <1>1, <1>2, NotRunIs
  <2>2. CASE Csv /\ known.ok
    <3>1. Marked
      BY <1>1, <2>2 DEF IInv, RejectionsInv
    <3>2. judged'[n] = "rejected" <=> Condemned(n)
      BY <1>6, <2>2 DEF verdict
    <3>3. CASE Condemned(n)
      <4> DEFINE r == [record |-> n, names |-> RejectionFor(Row(n), known.value)]
                 L == Len(rejections)
      <4>1. /\ rejections' = Append(rejections, r) /\ r.record = n /\ r.names.ok
        BY <1>9, <2>2, <3>3
      <4> HIDE DEF r
      <4>2. /\ L \in Nat /\ DOMAIN rejections = 1 .. L
            /\ rejections \in Seq(Range(rejections))
        BY <1>1, ListedIs DEF Listed
      <4>3. /\ DOMAIN rejections' = 1 .. L + 1 /\ rejections'[L + 1] = r
            /\ \A i \in 1 .. L : rejections'[i] = rejections[i]
        <5> DEFINE R == Range(rejections)
        <5> HIDE DEF R
        <5>1. rejections \in Seq(R)
          BY <4>2 DEF R
        <5>. QED
          BY <4>1, <4>2, <5>1
      <4>4. ASSUME NEW i \in DOMAIN rejections'
            PROVE  /\ rejections'[i].names.ok /\ rejections'[i].record \in DOMAIN judged'
                   /\ judged'[rejections'[i].record] = "rejected"
        <5>1. CASE i = L + 1
          BY <1>6, <3>2, <3>3, <4>1, <4>3, <5>1
        <5>2. CASE i # L + 1
          <6>1. i \in DOMAIN rejections /\ rejections'[i] = rejections[i]
            BY <4>2, <4>3, <4>4, <5>2
          <6>2. /\ rejections[i].names.ok /\ rejections[i].record \in DOMAIN judged
                /\ judged[rejections[i].record] = "rejected"
            BY <3>1, <6>1 DEF Marked
          <6>. QED
            BY <1>6, <6>1, <6>2
        <5>. QED
          BY <5>1, <5>2
      <4>5. ASSUME NEW m \in DOMAIN judged', judged'[m] = "rejected"
            PROVE  \E i \in DOMAIN rejections' : rejections'[i].record = m
        <5>1. CASE m = n
          BY <4>1, <4>2, <4>3, <5>1
        <5>2. CASE m # n
          <6>1. m \in DOMAIN judged /\ judged[m] = "rejected"
            BY <1>6, <4>5, <5>2
          <6>2. PICK i \in DOMAIN rejections : rejections[i].record = m
            BY <3>1, <6>1 DEF Marked
          <6>3. i \in DOMAIN rejections' /\ rejections'[i] = rejections[i]
            BY <4>2, <4>3
          <6>. QED
            BY <6>2, <6>3
        <5>. QED
          BY <5>1, <5>2
      <4>6. Marked'
        BY <4>4, <4>5 DEF Marked
      <4>. QED
        BY <1>2, <2>1, <2>2, <4>6 DEF RejectionsInv
    <3>4. CASE ~Condemned(n)
      <4>1. rejections' = rejections
        BY <1>9, <3>4
      <4>2. \A m \in DOMAIN judged' : judged'[m] = "rejected" =>
              m \in DOMAIN judged /\ judged[m] = "rejected"
        BY <1>6, <3>2, <3>4
      <4>3. \A m \in DOMAIN judged : m \in DOMAIN judged' /\ judged'[m] = judged[m]
        BY <1>6
      <4>4. Marked'
        BY <3>1, <4>1, <4>2, <4>3 DEF Marked
      <4>. QED
        BY <1>2, <2>1, <2>2, <4>4 DEF RejectionsInv
    <3>. QED
      BY <3>3, <3>4
  <2>3. CASE ~(Csv /\ known.ok)
    <3>1. rejections' = <<>>
      BY <1>1, <1>9, <2>3 DEF IInv, RejectionsInv
    <3>. QED
      BY <1>2, <2>1, <2>3, <3>1 DEF RejectionsInv
  <2>. QED
    BY <2>2, <2>3
<1>17. ResolvedInv'
  BY <1>1, <1>2, NotRunIs DEF ResolvedInv
<1>. QED
  BY <1>11, <1>12, <1>13, <1>14, <1>15, <1>16, <1>17 DEF IInv

LEMMA FinishStep == ASSUME IInv, Finish PROVE IInv'
<1> DEFINE resolved == ResolvePlan(directive, def.keys, names, seen.fields \o seen.flatten)
           verdict == Verdict(directive, def.keys, names)
           columns == ResolvedColumns(directive.transform, names)
           numbers == [k \in DOMAIN judged |-> k]
           condemned == {k \in DOMAIN judged : judged[k] = "rejected"}
           spilled == Picked(numbers, condemned)
<1>1. /\ TypeOK /\ KnownInv /\ JudgedInv /\ TypesInv /\ RejectionsInv /\ Live
      /\ Files /\ judged \in Seq(Judgements) /\ Listed(names) /\ Directed(directive)
      /\ resolution = NotRun /\ pc = "observe" /\ SurvivorsBuild
  BY DEF IInv, TypeOK, FreshInv, KnownInv, Live, Finish
<1>2. /\ UNCHANGED <<def, source, pin, directive, names, seen, known, judged>>
      /\ Csv' = Csv /\ Len(judged) = Len(source.records)
  BY DEF Finish, Csv
<1>3. ASSUME NEW m PROVE /\ Row(m)' = Row(m) /\ (Condemned(m)' <=> Condemned(m))
                         /\ \A i : FieldShown(m, i)' = FieldShown(m, i)
                         /\ \A j : PathShown(m, j)' = PathShown(m, j)
  BY <1>2, RowsStay
<1>4. /\ resolved.code = verdict
      /\ verdict = "ok" => resolved.checks = ResolvedChecks(directive, def.keys, columns)
  BY PlanIs
<1>5. verdict \in Codes /\ (verdict = "ok" => known.ok)
  BY <1>1, VerdictResult, JudgedAlike
<1>6. \/ pc' = "over" /\ result' = "malformed_jsonl" /\ UNCHANGED <<resolution, rejections>>
      \/ /\ resolution' = resolved /\ verdict # "ok"
         /\ pc' = "over" /\ result' = verdict /\ rejections' = rejections
      \/ /\ resolution' = resolved /\ verdict = "ok"
         /\ pc' = "build" /\ result' = result
         /\ rejections' = IF Csv THEN rejections
              ELSE [j \in DOMAIN spilled |->
                     [record |-> spilled[j],
                      names |-> RejectionFor(Row(spilled[j]), resolved.checks)]]
  BY <1>4 DEF Finish, Fails
<1> HIDE DEF resolved, verdict, columns, numbers, condemned, spilled
<1>7. Files'
  BY <1>1, <1>2 DEF Files, Csv
<1>8. CASE pc' = "over" /\ result' = "malformed_jsonl" /\ UNCHANGED <<resolution, rejections>>
  <2>1. TypeOK'
    BY <1>1, <1>2, <1>7, <1>8 DEF TypeOK
  <2>2. /\ KnownInv' /\ JudgedInv' /\ TypesInv' /\ ResolvedInv'
    BY <1>1, <1>8, NotRunIs DEF Live, KnownInv, JudgedInv, TypesInv, ResolvedInv
  <2>3. FreshInv' /\ RejectionsInv' /\ SurvivorsBuild'
    BY <1>1, <1>8, NotRunIs DEF FreshInv, RejectionsInv, SurvivorsBuild
  <2>. QED
    BY <2>1, <2>2, <2>3 DEF IInv
<1>9. CASE /\ resolution' = resolved /\ verdict # "ok"
           /\ pc' = "over" /\ result' = verdict /\ rejections' = rejections
  <2>1. rejections = <<>>
    <3>1. CASE Csv
      <4>1. ~known.ok
        BY <1>1, <1>9, <3>1 DEF KnownInv, When, None, verdict
      <4>. QED
        BY <1>1, <4>1 DEF RejectionsInv
    <3>2. CASE ~Csv
      BY <1>1, <3>2 DEF RejectionsInv
    <3>. QED
      BY <3>1, <3>2
  <2>2. TypeOK'
    BY <1>1, <1>2, <1>7, <1>9 DEF TypeOK
  <2>3. ~Live' /\ FreshInv' /\ SurvivorsBuild'
    BY <1>4, <1>5, <1>9 DEF Live, FreshInv, SurvivorsBuild, Codes
  <2>. QED
    BY <1>9, <2>1, <2>2, <2>3, IdleIInv
<1>10. CASE /\ resolution' = resolved /\ verdict = "ok"
            /\ pc' = "build" /\ result' = result
            /\ rejections' = IF Csv THEN rejections
                 ELSE [j \in DOMAIN spilled |->
                        [record |-> spilled[j],
                         names |-> RejectionFor(Row(spilled[j]), resolved.checks)]]
  <2>1. known.ok /\ resolution'.code = "ok" /\ Live'
    BY <1>4, <1>5, <1>10 DEF Live
  <2>2. Listed(rejections') /\ Marked'
    <3>1. CASE Csv
      <4>1. Marked /\ rejections' = rejections
        BY <1>1, <1>10, <2>1, <3>1 DEF RejectionsInv
      <4>. QED
        BY <1>1, <1>2, <4>1 DEF Marked, TypeOK
    <3>2. CASE ~Csv
      <4>1. /\ Listed(numbers) /\ condemned \in SUBSET DOMAIN numbers
            /\ \A k \in DOMAIN judged : k \in DOMAIN numbers /\ numbers[k] = k
            /\ condemned \in SUBSET DOMAIN judged
        <5>1. DOMAIN judged = 1 .. Len(judged) /\ Len(judged) \in Nat
          BY <1>1
        <5>2. /\ DOMAIN numbers = 1 .. Len(judged)
              /\ numbers = [k \in 1 .. Len(judged) |-> numbers[k]]
          BY <5>1 DEF numbers
        <5>3. Listed(numbers)
          BY <5>1, <5>2, FunctionListed
        <5>. QED
          BY <5>3 DEF numbers, condemned
      <4>2. /\ Listed(spilled)
            /\ \A j \in DOMAIN spilled : \E k \in condemned : spilled[j] = numbers[k]
            /\ \A k \in condemned : \E j \in DOMAIN spilled : spilled[j] = numbers[k]
        BY <4>1, PickedIs DEF spilled
      <4>3. \A j \in DOMAIN spilled : spilled[j] \in condemned
        BY <4>1, <4>2
      <4>4. \A k \in condemned : \E j \in DOMAIN spilled : spilled[j] = k
        BY <4>1, <4>2
      <4> DEFINE T(j) == [record |-> spilled[j],
                          names |-> RejectionFor(Row(spilled[j]), resolved.checks)]
      <4>5. rejections' = [j \in DOMAIN spilled |-> T(j)]
        BY <1>10, <3>2
      <4>6. \A j : T(j).record = spilled[j]
                    /\ T(j).names = RejectionFor(Row(spilled[j]), resolved.checks)
        OBVIOUS
      <4> HIDE DEF T
      <4>7. Listed(rejections')
        <5>1. /\ DOMAIN rejections' = DOMAIN spilled
              /\ rejections' = [j \in DOMAIN spilled |-> rejections'[j]]
          BY <4>5
        <5>. QED
          BY <4>2, <5>1, MappedIs
      <4>8. Listed(resolved.checks)
        BY <1>1, <1>4, <1>10, VerdictLists DEF verdict, columns, Files
      <4>9. ASSUME NEW j \in DOMAIN spilled PROVE RejectionFor(Row(spilled[j]), resolved.checks).ok
        <5>1. spilled[j] \in DOMAIN judged /\ judged[spilled[j]] = "rejected"
          BY <4>3 DEF condemned
        <5>2. Condemned(spilled[j])
          <6>1. judged[spilled[j]] = IF ~known.ok THEN "unjudged"
                  ELSE IF Condemned(spilled[j]) THEN "rejected" ELSE "survived"
            BY <1>1, <5>1 DEF JudgedInv
          <6>. QED
            BY <5>1, <6>1
        <5>3. ViolatesAny(Row(spilled[j]), resolved.checks)
          BY <1>1, <1>4, <1>10, <5>2, JudgedAlike DEF Condemned, verdict, columns
        <5>. QED
          BY <4>8, <5>3, RejectionForOk
      <4>10. ASSUME NEW r \in DOMAIN rejections'
             PROVE  /\ rejections'[r].names.ok /\ rejections'[r].record \in DOMAIN judged
                    /\ judged[rejections'[r].record] = "rejected"
        <5>1. r \in DOMAIN spilled /\ rejections'[r] = T(r)
          BY <4>5, <4>10
        <5>. QED
          BY <4>3, <4>6, <4>9, <5>1 DEF condemned
      <4>11. ASSUME NEW k \in DOMAIN judged, judged[k] = "rejected"
             PROVE  \E r \in DOMAIN rejections' : rejections'[r].record = k
        <5>1. PICK j \in DOMAIN spilled : spilled[j] = k
          BY <4>4, <4>11 DEF condemned
        <5>2. j \in DOMAIN rejections' /\ rejections'[j].record = k
          BY <4>5, <4>6, <5>1
        <5>. QED
          BY <5>2
      <4>. QED
        BY <1>2, <4>7, <4>10, <4>11 DEF Marked
    <3>. QED
      BY <3>1, <3>2
  <2>3. TypeOK'
    BY <1>1, <1>2, <1>7, <1>10, <2>2 DEF TypeOK
  <2>4. FreshInv' /\ SurvivorsBuild'
    BY <1>1, <1>10 DEF FreshInv, SurvivorsBuild
  <2>5. KnownInv'
    BY <1>1, <1>2 DEF KnownInv
  <2>6. JudgedInv'
    <3>1. \A k \in DOMAIN judged :
            judged[k] = IF ~known.ok THEN "unjudged"
                        ELSE IF Condemned(k)' THEN "rejected" ELSE "survived"
      BY <1>1, <1>3 DEF JudgedInv
    <3>. QED
      BY <1>1, <1>2, <3>1 DEF JudgedInv
  <2>7. TypesInv'
    <3>1. \A k \in DOMAIN judged : judged[k] = "survived" =>
            /\ \A i \in DOMAIN names :
                 Merge(seen.fields[i], FieldShown(k, i)') = seen.fields[i]
            /\ \A j \in DOMAIN Outputs(directive.transform) :
                 Merge(seen.flatten[j], PathShown(k, j)') = seen.flatten[j]
      <4> SUFFICES ASSUME NEW k \in DOMAIN judged, judged[k] = "survived"
                   PROVE  /\ \A i \in DOMAIN names :
                               Merge(seen.fields[i], FieldShown(k, i)') = seen.fields[i]
                          /\ \A j \in DOMAIN Outputs(directive.transform) :
                               Merge(seen.flatten[j], PathShown(k, j)') = seen.flatten[j]
        OBVIOUS
      <4>1. /\ \A i \in DOMAIN names :
                 Merge(seen.fields[i], FieldShown(k, i)) = seen.fields[i]
            /\ \A j \in DOMAIN Outputs(directive.transform) :
                 Merge(seen.flatten[j], PathShown(k, j)) = seen.flatten[j]
        BY <1>1 DEF TypesInv
      <4>2. \A i : FieldShown(k, i)' = FieldShown(k, i)
        BY <1>3
      <4>3. \A j : PathShown(k, j)' = PathShown(k, j)
        BY <1>3
      <4>. QED
        BY <4>1, <4>2, <4>3
    <3>. QED
      BY <1>1, <1>2, <3>1 DEF TypesInv
  <2>8. RejectionsInv'
    BY <1>10, <2>1, <2>2 DEF RejectionsInv
  <2>9. ResolvedInv'
    BY <1>2, <1>10, <2>1 DEF ResolvedInv, resolved
  <2>. QED
    BY <2>3, <2>4, <2>5, <2>6, <2>7, <2>8, <2>9 DEF IInv
<1>. QED
  BY <1>6, <1>8, <1>9, <1>10

\* The plan's fields: the pin's, and one for each column the pin does not name.
LEMMA PlannedAre ==
  ASSUME NEW dir, Listed(dir.pin), NEW columns, Listed(columns), NEW types
  PROVE  /\ Listed(PlannedFields(dir, columns, types))
         /\ Listed(PinOf(PlannedFields(dir, columns, types)))
         /\ \A field \in Range(PlannedFields(dir, columns, types)) :
              \/ \E k \in DOMAIN dir.pin :
                   field = Field(ColumnOf(columns, dir.pin[k].name),
                                 dir.pin[k].type, dir.pin[k].nullable)
              \/ \E column \in Range(columns) :
                   /\ column.name \notin NameSet(dir.pin)
                   /\ field = InferredField(dir, column, types)
         /\ \A k \in DOMAIN dir.pin :
              Field(ColumnOf(columns, dir.pin[k].name), dir.pin[k].type, dir.pin[k].nullable)
                \in Range(PlannedFields(dir, columns, types))
         /\ \A column \in Range(columns) : column.name \notin NameSet(dir.pin) =>
              InferredField(dir, column, types) \in Range(PlannedFields(dir, columns, types))
<1> DEFINE added == AddedColumns(dir, columns)
           F(k) == Field(ColumnOf(columns, dir.pin[k].name), dir.pin[k].type,
                         dir.pin[k].nullable)
           G(k) == InferredField(dir, added[k], types)
           f == [k \in DOMAIN dir.pin |-> F(k)]
           g == [k \in DOMAIN added |-> G(k)]
           planned == PlannedFields(dir, columns, types)
<1>1. planned = f \o g
  BY DEF PlannedFields
<1>2. /\ Listed(added)
      /\ Range(added) = { entry \in Range(columns) : entry.name \notin NameSet(dir.pin) }
  BY OutsideIs DEF AddedColumns
<1>3. \A k \in DOMAIN added : /\ added[k] \in Range(columns)
                              /\ added[k].name \notin NameSet(dir.pin)
  <2>1. \A k \in DOMAIN added : added[k] \in Range(added)
    BY DEF Range
  <2> HIDE DEF added
  <2>. QED
    BY <1>2, <2>1
<1>3a. \A column \in Range(columns) : column.name \notin NameSet(dir.pin) =>
         \E k \in DOMAIN added : added[k] = column
  <2>1. \A x \in Range(added) : \E k \in DOMAIN added : added[k] = x
    BY DEF Range
  <2> HIDE DEF added
  <2>. QED
    BY <1>2, <2>1
<1>4. \A k : F(k) = Field(ColumnOf(columns, dir.pin[k].name), dir.pin[k].type,
                          dir.pin[k].nullable)
  OBVIOUS
<1>5. \A k : G(k) = InferredField(dir, added[k], types)
  OBVIOUS
<1> HIDE DEF added, F, G
<1>6. Listed(f) /\ Range(f) = { F(k) : k \in DOMAIN dir.pin }
  <2>1. DOMAIN f = DOMAIN dir.pin /\ f = [k \in DOMAIN dir.pin |-> f[k]]
        /\ \A k \in DOMAIN dir.pin : f[k] = F(k)
    OBVIOUS
  <2> HIDE DEF f
  <2>2. Listed(f) /\ Range(f) = { f[k] : k \in DOMAIN dir.pin }
    BY <2>1, MappedIs
  <2>. QED
    BY <2>1, <2>2
<1>7. Listed(g) /\ Range(g) = { G(k) : k \in DOMAIN added }
  <2>1. DOMAIN g = DOMAIN added /\ g = [k \in DOMAIN added |-> g[k]]
        /\ \A k \in DOMAIN added : g[k] = G(k)
    OBVIOUS
  <2> HIDE DEF g
  <2>2. Listed(g) /\ Range(g) = { g[k] : k \in DOMAIN added }
    BY <1>2, <2>1, MappedIs
  <2>. QED
    BY <2>1, <2>2
<1> HIDE DEF f, g, planned
<1>8. Listed(planned) /\ Range(planned) = Range(f) \union Range(g)
  BY <1>1, <1>6, <1>7, ConcatListed
<1>9. Listed(PinOf(planned))
  <2>1. /\ DOMAIN PinOf(planned) = DOMAIN planned
        /\ PinOf(planned) = [k \in DOMAIN planned |-> PinOf(planned)[k]]
    BY DEF PinOf
  <2>. QED
    BY <1>8, <2>1, MappedIs
<1>10. ASSUME NEW field \in Range(planned)
       PROVE  \/ \E k \in DOMAIN dir.pin :
                   field = Field(ColumnOf(columns, dir.pin[k].name),
                                 dir.pin[k].type, dir.pin[k].nullable)
              \/ \E column \in Range(columns) :
                   /\ column.name \notin NameSet(dir.pin)
                   /\ field = InferredField(dir, column, types)
  <2>1. CASE field \in Range(f)
    BY <1>4, <1>6, <2>1
  <2>2. CASE field \in Range(g)
    <3>1. PICK k \in DOMAIN added : field = G(k)
      BY <1>7, <2>2
    <3>. QED
      BY <1>3, <1>5, <3>1
  <2>. QED
    BY <1>8, <1>10, <2>1, <2>2
<1>11. /\ \A k \in DOMAIN dir.pin : F(k) \in Range(planned)
       /\ \A k \in DOMAIN added : G(k) \in Range(planned)
  BY <1>6, <1>7, <1>8
<1>12. \A column \in Range(columns) : column.name \notin NameSet(dir.pin) =>
         InferredField(dir, column, types) \in Range(planned)
  BY <1>5, <1>3a, <1>11
<1>. QED
  BY <1>4, <1>8, <1>9, <1>10, <1>11, <1>12 DEF planned

\* What reading the value at an address needs of the address.
LEMMA SameAddress ==
  ASSUME NEW x, NEW y, x.source = y.source, x.index = y.index, NEW record
  PROVE  ValueAt(record, x) = ValueAt(record, y)
BY DEF ValueAt

\* A value its check admits has a cell, and a null one stands where it may.
Stands(value, type, nullable) ==
  /\ Build(value, type).ok
  /\ ~nullable => Build(value, type) # Some(NullCell)

LEMMA FitStands ==
  ASSUME NEW value, NEW type, KnownType(type), NEW nullable,
         Absent(value) => nullable, ~Absent(value) => Fits(value, type)
  PROVE  Stands(value, type, nullable)
<1>1. CASE Absent(value)
  <2>1. Build(value, type) = Some(NullCell) /\ Some(NullCell).ok
    BY <1>1, FitBuilds DEF Some
  <2>. QED
    BY <1>1, <2>1 DEF Stands
<1>2. CASE ~Absent(value)
  BY <1>2, FitBuilds, BuiltIs, KindsKnown DEF Stands
<1>. QED
  BY <1>1, <1>2

\* A field admits a value: a null where it may, else one its type can hold.
Admits(field, record) ==
  LET value == ValueAt(record, field)
  IN /\ Absent(value) => field.nullable
     /\ ~Absent(value) => Fits(value, field.type)

\* What a field was observed to hold takes in the values the record has there.
Holds(types, column, record) ==
  /\ types[column.index] \in Observable
  /\ ~Absent(ValueAt(record, column)) =>
       Merge(types[column.index], Infer(ValueAt(record, column))) = types[column.index]

\* What the checks of the plan say of a record that meets them all: the pinned
\* fields, and the added ones an override speaks of, admit its values.
LEMMA PinnedAdmits ==
  ASSUME NEW dir, Directed(dir), NEW keys, Listed(keys), NEW columns, Listed(columns),
         NEW record, ~ViolatesAny(record, ResolvedChecks(dir, keys, columns)),
         NEW k \in DOMAIN dir.pin
  PROVE  Admits(Field(ColumnOf(columns, dir.pin[k].name), dir.pin[k].type,
                      dir.pin[k].nullable), record)
<1> DEFINE column == ColumnOf(columns, dir.pin[k].name)
           field == Field(column, dir.pin[k].type, dir.pin[k].nullable)
           check == PinCheck(column, dir.pin[k])
<1>1. check \in Range(ResolvedChecks(dir, keys, columns))
  BY ResolvedChecksAre
<1>2. ~Violates(record, check)
  BY <1>1, ViolatesAnyIs
<1>3. /\ check.source = column.source /\ check.index = column.index
      /\ check.expected = Some(dir.pin[k].type)
      /\ check.required = IF dir.pin[k].nullable THEN "no" ELSE "schema"
      /\ field.source = column.source /\ field.index = column.index
      /\ field.type = dir.pin[k].type /\ field.nullable = dir.pin[k].nullable
  BY DEF PinCheck, Check, Requires, Field
<1> HIDE DEF check, field
<1>4. ValueAt(record, check) = ValueAt(record, field)
  BY <1>3, SameAddress
<1>. QED
  BY <1>2, <1>3, <1>4 DEF Violates, Some, Admits, field

LEMMA AddedAdmits ==
  ASSUME NEW dir, Directed(dir), NEW keys, Listed(keys), NEW columns, Listed(columns),
         NEW record, ~ViolatesAny(record, ResolvedChecks(dir, keys, columns)),
         NEW column \in Range(columns), column.name \notin NameSet(dir.pin),
         NEW types, Holds(types, column, record)
  PROVE  Admits(InferredField(dir, column, types), record)
<1> DEFINE entry == OverrideOf(dir, column.name)
           field == InferredField(dir, column, types)
           check == OverrideCheck(column, entry)
           value == ValueAt(record, column)
           observed == types[column.index]
<1>1. /\ field.source = column.source /\ field.index = column.index
      /\ field.type = IF entry.type.ok THEN entry.type.value ELSE FieldType(observed)
      /\ field.nullable = (entry.nullable.ok => entry.nullable.value)
      /\ check.source = column.source /\ check.index = column.index
      /\ check.expected = entry.type
      /\ check.required = IF entry.nullable.ok => entry.nullable.value
                            THEN "no" ELSE "schema"
  BY DEF InferredField, Field, OverrideCheck, Check, Requires
<1>2. \/ /\ column.name \notin NameSet(dir.overrides)
         /\ entry = [name |-> column.name, type |-> None, nullable |-> None]
      \/ column.name \in NameSet(dir.overrides)
  BY OverrideOfIs DEF Directed
<1>3. column.name \in NameSet(dir.overrides) => ~Violates(record, check)
  <2> SUFFICES ASSUME column.name \in NameSet(dir.overrides) PROVE ~Violates(record, check)
    OBVIOUS
  <2>1. column \in Overridden(dir, columns)
    BY DEF Overridden
  <2>2. check \in Range(ResolvedChecks(dir, keys, columns))
    BY <2>1, ResolvedChecksAre
  <2>. QED
    BY <2>2, ViolatesAnyIs
<1>5. /\ observed \in Observable
      /\ ~Absent(value) => Merge(observed, Infer(value)) = observed
  BY DEF Holds
<1> HIDE DEF field, check, entry
<1>4. ValueAt(record, check) = value /\ ValueAt(record, field) = value
  BY <1>1, SameAddress
<1> HIDE DEF value, observed
<1>6. ~Absent(value) => Fits(value, FieldType(observed))
  <2> SUFFICES ASSUME ~Absent(value) PROVE Fits(value, FieldType(observed))
    OBVIOUS
  <2>1. Infer(value) \in Inferable
    BY InferIn
  <2>2. /\ HasLatticeType(FieldType(observed)) /\ Widens(Infer(value), FieldType(observed))
    BY <1>5, <2>1, HeldWidens
  <2>3. Infer(value) = IF Csv THEN InferText(value.value) ELSE InferJson(value)
    BY DEF Infer
  <2>. QED
    BY <2>2, <2>3 DEF Fits, TextFits, JsonFits, HasLatticeType, Inferable
<1>7. ~None.ok
  BY DEF None
<1>8. CASE column.name \notin NameSet(dir.overrides)
  <2>1. ~entry.type.ok /\ ~entry.nullable.ok
    BY <1>2, <1>7, <1>8
  <2>2. field.type = FieldType(observed) /\ field.nullable = TRUE
    BY <1>1, <2>1 DEF observed
  <2>. QED
    BY <1>4, <1>6, <2>2 DEF field, Admits
<1>9. CASE column.name \in NameSet(dir.overrides)
  <2>1. /\ Absent(value) => (entry.nullable.ok => entry.nullable.value)
        /\ ~Absent(value) /\ entry.type.ok => Fits(value, entry.type.value)
    BY <1>1, <1>3, <1>4, <1>9 DEF Violates
  <2>2. Absent(value) => field.nullable
    BY <1>1, <2>1
  <2>3. ~Absent(value) => Fits(value, field.type)
    BY <1>1, <1>6, <2>1 DEF observed
  <2>. QED
    BY <1>4, <2>2, <2>3 DEF field, Admits
<1>. QED
  BY <1>8, <1>9

LEMMA PinnedStand ==
  ASSUME NEW dir, Directed(dir), NEW keys, Listed(keys), NEW columns, Listed(columns),
         NEW record, ~ViolatesAny(record, ResolvedChecks(dir, keys, columns)),
         NEW k \in DOMAIN dir.pin
  PROVE  LET field == Field(ColumnOf(columns, dir.pin[k].name), dir.pin[k].type,
                            dir.pin[k].nullable)
         IN Stands(ValueAt(record, field), field.type, field.nullable)
<1> DEFINE field == Field(ColumnOf(columns, dir.pin[k].name), dir.pin[k].type,
                          dir.pin[k].nullable)
<1>1. Admits(field, record)
  BY PinnedAdmits
<1>2. KnownType(field.type)
  BY DEF Directed, Field
<1>. QED
  BY <1>1, <1>2, FitStands DEF Admits

LEMMA AddedStand ==
  ASSUME NEW dir, Directed(dir), NEW keys, Listed(keys), NEW columns, Listed(columns),
         NEW record, ~ViolatesAny(record, ResolvedChecks(dir, keys, columns)),
         NEW column \in Range(columns), column.name \notin NameSet(dir.pin),
         NEW types, Holds(types, column, record)
  PROVE  LET field == InferredField(dir, column, types)
         IN Stands(ValueAt(record, field), field.type, field.nullable)
<1> DEFINE entry == OverrideOf(dir, column.name)
           field == InferredField(dir, column, types)
<1>1. Admits(field, record)
  BY AddedAdmits
<1>2. field.type = IF entry.type.ok THEN entry.type.value ELSE FieldType(types[column.index])
  BY DEF InferredField, Field
<1>3. entry.type.ok => KnownType(entry.type.value)
  BY OverrideOfIs DEF Directed, None
<1>4. KnownType(FieldType(types[column.index]))
  BY FieldTypeKnown DEF Holds
<1> HIDE DEF entry, field
<1>5. KnownType(field.type)
  BY <1>2, <1>3, <1>4
<1>. QED
  BY <1>1, <1>5, FitStands DEF Admits, field

\* What a column's observed type was merged from: a field, or a flattened path.
LEMMA ColumnShows ==
  ASSUME Listed(names), Sound(directive.transform), seen \in Seen,
         ~UnknownFields(directive.transform, names),
         Csv => DOMAIN Outputs(directive.transform) = {},
         Len(seen.fields) = Len(names),
         Len(seen.flatten) = Len(Outputs(directive.transform)),
         NEW column \in Range(ResolvedColumns(directive.transform, names))
  PROVE  \/ \E i \in DOMAIN names :
              /\ (seen.fields \o seen.flatten)[column.index] = seen.fields[i]
              /\ i \in DOMAIN seen.fields
              /\ \A k : Infer(ValueAt(Row(k), column)) = FieldShown(k, i)
         \/ \E j \in DOMAIN Outputs(directive.transform) :
              /\ (seen.fields \o seen.flatten)[column.index] = seen.flatten[j]
              /\ j \in DOMAIN seen.flatten
              /\ \A k : Infer(ValueAt(Row(k), column)) = PathShown(k, j)
<1> DEFINE t == directive.transform
           columns == ResolvedColumns(t, names)
           outputs == Outputs(t)
           types == seen.fields \o seen.flatten
<1>1. /\ DOMAIN names = 1 .. Len(names) /\ Len(names) \in Nat
      /\ DOMAIN outputs = 1 .. Len(outputs) /\ Len(outputs) \in Nat
      /\ DOMAIN outputs = DOMAIN OrEmpty(t.flatten)
  BY TransformLists, ListedIs
<1>2. /\ Listed(seen.fields) /\ Listed(seen.flatten)
      /\ DOMAIN seen.fields = DOMAIN names /\ DOMAIN seen.flatten = DOMAIN outputs
  <2>1. seen.fields \in Seq(Observable) /\ seen.flatten \in Seq(Observable)
    BY DEF Seen
  <2>2. Listed(seen.fields) /\ Listed(seen.flatten)
    BY <2>1, ListedIs
  <2>. QED
    BY <1>1, <2>2, ListedIs
<1>3. /\ \A i \in DOMAIN names : types[i] = seen.fields[i]
      /\ \A j \in DOMAIN outputs : types[Len(names) + j] = seen.flatten[j]
  <2> DEFINE a == seen.fields
             b == seen.flatten
  <2> HIDE DEF a, b
  <2>1. /\ \A i \in 1 .. Len(a) : (a \o b)[i] = a[i]
        /\ \A j \in 1 .. Len(b) : (a \o b)[Len(a) + j] = b[j]
    <3>1. Listed(a) /\ Listed(b)
      BY <1>2 DEF a, b
    <3>2. \A i \in 1 .. Len(a) : (a \o b)[i] = a[i]
      BY <3>1, ConcatListed
    <3>3. \A j \in 1 .. Len(b) : (a \o b)[Len(a) + j] = b[j]
      BY <3>1, ConcatListed
    <3>. QED
      BY <3>2, <3>3
  <2>2. types = a \o b
    BY DEF a, b
  <2> HIDE DEF types, outputs
  <2>3. /\ \A i \in 1 .. Len(a) : types[i] = a[i]
        /\ \A j \in 1 .. Len(b) : types[Len(a) + j] = b[j]
    BY <2>1, <2>2, Zenon
  <2>4. Len(seen.flatten) = Len(outputs)
    BY DEF outputs
  <2>. QED
    BY <1>1, <2>3, <2>4 DEF a, b
<1>4. PICK n \in DOMAIN columns : columns[n] = column
  BY DEF Range
<1>5. \/ \E k \in DOMAIN outputs : column = FlattenColumn(t, names, k)
      \/ \E k \in DOMAIN names : column = FieldColumn(t, names, k)
  BY <1>4, ColumnsAre
<1> HIDE DEF columns, outputs, types
<1>6. ASSUME NEW j \in DOMAIN outputs, column = FlattenColumn(t, names, j)
      PROVE  /\ types[column.index] = seen.flatten[j]
             /\ \A k : Infer(ValueAt(Row(k), column)) = PathShown(k, j)
  <2>1. column.index = Len(names) + j /\ column.source = t.flatten[j].path
    BY <1>6 DEF FlattenColumn, Column
  <2>2. ~Csv /\ Len(t.flatten[j].path) >= 2
    BY <1>1, <1>6 DEF Sound, outputs
  <2>3. ~(Len(column.source) = 1)
    <3> SUFFICES ASSUME Len(t.flatten[j].path) = 1 PROVE FALSE
      BY <2>1
    <3>. QED
      BY <2>2
  <2>. QED
    BY <1>3, <1>6, <2>1, <2>2, <2>3 DEF ValueAt, PathShown
<1>7. ASSUME NEW i \in DOMAIN names, column = FieldColumn(t, names, i)
      PROVE  /\ types[column.index] = seen.fields[i]
             /\ \A k : Infer(ValueAt(Row(k), column)) = FieldShown(k, i)
  <2>1. /\ column.index = i /\ column.source = <<names[i]>>
        /\ Len(<<names[i]>>) = 1 /\ <<names[i]>>[1] = names[i]
    BY <1>7 DEF FieldColumn, Column
  <2>. QED
    BY <1>3, <1>7, <2>1 DEF ValueAt, FieldShown
<1>. QED
  BY <1>2, <1>5, <1>6, <1>7 DEF types, outputs

\* Every field of a resolved plan takes the value of every record pass 2 keeps.
LEMMA SurvivorStands ==
  ASSUME IInv, pc = "build", NEW q \in DOMAIN source.records,
         ~ViolatesAny(Row(q), resolution.checks),
         NEW field \in Range(resolution.fields)
  PROVE  Stands(ValueAt(Row(q), field), field.type, field.nullable)
<1> DEFINE t == directive.transform
           columns == ResolvedColumns(t, names)
           outputs == Outputs(t)
           types == seen.fields \o seen.flatten
<1>1. /\ Live /\ Directed(directive) /\ Listed(names) /\ Listed(def.keys) /\ Files
      /\ resolution = ResolvePlan(directive, def.keys, names, types)
      /\ resolution.code = "ok" /\ Len(judged) = Len(source.records)
      /\ Csv => DOMAIN outputs = {}
      /\ judged \in Seq(Judgements) /\ seen \in Seen
  BY DEF IInv, TypeOK, KnownInv, ResolvedInv, Live, Files
<1>2. /\ Verdict(directive, def.keys, names) = "ok"
      /\ resolution.checks = ResolvedChecks(directive, def.keys, columns)
      /\ resolution.fields = PlannedFields(directive, columns, types)
  BY <1>1, PlanIs
<1>3. Listed(columns)
  BY <1>1, <1>2, VerdictLists
<1>4. ~UnknownFields(t, names) /\ Sound(t)
  BY <1>1, <1>2, VerdictResult DEF Agreed, Directed
<1>5. judged[q] = "survived"
  <2>1. q \in DOMAIN judged
    <3>1. DOMAIN source.records = 1 .. Len(source.records)
      BY <1>1, ListedIs DEF Files
    <3>. QED
      BY <1>1, <3>1
  <2>2. known.ok /\ ~Condemned(q)
    BY <1>1, <1>2, JudgedAlike DEF Condemned, IInv
  <2>. QED
    BY <1>1, <2>1, <2>2 DEF IInv, JudgedInv
<1>6. /\ \A i \in DOMAIN names :
           Merge(seen.fields[i], FieldShown(q, i)) = seen.fields[i]
      /\ \A j \in DOMAIN outputs :
           Merge(seen.flatten[j], PathShown(q, j)) = seen.flatten[j]
      /\ Len(seen.fields) = Len(names) /\ Len(seen.flatten) = Len(outputs)
  <2>1. q \in DOMAIN judged
    <3>1. DOMAIN source.records = 1 .. Len(source.records)
      BY <1>1, ListedIs DEF Files
    <3>. QED
      BY <1>1, <3>1
  <2>. QED
    BY <1>1, <1>5, <2>1 DEF IInv, TypesInv
<1>7. ASSUME NEW column \in Range(columns) PROVE Holds(types, column, Row(q))
  <2>1. seen.fields \in Seq(Observable) /\ seen.flatten \in Seq(Observable)
    BY <1>1 DEF Seen
  <2>2. \/ \E i \in DOMAIN names :
             /\ types[column.index] = seen.fields[i] /\ i \in DOMAIN seen.fields
             /\ \A k : Infer(ValueAt(Row(k), column)) = FieldShown(k, i)
        \/ \E j \in DOMAIN outputs :
             /\ types[column.index] = seen.flatten[j] /\ j \in DOMAIN seen.flatten
             /\ \A k : Infer(ValueAt(Row(k), column)) = PathShown(k, j)
    BY <1>1, <1>4, <1>6, ColumnShows
  <2> HIDE DEF types, columns, outputs
  <2>3. ASSUME NEW i \in DOMAIN names, i \in DOMAIN seen.fields,
               types[column.index] = seen.fields[i],
               \A k : Infer(ValueAt(Row(k), column)) = FieldShown(k, i)
        PROVE  Holds(types, column, Row(q))
    BY <1>6, <2>1, <2>3 DEF Holds
  <2>4. ASSUME NEW j \in DOMAIN outputs, j \in DOMAIN seen.flatten,
               types[column.index] = seen.flatten[j],
               \A k : Infer(ValueAt(Row(k), column)) = PathShown(k, j)
        PROVE  Holds(types, column, Row(q))
    BY <1>6, <2>1, <2>4 DEF Holds
  <2>. QED
    BY <2>2, <2>3, <2>4
<1> HIDE DEF t, columns, outputs, types
<1>10. \/ \E k \in DOMAIN directive.pin :
            field = Field(ColumnOf(columns, directive.pin[k].name),
                          directive.pin[k].type, directive.pin[k].nullable)
       \/ \E column \in Range(columns) :
            /\ column.name \notin NameSet(directive.pin)
            /\ field = InferredField(directive, column, types)
  BY <1>1, <1>2, <1>3, PlannedAre DEF Directed
<1>11. ~ViolatesAny(Row(q), ResolvedChecks(directive, def.keys, columns))
  BY <1>2
<1>12. CASE \E k \in DOMAIN directive.pin :
              field = Field(ColumnOf(columns, directive.pin[k].name),
                            directive.pin[k].type, directive.pin[k].nullable)
  BY <1>1, <1>3, <1>11, <1>12, PinnedStand
<1>13. CASE \E column \in Range(columns) :
              /\ column.name \notin NameSet(directive.pin)
              /\ field = InferredField(directive, column, types)
  <2>1. PICK column \in Range(columns) :
               /\ column.name \notin NameSet(directive.pin)
               /\ field = InferredField(directive, column, types)
    BY <1>13
  <2>. QED
    BY <1>1, <1>3, <1>7, <1>11, <2>1, AddedStand
<1>. QED
  BY <1>10, <1>12, <1>13

LEMMA BuildChunkStep == ASSUME IInv, BuildChunk PROVE IInv'
<1> DEFINE rows == [j \in DOMAIN Survivors |-> Cells(Survivors[j])]
           numbers == [k \in DOMAIN source.records |-> k]
           kept == {k \in DOMAIN source.records : ~ViolatesAny(Row(k), resolution.checks)}
<1>1. /\ TypeOK /\ KnownInv /\ JudgedInv /\ TypesInv /\ RejectionsInv /\ ResolvedInv
      /\ Files /\ pc = "build" /\ Live /\ resolution.code = "ok" /\ Directed(directive)
  BY DEF IInv, TypeOK, KnownInv, ResolvedInv, Live, BuildChunk
<1>2. /\ UNCHANGED <<def, source, directive, names, seen, known, judged, resolution,
                     rejections>>
      /\ Csv' = Csv
      /\ pc' = "over" /\ result' = BatchCode(rows)
      /\ pin' = IF resolution.pinWrite.ok THEN resolution.pinWrite ELSE pin
  BY DEF BuildChunk, Fails, Csv
<1>3. \A j \in DOMAIN Survivors : /\ Survivors[j] \in DOMAIN source.records
                                  /\ ~ViolatesAny(Row(Survivors[j]), resolution.checks)
  <2>1. Survivors = Picked(numbers, kept)
    BY DEF Survivors
  <2>2. /\ \A k \in DOMAIN source.records : k \in DOMAIN numbers /\ numbers[k] = k
        /\ kept \in SUBSET DOMAIN numbers /\ kept \in SUBSET DOMAIN source.records
        /\ \A k \in kept : ~ViolatesAny(Row(k), resolution.checks)
        /\ DOMAIN numbers = DOMAIN source.records
        /\ numbers = [k \in DOMAIN source.records |-> numbers[k]]
    OBVIOUS
  <2> HIDE DEF numbers, kept
  <2>3. Listed(numbers)
    BY <1>1, <2>2, MappedIs DEF Files
  <2>4. \A j \in DOMAIN Picked(numbers, kept) :
          \E k \in kept : Picked(numbers, kept)[j] = numbers[k]
    BY <2>2, <2>3, PickedIs
  <2>5. \A j \in DOMAIN Survivors : Survivors[j] \in kept
    BY <2>1, <2>2, <2>4
  <2>. QED
    BY <2>2, <2>5
<1>4. ASSUME NEW i \in DOMAIN rows, NEW j \in DOMAIN rows[i]
      PROVE  /\ rows[i][j].ok
             /\ ~resolution.fields[j].nullable => rows[i][j] # Some(NullCell)
  <2> DEFINE q == Survivors[i]
             field == resolution.fields[j]
  <2>1. /\ i \in DOMAIN Survivors /\ rows[i] = Cells(q)
        /\ j \in DOMAIN resolution.fields
        /\ rows[i][j] = Build(ValueAt(Row(q), field), field.type)
    BY <1>4 DEF Cells
  <2>2. q \in DOMAIN source.records /\ ~ViolatesAny(Row(q), resolution.checks)
    BY <1>3, <2>1
  <2>3. field \in Range(resolution.fields)
    BY <2>1 DEF Range
  <2> HIDE DEF rows, q, field
  <2>4. Stands(ValueAt(Row(q), field), field.type, field.nullable)
    BY <1>1, <2>2, <2>3, SurvivorStands
  <2>. QED
    BY <2>1, <2>4 DEF Stands, field
<1> HIDE DEF rows
<1>5. BatchCode(rows) = "ok"
  <2> DEFINE a == Code(\E i \in DOMAIN rows : \E j \in DOMAIN rows[i] : ~rows[i][j].ok,
                       "schema_coercion_failed")
             b == Code(\E i \in DOMAIN rows : \E j \in DOMAIN rows[i] :
                         ~resolution.fields[j].nullable /\ rows[i][j] = Some(NullCell),
                       "record_batch_creation_failed")
  <2>1. a = "ok" /\ b = "ok"
    BY <1>4 DEF Code
  <2>2. BatchCode(rows) = FirstCode(<<a, b>>)
    BY DEF BatchCode
  <2> HIDE DEF a, b
  <2>3. <<a, b>> \in Seq({"ok"})
    BY <2>1
  <2>4. \/ FirstCode(<<a, b>>) = "ok"
        \/ FirstCode(<<a, b>>) # "ok" /\ FirstCode(<<a, b>>) \in {"ok"}
    BY <2>3, FirstCodeResult, Zenon
  <2>. QED
    BY <2>2, <2>4
<1>6. pin'.ok => Listed(pin'.value)
  <2> DEFINE columns == ResolvedColumns(directive.transform, names)
             types == seen.fields \o seen.flatten
  <2>1. /\ Verdict(directive, def.keys, names) = "ok"
        /\ resolution.pinWrite.ok =>
             resolution.pinWrite.value = PinOf(PlannedFields(directive, columns, types))
    BY <1>1, PlanIs DEF ResolvedInv
  <2>2. Listed(columns)
    BY <1>1, <2>1, VerdictLists DEF TypeOK, Files
  <2> HIDE DEF columns, types
  <2>3. Listed(PinOf(PlannedFields(directive, columns, types)))
    BY <1>1, <2>2, PlannedAre DEF Directed
  <2>. QED
    BY <1>1, <1>2, <2>1, <2>3 DEF Files
<1>7. TypeOK'
  <2>1. Files'
    BY <1>1, <1>2, <1>6 DEF Files, Csv
  <2>. QED
    BY <1>1, <1>2, <2>1 DEF TypeOK
<1>8. ASSUME NEW m PROVE /\ Row(m)' = Row(m) /\ (Condemned(m)' <=> Condemned(m))
                         /\ \A i : FieldShown(m, i)' = FieldShown(m, i)
                         /\ \A j : PathShown(m, j)' = PathShown(m, j)
  BY <1>2, RowsStay
<1>9. FreshInv' /\ SurvivorsBuild' /\ RejectionsInv'
  <2>1. Marked
    BY <1>1 DEF RejectionsInv
  <2>2. Marked'
    BY <1>2, <2>1 DEF Marked
  <2>. QED
    BY <1>1, <1>2, <1>5, <2>2 DEF FreshInv, SurvivorsBuild, RejectionsInv
<1>10. KnownInv'
  BY <1>1, <1>2 DEF KnownInv
<1>11. JudgedInv'
  <2>1. \A k \in DOMAIN judged :
          judged[k] = IF ~known.ok THEN "unjudged"
                      ELSE IF Condemned(k)' THEN "rejected" ELSE "survived"
    BY <1>1, <1>8 DEF JudgedInv
  <2>. QED
    BY <1>1, <1>2, <2>1 DEF JudgedInv
<1>12. TypesInv'
  <2>1. ASSUME NEW k \in DOMAIN judged, judged[k] = "survived"
        PROVE  /\ \A i \in DOMAIN names :
                    Merge(seen.fields[i], FieldShown(k, i)') = seen.fields[i]
               /\ \A j \in DOMAIN Outputs(directive.transform) :
                    Merge(seen.flatten[j], PathShown(k, j)') = seen.flatten[j]
    <3>1. /\ \A i \in DOMAIN names :
               Merge(seen.fields[i], FieldShown(k, i)) = seen.fields[i]
          /\ \A j \in DOMAIN Outputs(directive.transform) :
               Merge(seen.flatten[j], PathShown(k, j)) = seen.flatten[j]
      BY <1>1, <2>1 DEF TypesInv
    <3>2. \A i : FieldShown(k, i)' = FieldShown(k, i)
      BY <1>8
    <3>3. \A j : PathShown(k, j)' = PathShown(k, j)
      BY <1>8
    <3>. QED
      BY <3>1, <3>2, <3>3
  <2>. QED
    BY <1>1, <1>2, <2>1 DEF TypesInv
<1>13. ResolvedInv'
  BY <1>1, <1>2 DEF ResolvedInv
<1>. QED
  BY <1>7, <1>9, <1>10, <1>11, <1>12, <1>13 DEF IInv

LEMMA StutterStep == ASSUME IInv, UNCHANGED vars PROVE IInv'
<1>1. /\ UNCHANGED <<def, source, pin, load, pc, directive, names, seen, known, judged,
                     resolution, rejections, batch, result, first>>
      /\ Csv' = Csv
  BY DEF vars, Csv
<1>2. ASSUME NEW m PROVE /\ Row(m)' = Row(m) /\ (Condemned(m)' <=> Condemned(m))
                         /\ \A i : FieldShown(m, i)' = FieldShown(m, i)
                         /\ \A j : PathShown(m, j)' = PathShown(m, j)
  BY <1>1, RowsStay
<1>3. TypeOK' /\ FreshInv' /\ SurvivorsBuild'
  <2>1. Files'
    BY <1>1 DEF IInv, TypeOK, Files, Csv
  <2>. QED
    BY <1>1, <2>1 DEF IInv, TypeOK, FreshInv, SurvivorsBuild
<1>4. KnownInv' /\ ResolvedInv'
  BY <1>1 DEF IInv, KnownInv, ResolvedInv, Live
<1>5. RejectionsInv'
  BY <1>1 DEF IInv, RejectionsInv, Marked
<1>6. Live' <=> Live
  BY <1>1 DEF Live
<1>7. JudgedInv'
  <2>1. CASE ~Live
    BY <1>6, <2>1 DEF JudgedInv
  <2>2. CASE Live
    <3>1. \A k \in DOMAIN judged :
            judged[k] = IF ~known.ok THEN "unjudged"
                        ELSE IF Condemned(k)' THEN "rejected" ELSE "survived"
      BY <1>2, <2>2 DEF IInv, JudgedInv
    <3>. QED
      BY <1>1, <2>2, <3>1 DEF IInv, JudgedInv
  <2>. QED
    BY <2>1, <2>2
<1>8. TypesInv'
  <2>1. CASE ~Live
    BY <1>6, <2>1 DEF TypesInv
  <2>2. CASE Live
    <3>1. ASSUME NEW k \in DOMAIN judged, judged[k] = "survived"
          PROVE  /\ \A i \in DOMAIN names :
                      Merge(seen.fields[i], FieldShown(k, i)') = seen.fields[i]
                 /\ \A j \in DOMAIN Outputs(directive.transform) :
                      Merge(seen.flatten[j], PathShown(k, j)') = seen.flatten[j]
      <4>1. /\ \A i \in DOMAIN names :
                 Merge(seen.fields[i], FieldShown(k, i)) = seen.fields[i]
            /\ \A j \in DOMAIN Outputs(directive.transform) :
                 Merge(seen.flatten[j], PathShown(k, j)) = seen.flatten[j]
        BY <2>2, <3>1 DEF IInv, TypesInv
      <4>2. \A i : FieldShown(k, i)' = FieldShown(k, i)
        BY <1>2
      <4>3. \A j : PathShown(k, j)' = PathShown(k, j)
        BY <1>2
      <4>. QED
        BY <4>1, <4>2, <4>3
    <3>. QED
      BY <1>1, <2>2, <3>1 DEF IInv, TypesInv
  <2>. QED
    BY <2>1, <2>2
<1>. QED
  BY <1>3, <1>4, <1>5, <1>7, <1>8 DEF IInv

LEMMA IInvStep == ASSUME IInv, [Next]_vars PROVE IInv'
<1>1. CASE Configure
  BY <1>1, ConfigureStep
<1>2. CASE Observe
  BY <1>2, ObserveStep
<1>3. CASE Finish
  BY <1>3, FinishStep
<1>4. CASE BuildChunk
  BY <1>4, BuildChunkStep
<1>5. CASE RunAgain
  BY <1>5, RunAgainStep
<1>6. CASE UNCHANGED vars
  BY <1>6, StutterStep
<1>. QED
  BY <1>1, <1>2, <1>3, <1>4, <1>5, <1>6 DEF Next

-----------------------------------------------------------------------------
(* What the rejections name.                                               *)

\* A rejection is the first fault its record has, in the order of the checks.
FirstFault(record, checks, named) ==
  \E k \in DOMAIN checks :
    /\ Violates(record, checks[k]) /\ \A j \in 1 .. k - 1 : ~Violates(record, checks[j])
    /\ named = Rejection(record, checks[k])

\* The checks rejections are named by: those of the plan.
Naming == ResolvedChecks(directive, def.keys, ResolvedColumns(directive.transform, names))

NamedInv ==
  Live => \A r \in DOMAIN rejections :
            FirstFault(Row(rejections[r].record), Naming, rejections[r].names.value)

LEMMA RejectionForIs ==
  ASSUME NEW record, NEW checks, Listed(checks), ViolatesAny(record, checks)
  PROVE  FirstFault(record, checks, RejectionFor(record, checks).value)
<1> DEFINE T == { k \in 1 .. Len(checks) : Violates(record, checks[k]) }
<1>1. Len(checks) \in Nat /\ DOMAIN checks = 1 .. Len(checks)
  BY ListedIs
<1>2. T # {}
  BY <1>1 DEF ViolatesAny
<1>3. PICK k \in T : \A m \in T : k <= m
  <2>1. T \in SUBSET Nat
    BY <1>1
  <2> HIDE DEF T
  <2>. QED
    BY <1>2, <2>1, LeastNumber
<1>4. Min(T) \in T /\ \A m \in T : Min(T) <= m
  <2> HIDE DEF T
  <2>. QED
    BY <1>3 DEF Min
<1>5. SelectInSeq(checks, LAMBDA check : Violates(record, check)) = Min(T)
  BY <1>2 DEF SelectInSeq
<1> DEFINE n == Min(T)
<1> HIDE DEF n
<1>6. n \in DOMAIN checks /\ n # 0 /\ Violates(record, checks[n])
  BY <1>1, <1>4 DEF n
<1>7. \A j \in 1 .. n - 1 : ~Violates(record, checks[j])
  <2>1. \A m \in T : n <= m
    BY <1>4 DEF n
  <2>. QED
    BY <1>1, <1>6, <2>1
<1>8. RejectionFor(record, checks).value = Rejection(record, checks[n])
  <2>1. RejectionFor(record, checks) = Some(Rejection(record, checks[n]))
    BY <1>5, <1>6 DEF RejectionFor, n
  <2>. QED
    BY <2>1 DEF Some
<1>. QED
  BY <1>6, <1>7, <1>8 DEF FirstFault

LEMMA FaultStays ==
  ASSUME def' = def, source' = source, NEW k, NEW checks, NEW named
  PROVE  FirstFault(Row(k), checks, named)' <=> FirstFault(Row(k), checks, named)
BY DEF FirstFault, Violates, Rejection, ValueAt, Absent, Fits, Cause, Csv, Row

LEMMA NamedMoves ==
  ASSUME UNCHANGED <<def, source>>,
         \A r \in DOMAIN rejections' :
           FirstFault(Row(rejections'[r].record), Naming', rejections'[r].names.value)
  PROVE  NamedInv'
<1> SUFFICES ASSUME NEW r \in DOMAIN rejections'
             PROVE  FirstFault(Row(rejections[r].record), Naming, rejections[r].names.value)'
  BY DEF NamedInv
<1>1. PICK k, checks, named : /\ k = rejections'[r].record /\ checks = Naming'
                              /\ named = rejections'[r].names.value
  OBVIOUS
<1>2. FirstFault(Row(k), checks, named)
  BY <1>1
<1>3. FirstFault(Row(k), checks, named)'
  BY <1>2, FaultStays
<1>4. Row(k)' = Row(rejections[r].record)' /\ checks = Naming' /\ named = (rejections[r].names.value)'
  BY <1>1 DEF Row, Csv
<1>. QED
  BY <1>3, <1>4 DEF FirstFault, Violates, ValueAt, Rejection, Absent, Fits, Cause

LEMMA NamedStays ==
  ASSUME Live, NamedInv, UNCHANGED <<def, source, directive, names, rejections>>
  PROVE  NamedInv'
<1>1. Naming' = Naming
  BY DEF Naming
<1>2. \A r \in DOMAIN rejections' :
        FirstFault(Row(rejections'[r].record), Naming, rejections'[r].names.value)
  BY DEF NamedInv
<1>. QED
  BY <1>1, <1>2, NamedMoves

LEMMA NamedObserve == ASSUME IInv, NamedInv, Observe PROVE NamedInv'
<1>1. /\ TypeOK /\ Files /\ Listed(names) /\ Live /\ Listed(rejections) /\ pc = "observe"
      /\ Directed(directive) /\ resolution = NotRun
  BY DEF IInv, TypeOK, FreshInv, KnownInv, Live, Observe
<1>2. UNCHANGED <<def, source, directive>> /\ (Csv => names' = names)
  BY DEF Observe
<1>3. PICK n : n = Len(judged) + 1
  OBVIOUS
<1>4. rejections' = IF Csv /\ known.ok /\ Condemned(n)
        THEN Append(rejections,
                    [record |-> n, names |-> RejectionFor(Row(n), known.value)])
        ELSE rejections
  BY <1>3 DEF Observe, Condemned
<1>5. CASE Csv /\ known.ok /\ Condemned(n)
  <2>1. Verdict(directive, def.keys, names) = "ok" /\ known.value = Naming
    BY <1>1, <1>5 DEF IInv, KnownInv, When, None, Some, Naming
  <2>2. Listed(Naming)
    BY <1>1, <2>1, VerdictLists DEF Files, Naming
  <2>3. FirstFault(Row(n), Naming, RejectionFor(Row(n), Naming).value)
    BY <1>5, <2>1, <2>2, RejectionForIs DEF Condemned
  <2> DEFINE added == [record |-> n, names |-> RejectionFor(Row(n), known.value)]
             L == Len(rejections)
  <2>4. /\ rejections' = Append(rejections, added) /\ added.record = n
        /\ added.names.value = RejectionFor(Row(n), Naming).value
    BY <1>4, <1>5, <2>1
  <2> HIDE DEF added
  <2>5. /\ L \in Nat /\ DOMAIN rejections = 1 .. L /\ DOMAIN rejections' = 1 .. L + 1
        /\ rejections'[L + 1] = added /\ \A i \in 1 .. L : rejections'[i] = rejections[i]
    <3> DEFINE R == Range(rejections)
    <3> HIDE DEF R
    <3>1. L \in Nat /\ DOMAIN rejections = 1 .. L /\ rejections \in Seq(R)
      BY <1>1, ListedIs DEF Listed, R
    <3>. QED
      BY <2>4, <3>1
  <2>6. Naming' = Naming
    BY <1>2, <1>5 DEF Naming
  <2>7. ASSUME NEW r \in DOMAIN rejections'
        PROVE  FirstFault(Row(rejections'[r].record), Naming, rejections'[r].names.value)
    <3>1. CASE r = L + 1
      BY <2>3, <2>4, <2>5, <3>1
    <3>2. CASE r # L + 1
      <4>1. r \in DOMAIN rejections /\ rejections'[r] = rejections[r]
        BY <2>5, <2>7, <3>2
      <4>. QED
        BY <1>1, <4>1 DEF NamedInv
    <3>. QED
      BY <3>1, <3>2
  <2>. QED
    BY <1>2, <2>6, <2>7, NamedMoves
<1>6. CASE Csv /\ ~(known.ok /\ Condemned(n))
  <2>1. rejections' = rejections /\ names' = names
    BY <1>2, <1>4, <1>6
  <2>. QED
    BY <1>1, <1>2, <2>1, NamedStays
<1>7. CASE ~Csv
  <2>1. rejections' = <<>>
    BY <1>1, <1>4, <1>7 DEF IInv, RejectionsInv
  <2>. QED
    BY <2>1, EmptyIs DEF NamedInv
<1>. QED
  BY <1>5, <1>6, <1>7

LEMMA NamedFinish == ASSUME IInv, NamedInv, Finish PROVE NamedInv'
<1> DEFINE resolved == ResolvePlan(directive, def.keys, names, seen.fields \o seen.flatten)
           numbers == [k \in DOMAIN judged |-> k]
           condemned == {k \in DOMAIN judged : judged[k] = "rejected"}
           spilled == Picked(numbers, condemned)
<1>1. /\ TypeOK /\ KnownInv /\ JudgedInv /\ RejectionsInv /\ Live
      /\ Files /\ judged \in Seq(Judgements) /\ Listed(names) /\ Directed(directive)
      /\ resolution = NotRun /\ pc = "observe"
  BY DEF IInv, TypeOK, FreshInv, KnownInv, Live, Finish
<1>2. UNCHANGED <<def, source, directive, names>>
  BY DEF Finish
<1>3. /\ resolved.code = Verdict(directive, def.keys, names)
      /\ resolved.code = "ok" => resolved.checks = Naming
  BY PlanIs DEF Naming
<1>4. \/ rejections' = rejections
      \/ /\ resolved.code = "ok" /\ ~Csv
         /\ rejections' = [j \in DOMAIN spilled |->
                             [record |-> spilled[j],
                              names |-> RejectionFor(Row(spilled[j]), resolved.checks)]]
  BY DEF Finish
<1> HIDE DEF resolved, numbers, condemned, spilled
<1>5. CASE rejections' = rejections
  BY <1>1, <1>2, <1>5, NamedStays
<1>6. CASE /\ resolved.code = "ok" /\ ~Csv
           /\ rejections' = [j \in DOMAIN spilled |->
                               [record |-> spilled[j],
                                names |-> RejectionFor(Row(spilled[j]), resolved.checks)]]
  <2>1. \A j \in DOMAIN spilled : spilled[j] \in condemned
    <3>1. DOMAIN judged = 1 .. Len(judged) /\ Len(judged) \in Nat
      BY <1>1
    <3>2. /\ DOMAIN numbers = 1 .. Len(judged)
          /\ numbers = [k \in 1 .. Len(judged) |-> numbers[k]]
      BY <3>1 DEF numbers
    <3>3. Listed(numbers) /\ condemned \in SUBSET DOMAIN numbers
      BY <3>1, <3>2, FunctionListed DEF condemned
    <3>4. \A j \in DOMAIN spilled : \E k \in condemned : spilled[j] = numbers[k]
      BY <3>3, PickedIs DEF spilled
    <3>5. \A k \in condemned : numbers[k] = k
      BY DEF numbers, condemned
    <3>. QED
      BY <3>4, <3>5
  <2>2. Listed(Naming)
    BY <1>1, <1>3, <1>6, VerdictLists DEF Files, Naming
  <2>3. ASSUME NEW j \in DOMAIN spilled
        PROVE  FirstFault(Row(spilled[j]), Naming, RejectionFor(Row(spilled[j]), Naming).value)
    <3>1. spilled[j] \in DOMAIN judged /\ judged[spilled[j]] = "rejected"
      BY <2>1 DEF condemned
    <3>2. Condemned(spilled[j])
      <4>1. judged[spilled[j]] = IF ~known.ok THEN "unjudged"
              ELSE IF Condemned(spilled[j]) THEN "rejected" ELSE "survived"
        BY <1>1, <3>1 DEF JudgedInv
      <4>. QED
        BY <3>1, <4>1
    <3>3. ViolatesAny(Row(spilled[j]), Naming)
      BY <1>1, <1>3, <1>6, <3>2, JudgedAlike DEF Condemned, Naming
    <3>. QED
      BY <2>2, <3>3, RejectionForIs
  <2>4. Naming' = Naming
    BY <1>2 DEF Naming
  <2> DEFINE N(j) == RejectionFor(Row(spilled[j]), Naming)
  <2>5. rejections' = [j \in DOMAIN spilled |-> [record |-> spilled[j], names |-> N(j)]]
    BY <1>3, <1>6
  <2>6. \A j \in DOMAIN spilled : FirstFault(Row(spilled[j]), Naming, N(j).value)
    BY <2>3
  <2> HIDE DEF N
  <2>7. ASSUME NEW r \in DOMAIN rejections'
        PROVE  FirstFault(Row(rejections'[r].record), Naming, rejections'[r].names.value)
    <3>1. r \in DOMAIN spilled /\ rejections'[r].record = spilled[r] /\ rejections'[r].names = N(r)
      BY <2>5, <2>7
    <3>. QED
      BY <2>6, <3>1
  <2>. QED
    BY <1>2, <2>4, <2>7, NamedMoves
<1>. QED
  BY <1>4, <1>5, <1>6

LEMMA NamedStep == ASSUME IInv, NamedInv, [Next]_vars PROVE NamedInv'
<1>1. CASE Configure
  <2>1. rejections' = <<>>
    BY <1>1 DEF Configure, IInv, FreshInv
  <2>. QED
    BY <2>1, EmptyIs DEF NamedInv
<1>2. CASE Observe
  BY <1>2, NamedObserve
<1>3. CASE Finish
  BY <1>3, NamedFinish
<1>4. CASE BuildChunk
  <2>1. Live /\ UNCHANGED <<def, source, directive, names, rejections>>
    BY <1>4 DEF BuildChunk, Live
  <2>. QED
    BY <2>1, NamedStays
<1>5. CASE RunAgain
  <2>1. rejections' = <<>>
    BY <1>5 DEF RunAgain
  <2>. QED
    BY <2>1, EmptyIs DEF NamedInv
<1>6. CASE UNCHANGED vars
  <2>1. UNCHANGED <<def, source, directive, names, rejections>> /\ (Live' <=> Live)
    BY <1>6 DEF vars, Live
  <2>2. CASE Live
    BY <2>1, <2>2, NamedStays
  <2>3. CASE ~Live
    BY <2>1, <2>3 DEF NamedInv
  <2>. QED
    BY <2>2, <2>3
<1>. QED
  BY <1>1, <1>2, <1>3, <1>4, <1>5, <1>6 DEF Next

\* The field a rejection speaks of: where it reads, and what it asks there.
Blames(field, record, keys, named) ==
  LET value == ValueAt(record, field)
  IN /\ field.name = named.field
     /\ named.sourceField = When(field.source # <<field.name>>, field.source)
     /\ CASE named.code = "null_merge_key" ->
               Absent(value) /\ field.name \in Range(keys)
          [] named.code = "missing_required_field" -> Absent(value) /\ ~field.nullable
          [] OTHER -> ~Absent(value) /\ ~Fits(value, field.type)

\* A check of the schema that fails blames the field it is of.
LEMMA SchemaBlames ==
  ASSUME NEW check, NEW field, NEW record, NEW keys, Violates(record, check),
         check.name = field.name, check.source = field.source, check.index = field.index,
         check.required = Requires(field.nullable),
         check.expected.ok => check.expected.value = field.type
  PROVE  LET named == Rejection(record, check)
         IN named.code # "null_merge_key" /\ Blames(field, record, keys, named)
<1> DEFINE value == ValueAt(record, field)
           named == Rejection(record, check)
<1>1. ValueAt(record, check) = value
  BY SameAddress
<1>2. /\ named.field = field.name
      /\ named.sourceField = When(field.source # <<field.name>>, field.source)
      /\ named.code = IF ~Absent(value) THEN "type_coercion_failed"
                      ELSE IF check.required = "schema" THEN "missing_required_field"
                      ELSE "null_merge_key"
  BY <1>1 DEF Rejection, NameChanged
<1> HIDE DEF named, value
<1>3. CASE Absent(value)
  <2>1. check.required = "schema" /\ ~field.nullable
    BY <1>1, <1>3 DEF Violates, Requires
  <2>2. named.code = "missing_required_field"
    BY <1>2, <1>3, <2>1
  <2>. QED
    BY <1>2, <1>3, <2>1, <2>2 DEF Blames, named, value
<1>4. CASE ~Absent(value)
  <2>1. ~Fits(value, field.type)
    BY <1>1, <1>4 DEF Violates
  <2>2. named.code = "type_coercion_failed"
    BY <1>2, <1>4
  <2>. QED
    BY <1>2, <1>4, <2>1, <2>2 DEF Blames, named, value
<1>. QED
  BY <1>3, <1>4

\* A null merge key blames the column it is in.
LEMMA KeyBlames ==
  ASSUME NEW column, NEW field, NEW record, NEW keys, Violates(record, KeyCheck(column)),
         column.name = field.name, column.source = field.source,
         column.index = field.index, field.name \in Range(keys)
  PROVE  LET named == Rejection(record, KeyCheck(column))
         IN named.code = "null_merge_key" /\ Blames(field, record, keys, named)
<1> DEFINE value == ValueAt(record, field)
           check == KeyCheck(column)
           named == Rejection(record, check)
<1>1. /\ check.name = field.name /\ check.source = field.source
      /\ check.index = field.index /\ check.expected = None /\ check.required = "merge key"
  BY DEF KeyCheck, Check
<1>2. Violates(record, check)
  OBVIOUS
<1> HIDE DEF check, value
<1>3. ValueAt(record, check) = value
  BY <1>1, SameAddress DEF value
<1>4. ~check.expected.ok
  <2>1. ~None.ok
    BY DEF None
  <2>. QED
    BY <1>1, <2>1
<1>5. Absent(value)
  BY <1>2, <1>3, <1>4 DEF Violates
<1>6. /\ named.field = field.name
      /\ named.sourceField = When(field.source # <<field.name>>, field.source)
      /\ named.code = "null_merge_key"
  BY <1>1, <1>3, <1>5 DEF Rejection, NameChanged
<1> HIDE DEF named
<1>7. Blames(field, record, keys, named)
  BY <1>5, <1>6 DEF Blames, value
<1>. QED
  BY <1>6, <1>7 DEF named, check

\* The first check of the plan a record fails blames a field of the plan, and
\* a merge key before any other.
LEMMA FaultBlames ==
  ASSUME NEW dir, Directed(dir), NEW keys, Listed(keys), NEW columns, Listed(columns),
         Range(keys) \subseteq NameSet(columns), NameSet(dir.pin) \subseteq NameSet(columns),
         NEW types, NEW record, NEW named,
         FirstFault(record, ResolvedChecks(dir, keys, columns), named)
  PROVE  /\ (\E k \in DOMAIN keys : Absent(ValueAt(record, ColumnOf(columns, keys[k]))))
              <=> named.code = "null_merge_key"
         /\ \E field \in Range(PlannedFields(dir, columns, types)) :
              Blames(field, record, keys, named)
<1> DEFINE checks == ResolvedChecks(dir, keys, columns)
           fields == PlannedFields(dir, columns, types)
           nullKey == \E k \in DOMAIN keys :
                        Absent(ValueAt(record, ColumnOf(columns, keys[k])))
<1>1. /\ Len(keys) \in Nat /\ DOMAIN keys = 1 .. Len(keys)
      /\ \A k \in DOMAIN keys : /\ k \in DOMAIN checks
                                /\ checks[k] = KeyCheck(ColumnOf(columns, keys[k]))
      /\ \A k \in DOMAIN checks \ DOMAIN keys :
           /\ k > Len(keys)
           /\ \/ \E p \in DOMAIN dir.pin :
                   checks[k] = PinCheck(ColumnOf(columns, dir.pin[p].name), dir.pin[p])
              \/ \E c \in Overridden(dir, columns) :
                   checks[k] = OverrideCheck(c, OverrideOf(dir, c.name))
  BY ChecksOrdered
<1>2. PICK n \in DOMAIN checks : /\ Violates(record, checks[n])
                                 /\ \A j \in 1 .. n - 1 : ~Violates(record, checks[j])
                                 /\ named = Rejection(record, checks[n])
  BY DEF FirstFault
<1>3. /\ \A p \in DOMAIN dir.pin :
           Field(ColumnOf(columns, dir.pin[p].name), dir.pin[p].type, dir.pin[p].nullable)
             \in Range(fields)
      /\ \A column \in Range(columns) : column.name \notin NameSet(dir.pin) =>
           InferredField(dir, column, types) \in Range(fields)
  BY PlannedAre DEF Directed
<1> HIDE DEF checks, fields
<1>4. ASSUME NEW k \in DOMAIN keys
      PROVE  /\ ColumnOf(columns, keys[k]) \in Range(columns)
             /\ ColumnOf(columns, keys[k]).name = keys[k] /\ keys[k] \in Range(keys)
  <2>1. keys[k] \in Range(keys)
    BY DEF Range
  <2>. QED
    BY <2>1, ColumnOfIs DEF Range
<1>5. ASSUME NEW k \in DOMAIN keys
      PROVE  Violates(record, checks[k]) <=> Absent(ValueAt(record, ColumnOf(columns, keys[k])))
  <2> DEFINE column == ColumnOf(columns, keys[k])
             check == KeyCheck(column)
  <2>1. /\ check.source = column.source /\ check.index = column.index
        /\ check.expected = None /\ check.required = "merge key" /\ ~None.ok
    BY DEF KeyCheck, Check, None
  <2> HIDE DEF check, column
  <2>2. ValueAt(record, check) = ValueAt(record, column)
    BY <2>1, SameAddress
  <2>3. checks[k] = check
    BY <1>1 DEF check, column
  <2>. QED
    BY <2>1, <2>2, <2>3 DEF Violates, column
<1>6. CASE n \in DOMAIN keys
  <2> DEFINE column == ColumnOf(columns, keys[n])
  <2>1. nullKey
    BY <1>2, <1>5, <1>6
  <2>2. checks[n] = KeyCheck(column) /\ Violates(record, KeyCheck(column))
    BY <1>1, <1>2, <1>6
  <2>3. column \in Range(columns) /\ column.name = keys[n] /\ column.name \in Range(keys)
    BY <1>4, <1>6
  <2> HIDE DEF column
  <2>4. \E field \in Range(fields) : /\ field.name = column.name
                                     /\ field.source = column.source
                                     /\ field.index = column.index
    <3>1. CASE column.name \in NameSet(dir.pin)
      <4>1. PICK p \in DOMAIN dir.pin : dir.pin[p].name = column.name
        BY <3>1 DEF NameSet
      <4>2. ColumnOf(columns, dir.pin[p].name) = column
        BY <2>3, <4>1 DEF column
      <4>. QED
        BY <1>3, <4>1, <4>2 DEF Field
    <3>2. CASE column.name \notin NameSet(dir.pin)
      BY <1>3, <2>3, <3>2 DEF InferredField, Field
    <3>. QED
      BY <3>1, <3>2
  <2>5. PICK field \in Range(fields) : /\ field.name = column.name
                                       /\ field.source = column.source
                                       /\ field.index = column.index
    BY <2>4
  <2>6. named = Rejection(record, KeyCheck(column))
    BY <1>2, <2>2
  <2>7. named.code = "null_merge_key" /\ Blames(field, record, keys, named)
    BY <2>2, <2>3, <2>5, <2>6, KeyBlames
  <2>. QED
    BY <2>1, <2>5, <2>7 DEF fields
<1>7. CASE n \notin DOMAIN keys
  <2>1. ~nullKey
    <3>1. \A k \in DOMAIN keys : ~Violates(record, checks[k])
      <4>1. n > Len(keys)
        BY <1>1, <1>7
      <4>2. \A k \in DOMAIN keys : k \in 1 .. n - 1
        BY <1>1, <4>1
      <4>. QED
        BY <1>2, <4>2
    <3>. QED
      BY <1>5, <3>1
  <2>2. \E field \in Range(fields) :
          /\ checks[n].name = field.name /\ checks[n].source = field.source
          /\ checks[n].index = field.index
          /\ checks[n].required = Requires(field.nullable)
          /\ checks[n].expected.ok => checks[n].expected.value = field.type
    <3>1. CASE \E p \in DOMAIN dir.pin :
                 checks[n] = PinCheck(ColumnOf(columns, dir.pin[p].name), dir.pin[p])
      <4>1. PICK p \in DOMAIN dir.pin :
              checks[n] = PinCheck(ColumnOf(columns, dir.pin[p].name), dir.pin[p])
        BY <3>1
      <4> DEFINE field == Field(ColumnOf(columns, dir.pin[p].name), dir.pin[p].type,
                                dir.pin[p].nullable)
      <4>2. field \in Range(fields)
        BY <1>3
      <4>3. /\ checks[n].name = field.name /\ checks[n].source = field.source
            /\ checks[n].index = field.index
            /\ checks[n].required = Requires(field.nullable)
            /\ checks[n].expected.value = field.type
        BY <4>1 DEF PinCheck, Check, Field, Some
      <4> HIDE DEF field
      <4>. QED
        BY <4>2, <4>3
    <3>2. CASE \E c \in Overridden(dir, columns) :
                 checks[n] = OverrideCheck(c, OverrideOf(dir, c.name))
      <4>1. PICK c \in Overridden(dir, columns) :
              checks[n] = OverrideCheck(c, OverrideOf(dir, c.name))
        BY <3>2
      <4>2. InferredField(dir, c, types) \in Range(fields)
        BY <1>3 DEF Overridden
      <4>. QED
        BY <4>1, <4>2 DEF InferredField, OverrideCheck, Check, Field
    <3>. QED
      BY <1>1, <1>2, <1>7, <3>1, <3>2
  <2>3. PICK field \in Range(fields) :
          /\ checks[n].name = field.name /\ checks[n].source = field.source
          /\ checks[n].index = field.index
          /\ checks[n].required = Requires(field.nullable)
          /\ checks[n].expected.ok => checks[n].expected.value = field.type
    BY <2>2
  <2>4. named.code # "null_merge_key" /\ Blames(field, record, keys, named)
    BY <1>2, <2>3, SchemaBlames
  <2>. QED
    BY <2>1, <2>3, <2>4 DEF fields
<1>. QED
  BY <1>6, <1>7

LEMMA RejectionsNamed ==
  ASSUME TypeOK, KnownInv, ResolvedInv, NamedInv PROVE RejectionsTrue
<1> SUFFICES ASSUME Resolved, NEW r \in DOMAIN rejections
             PROVE  LET row == Row(rejections[r].record)
                        named == rejections[r].names.value
                        nullKey == \E k \in DOMAIN def.keys :
                          Absent(ValueAt(row, ColumnOf(resolution.columns, def.keys[k])))
                    IN /\ nullKey = (named.code = "null_merge_key")
                       /\ \E j \in DOMAIN resolution.fields :
                            Blames(resolution.fields[j], row, def.keys, named)
  BY DEF RejectionsTrue, Blames
<1> DEFINE row == Row(rejections[r].record)
           named == rejections[r].names.value
           columns == ResolvedColumns(directive.transform, names)
           types == seen.fields \o seen.flatten
           nullKey == \E k \in DOMAIN def.keys :
                        Absent(ValueAt(row, ColumnOf(columns, def.keys[k])))
<1>1. Live /\ Directed(directive) /\ Listed(names) /\ Listed(def.keys)
  BY DEF Resolved, Live, KnownInv, TypeOK, Files
<1>2. /\ Verdict(directive, def.keys, names) = "ok" /\ resolution.columns = columns
      /\ resolution.fields = PlannedFields(directive, columns, types)
  BY PlanIs DEF Resolved, ResolvedInv
<1>3. /\ Range(def.keys) \subseteq NameSet(columns)
      /\ NameSet(directive.pin) \subseteq NameSet(columns)
      /\ Listed(columns)
  BY <1>1, <1>2, VerdictResult, VerdictLists DEF Agreed
<1>4. FirstFault(row, ResolvedChecks(directive, def.keys, columns), named)
  BY <1>1 DEF NamedInv, Naming
<1> HIDE DEF row, named, columns, types
<1>5. /\ nullKey <=> named.code = "null_merge_key"
      /\ \E field \in Range(PlannedFields(directive, columns, types)) :
           Blames(field, row, def.keys, named)
  BY <1>1, <1>3, <1>4, FaultBlames
<1>6. nullKey = (named.code = "null_merge_key")
  BY <1>5
<1>7. \E j \in DOMAIN resolution.fields : Blames(resolution.fields[j], row, def.keys, named)
  BY <1>2, <1>5 DEF Range
<1>. QED
  BY <1>2, <1>6, <1>7 DEF row, named

LEMMA InitNamed == Init => NamedInv
BY NotRunIs DEF Init, NamedInv, Live

-----------------------------------------------------------------------------
(* The join of the values a field showed.                                  *)

\* A type that values were merged into and no wider than it need be: the join.
Joins(type, values) ==
  /\ type \in Observable
  /\ \A v \in values : Merge(type, v) = type
  /\ \A wider \in Observable :
       (\A v \in values : Merge(wider, v) = wider) => Merge(wider, type) = wider

\* A set of values has one join: what was observed does not depend on the order.
LEMMA JoinUnique ==
  ASSUME NEW values, NEW a, NEW b, Joins(a, values), Joins(b, values)
  PROVE  a = b
<1>1. Merge(a, b) = a /\ Merge(b, a) = b /\ a \in Observable /\ b \in Observable
  BY DEF Joins
<1>. QED
  BY <1>1, MergeIsJoin

\* One more value is merged in.
LEMMA JoinMore ==
  ASSUME NEW old, NEW values, values \subseteq Observable, Joins(old, values),
         NEW value \in Observable
  PROVE  Joins(Merge(old, value), values \union {value})
<1> DEFINE new == Merge(old, value)
<1>1. old \in Observable /\ new \in Observable
  BY MergeIsJoin DEF Joins
<1>2. ASSUME NEW v \in values \union {value} PROVE Merge(new, v) = new
  <2>1. CASE v = value
    BY <1>1, <2>1, MergeHolds
  <2>2. CASE v \in values
    <3>1. Merge(old, v) = old /\ v \in Observable
      BY <2>2 DEF Joins
    <3>. QED
      BY <1>1, <3>1, MergeHolds
  <2>. QED
    BY <2>1, <2>2
<1>3. ASSUME NEW wider \in Observable, \A v \in values \union {value} : Merge(wider, v) = wider
      PROVE  Merge(wider, new) = wider
  <2>1. Merge(wider, old) = wider /\ Merge(wider, value) = wider
    BY <1>3 DEF Joins
  <2>2. Merge(Merge(wider, old), value) = Merge(wider, Merge(old, value))
    BY <1>1, MergeIsJoin
  <2>. QED
    BY <2>1, <2>2
<1> HIDE DEF new
<1>. QED
  BY <1>1, <1>2, <1>3 DEF Joins, new

\* Of nulls alone, or of nothing, the join is the type a field starts with.
LEMMA JoinNull ==
  ASSUME NEW values, values \subseteq {"null"}
  PROVE  Joins("null", values)
<1>1. "null" \in Observable
  BY DEF Observable
<1>2. \A wider \in Observable : Merge("null", "null") = "null" /\ Merge(wider, "null") = wider
  BY <1>1, MergeIsJoin
<1>. QED
  BY <1>1, <1>2 DEF Joins

\* Under the pin the first load left, the same records resolve to a plan.

-----------------------------------------------------------------------------
(* The same keys in another order give the same names.                     *)

\* No two columns share a name.
Distinct(columns) == IsInjective([k \in DOMAIN columns |-> columns[k].name])

\* Two columns of one name are the same column.
LEMMA DistinctIs ==
  ASSUME NEW columns
  PROVE  /\ Distinct(columns) <=>
              \A j, k \in DOMAIN columns : columns[j].name = columns[k].name => j = k
         /\ Distinct(columns) =>
              \A x, y \in Range(columns) : x.name = y.name => x = y
<1>1. Distinct(columns) <=>
        \A j, k \in DOMAIN columns : columns[j].name = columns[k].name => j = k
  BY DEF Distinct, IsInjective
<1>2. ASSUME Distinct(columns), NEW x \in Range(columns), NEW y \in Range(columns),
             x.name = y.name
      PROVE  x = y
  <2>1. PICK j \in DOMAIN columns : columns[j] = x
    BY DEF Range
  <2>2. PICK k \in DOMAIN columns : columns[k] = y
    BY DEF Range
  <2>. QED
    BY <1>1, <1>2, <2>1, <2>2
<1>. QED
  BY <1>1, <1>2

\* The names of a dataset are the names of its source fields and flatten
\* outputs, or of those selected, after the renaming.
Taken(t, fields) ==
  IF t.select # Unset THEN Range(t.select) ELSE Range(fields) \union Range(Outputs(t))

\* Each key not selected away has its column, named as the transform names it.
LEMMA ColumnNamed ==
  ASSUME NEW t, Sound(t), NEW fields, Listed(fields)
  PROVE  LET columns == ResolvedColumns(t, fields)
             n == Len(fields)
         IN /\ t.select # Unset =>
                 /\ DOMAIN columns = DOMAIN t.select
                 /\ ~UnknownFields(t, fields) =>
                      \A k \in DOMAIN t.select : columns[k].name = FinalName(t, t.select[k])
            /\ t.select = Unset =>
                 /\ n \in Nat /\ Len(Outputs(t)) \in Nat
                 /\ DOMAIN fields = 1 .. n /\ DOMAIN Outputs(t) = 1 .. Len(Outputs(t))
                 /\ DOMAIN columns = 1 .. n + Len(Outputs(t))
                 /\ \A k \in 1 .. n : columns[k].name = FinalName(t, fields[k])
                 /\ \A k \in 1 .. Len(Outputs(t)) :
                      columns[n + k].name = FinalName(t, Outputs(t)[k])
<1> DEFINE columns == ResolvedColumns(t, fields)
           outputs == Outputs(t)
           n == Len(fields)
<1>1. /\ Listed(outputs) /\ Len(outputs) \in Nat /\ DOMAIN outputs = 1 .. Len(outputs)
      /\ n \in Nat /\ DOMAIN fields = 1 .. n
      /\ \A k \in DOMAIN outputs : outputs[k] = t.flatten[k].output
  BY TransformLists, ListedIs
<1>2. ASSUME t.select # Unset
      PROVE  /\ DOMAIN columns = DOMAIN t.select
             /\ ~UnknownFields(t, fields) =>
                  \A k \in DOMAIN t.select : columns[k].name = FinalName(t, t.select[k])
  <2>1. columns = [k \in DOMAIN t.select |-> SelectedColumn(t, fields, t.select[k])]
    BY <1>2 DEF ResolvedColumns
  <2>2. ASSUME ~UnknownFields(t, fields), NEW k \in DOMAIN t.select
        PROVE  columns[k].name = FinalName(t, t.select[k])
    <3> DEFINE name == t.select[k]
               p == FirstIndex(outputs, name)
               q == FirstIndex(fields, name)
    <3>1. name \in Range(fields) \union Range(outputs)
      <4>1. OrEmpty(t.select) = t.select
        BY <1>2 DEF OrEmpty
      <4>2. name \in Range(t.select)
        BY DEF Range
      <4>. QED
        BY <2>2, <4>1, <4>2 DEF UnknownFields
    <3>2. \/ p = 0 /\ \A j \in DOMAIN outputs : outputs[j] # name
          \/ p \in DOMAIN outputs /\ p > 0 /\ outputs[p] = name
      BY <1>1, FirstIndexIs
    <3>3. \/ q = 0 /\ \A j \in DOMAIN fields : fields[j] # name
          \/ q \in DOMAIN fields /\ q > 0 /\ fields[q] = name
      BY FirstIndexIs
    <3>4. columns[k] = IF p > 0 THEN FlattenColumn(t, fields, p) ELSE FieldColumn(t, fields, q)
      BY <2>1 DEF SelectedColumn
    <3> HIDE DEF columns, outputs, p, q, name
    <3>5. CASE p > 0
      <4>1. columns[k].name = FinalName(t, t.flatten[p].output) /\ t.flatten[p].output = name
        BY <1>1, <3>2, <3>4, <3>5 DEF FlattenColumn, Column
      <4>. QED
        BY <4>1 DEF columns, name
    <3>6. CASE ~(p > 0)
      <4>1. fields[q] = name
        <5>1. name \notin Range(outputs)
          BY <3>2, <3>6 DEF Range
        <5>2. PICK j \in DOMAIN fields : fields[j] = name
          BY <3>1, <5>1 DEF Range
        <5>. QED
          BY <3>3, <5>2
      <4>2. columns[k].name = FinalName(t, fields[q])
        BY <3>4, <3>6 DEF FieldColumn, Column
      <4>. QED
        BY <4>1, <4>2 DEF columns, name
    <3>. QED
      BY <3>5, <3>6
  <2>. QED
    BY <2>1, <2>2
<1>3. ASSUME t.select = Unset
      PROVE  /\ DOMAIN columns = 1 .. n + Len(outputs)
             /\ \A k \in 1 .. n : columns[k].name = FinalName(t, fields[k])
             /\ \A k \in 1 .. Len(outputs) : columns[n + k].name = FinalName(t, outputs[k])
  <2> DEFINE a == [k \in DOMAIN fields |-> FieldColumn(t, fields, k)]
             b == [k \in DOMAIN outputs |-> FlattenColumn(t, fields, k)]
  <2>1. columns = a \o b
    BY <1>3 DEF ResolvedColumns
  <2>2. /\ DOMAIN a = DOMAIN fields /\ a = [k \in DOMAIN fields |-> a[k]]
        /\ DOMAIN b = DOMAIN outputs /\ b = [k \in DOMAIN outputs |-> b[k]]
        /\ \A k \in DOMAIN fields : a[k].name = FinalName(t, fields[k])
        /\ \A k \in DOMAIN outputs : b[k].name = FinalName(t, t.flatten[k].output)
    BY DEF FieldColumn, FlattenColumn, Column
  <2> HIDE DEF a, b, columns, outputs
  <2>3. Listed(a) /\ Listed(b) /\ Len(a) = n /\ Len(b) = Len(outputs)
    <3>1. Listed(a)
      BY <2>2, MappedIs
    <3>2. Listed(b)
      BY <1>1, <2>2, MappedIs
    <3>3. Len(a) \in Nat /\ DOMAIN a = 1 .. Len(a) /\ Len(b) \in Nat /\ DOMAIN b = 1 .. Len(b)
      BY <3>1, <3>2, ListedIs
    <3>4. Len(a) = n
      BY <1>1, <2>2, <3>3
    <3>5. Len(b) = Len(outputs)
      BY <1>1, <2>2, <3>3
    <3>. QED
      BY <3>1, <3>2, <3>4, <3>5
  <2>4. /\ Listed(columns) /\ Len(columns) = Len(a) + Len(b)
        /\ \A k \in 1 .. Len(a) : columns[k] = a[k]
        /\ \A k \in 1 .. Len(b) : columns[Len(a) + k] = b[k]
    <3>1. Listed(a) /\ Listed(b)
      BY <2>3
    <3>2. /\ Listed(a \o b) /\ Len(a \o b) = Len(a) + Len(b)
          /\ \A k \in 1 .. Len(a) : (a \o b)[k] = a[k]
          /\ \A k \in 1 .. Len(b) : (a \o b)[Len(a) + k] = b[k]
      BY <3>1, ConcatListed
    <3>. QED
      BY <2>1, <3>2
  <2>5. DOMAIN columns = 1 .. Len(columns)
    BY <2>4, ListedIs
  <2>6. ASSUME NEW k \in 1 .. n PROVE columns[k].name = FinalName(t, fields[k])
    BY <1>1, <2>2, <2>3, <2>4
  <2>7. ASSUME NEW k \in 1 .. Len(outputs)
        PROVE  columns[n + k].name = FinalName(t, outputs[k])
    BY <1>1, <2>2, <2>3, <2>4
  <2>. QED
    BY <2>3, <2>4, <2>5, <2>6, <2>7
<1>. QED
  BY <1>1, <1>2, <1>3

\* The names of the columns are those the transform gives to the keys.
LEMMA NamesTaken ==
  ASSUME NEW t, Sound(t), NEW fields, Listed(fields), ~UnknownFields(t, fields)
  PROVE  NameSet(ResolvedColumns(t, fields)) = { FinalName(t, x) : x \in Taken(t, fields) }
<1> DEFINE columns == ResolvedColumns(t, fields)
           outputs == Outputs(t)
           n == Len(fields)
<1>1. CASE t.select # Unset
  <2>1. /\ DOMAIN columns = DOMAIN t.select
        /\ \A k \in DOMAIN t.select : columns[k].name = FinalName(t, t.select[k])
    BY <1>1, ColumnNamed
  <2>2. NameSet(columns) = { FinalName(t, t.select[k]) : k \in DOMAIN t.select }
    BY <2>1 DEF NameSet
  <2>3. Taken(t, fields) = { t.select[k] : k \in DOMAIN t.select }
    BY <1>1 DEF Taken, Range
  <2> HIDE DEF columns
  <2>. QED
    BY <2>2, <2>3 DEF columns
<1>2. CASE t.select = Unset
  <2>1. /\ n \in Nat /\ Len(outputs) \in Nat
        /\ DOMAIN fields = 1 .. n /\ DOMAIN outputs = 1 .. Len(outputs)
        /\ DOMAIN columns = 1 .. n + Len(outputs)
        /\ \A k \in 1 .. n : columns[k].name = FinalName(t, fields[k])
        /\ \A k \in 1 .. Len(outputs) : columns[n + k].name = FinalName(t, outputs[k])
    BY <1>2, ColumnNamed
  <2> HIDE DEF columns, outputs, n
  <2>2. ASSUME NEW k \in DOMAIN columns
        PROVE  \E x \in Range(fields) \union Range(outputs) : columns[k].name = FinalName(t, x)
    <3>1. CASE k <= n
      <4>1. k \in 1 .. n /\ fields[k] \in Range(fields)
        BY <2>1, <3>1 DEF Range
      <4>. QED
        BY <2>1, <4>1
    <3>2. CASE k > n
      <4>1. k - n \in 1 .. Len(outputs) /\ n + (k - n) = k
        BY <2>1, <3>2
      <4>2. outputs[k - n] \in Range(outputs) /\ columns[k].name = FinalName(t, outputs[k - n])
        BY <2>1, <4>1 DEF Range
      <4>. QED
        BY <4>2
    <3>. QED
      BY <2>1, <3>1, <3>2
  <2>3. ASSUME NEW x \in Range(fields) \union Range(outputs)
        PROVE  \E k \in DOMAIN columns : columns[k].name = FinalName(t, x)
    <3>1. CASE x \in Range(fields)
      <4>1. PICK k \in 1 .. n : fields[k] = x
        BY <2>1, <3>1 DEF Range
      <4>2. k \in DOMAIN columns /\ columns[k].name = FinalName(t, x)
        BY <2>1, <4>1
      <4>. QED
        BY <4>2
    <3>2. CASE x \in Range(outputs)
      <4>1. PICK k \in 1 .. Len(outputs) : outputs[k] = x
        BY <2>1, <3>2 DEF Range
      <4>2. n + k \in DOMAIN columns /\ columns[n + k].name = FinalName(t, x)
        BY <2>1, <4>1
      <4>. QED
        BY <4>2
    <3>. QED
      BY <3>1, <3>2
  <2>. QED
    BY <1>2, <2>2, <2>3 DEF Taken, NameSet, columns, outputs
<1>. QED
  BY <1>1, <1>2

\* The records in another order have the same keys, in another order: the same
\* dataset names, and a verdict on the transform that passes if it did.
LEMMA ColumnsAgain ==
  ASSUME NEW t, Sound(t), NEW fields, Listed(fields), NEW again, Listed(again),
         IsInjective(again), Range(again) = Range(fields),
         ~UnknownFields(t, fields), ~Collides(t, fields),
         Distinct(ResolvedColumns(t, fields))
  PROVE  /\ ~UnknownFields(t, again) /\ ~Collides(t, again)
         /\ Distinct(ResolvedColumns(t, again))
         /\ NameSet(ResolvedColumns(t, again)) = NameSet(ResolvedColumns(t, fields))
<1> DEFINE columns == ResolvedColumns(t, fields)
           others == ResolvedColumns(t, again)
           outputs == Outputs(t)
           F(x) == FinalName(t, x)
<1>1. ~UnknownFields(t, again)
  BY DEF UnknownFields
<1>2. NameSet(others) = NameSet(columns)
  <2>1. Taken(t, again) = Taken(t, fields)
    BY DEF Taken
  <2>2. NameSet(others) = { F(x) : x \in Taken(t, again) }
    BY <1>1, NamesTaken
  <2>3. NameSet(columns) = { F(x) : x \in Taken(t, fields) }
    BY NamesTaken
  <2>. QED
    BY <2>1, <2>2, <2>3
<1>3. Range(outputs) \intersect Range(again) = {}
  BY DEF Collides
<1>4. \A j, k \in DOMAIN columns : columns[j].name = columns[k].name => j = k
  BY DistinctIs
<1>5. \A j, k \in DOMAIN others : others[j].name = others[k].name => j = k
  <2>1. CASE t.select # Unset
    <3>1. /\ DOMAIN columns = DOMAIN t.select /\ DOMAIN others = DOMAIN t.select
          /\ \A k \in DOMAIN t.select : columns[k].name = F(t.select[k])
          /\ \A k \in DOMAIN t.select : others[k].name = F(t.select[k])
      BY <1>1, <2>1, ColumnNamed
    <3> HIDE DEF columns, others, F
    <3>. QED
      BY <1>4, <3>1
  <2>2. CASE t.select = Unset
    <3> DEFINE n == Len(fields)
               m == Len(again)
               o == Len(outputs)
    <3>1. /\ n \in Nat /\ o \in Nat
          /\ DOMAIN fields = 1 .. n /\ DOMAIN outputs = 1 .. o
          /\ DOMAIN columns = 1 .. n + o
          /\ \A k \in 1 .. n : columns[k].name = F(fields[k])
          /\ \A k \in 1 .. o : columns[n + k].name = F(outputs[k])
      BY <2>2, ColumnNamed
    <3>2. /\ m \in Nat /\ DOMAIN again = 1 .. m
          /\ DOMAIN others = 1 .. m + o
          /\ \A k \in 1 .. m : others[k].name = F(again[k])
          /\ \A k \in 1 .. o : others[m + k].name = F(outputs[k])
      BY <2>2, ColumnNamed
    <3>3. /\ \A j, k \in DOMAIN again : again[j] = again[k] => j = k
          /\ \A j, k \in DOMAIN outputs : outputs[j] = outputs[k] => j = k
      BY DEF IsInjective, Sound
    <3> HIDE DEF columns, others, F, n, m, o, outputs
    <3> DEFINE At(x) == \E k \in DOMAIN columns : /\ columns[k].name = F(x)
                                                  /\ \/ k <= n /\ fields[k] = x
                                                     \/ k > n /\ outputs[k - n] = x
    <3>4. \A x \in Range(fields) \union Range(outputs) : At(x)
      <4>1. ASSUME NEW x \in Range(fields) PROVE At(x)
        <5>1. PICK k \in 1 .. n : fields[k] = x
          BY <3>1 DEF Range
        <5>2. k \in DOMAIN columns /\ columns[k].name = F(x) /\ k <= n
          BY <3>1, <5>1
        <5>. QED
          BY <5>1, <5>2
      <4>2. ASSUME NEW x \in Range(outputs) PROVE At(x)
        <5>1. PICK k \in 1 .. o : outputs[k] = x
          BY <3>1 DEF Range
        <5>2. n + k \in DOMAIN columns /\ columns[n + k].name = F(x) /\ n + k > n /\ (n + k) - n = k
          BY <3>1, <5>1
        <5>. QED
          BY <5>1, <5>2
      <4>. QED
        BY <4>1, <4>2
    <3>5. ASSUME NEW x \in Range(fields) \union Range(outputs),
                 NEW y \in Range(fields) \union Range(outputs), F(x) = F(y)
          PROVE  x = y
      <4>1. At(x) /\ At(y)
        BY <3>4
      <4>. QED
        BY <1>4, <3>1, <3>5, <4>1
    <3> HIDE DEF At
    <3> DEFINE X(k) == IF k <= m THEN again[k] ELSE outputs[k - m]
    <3>6. ASSUME NEW k \in DOMAIN others
          PROVE  /\ others[k].name = F(X(k)) /\ X(k) \in Range(fields) \union Range(outputs)
                 /\ IF k <= m THEN k \in DOMAIN again /\ X(k) \in Range(again)
                              ELSE k - m \in DOMAIN outputs /\ X(k) \in Range(outputs)
      <4>1. CASE k <= m
        BY <3>2, <4>1 DEF Range
      <4>2. CASE ~(k <= m)
        <5>1. k - m \in 1 .. o /\ m + (k - m) = k
          BY <3>1, <3>2, <4>2
        <5>. QED
          BY <3>1, <3>2, <4>2, <5>1 DEF Range
      <4>. QED
        BY <4>1, <4>2
    <3>7. ASSUME NEW j \in DOMAIN others, NEW k \in DOMAIN others, others[j].name = others[k].name
          PROVE  j = k
      <4>1. X(j) = X(k)
        <5>1. /\ X(j) \in Range(fields) \union Range(outputs)
              /\ X(k) \in Range(fields) \union Range(outputs) /\ F(X(j)) = F(X(k))
          BY <3>6, <3>7
        <5> HIDE DEF X
        <5>. QED
          BY <3>5, <5>1
      <4>2. CASE j <= m /\ k <= m
        BY <3>3, <3>6, <4>1, <4>2
      <4>3. CASE ~(j <= m) /\ ~(k <= m)
        <5>1. j - m = k - m
          BY <3>3, <3>6, <4>1, <4>3
        <5>. QED
          BY <3>1, <3>2, <5>1
      <4>4. CASE j <= m /\ ~(k <= m)
        BY <1>3, <3>6, <4>1, <4>4
      <4>5. CASE ~(j <= m) /\ k <= m
        BY <1>3, <3>6, <4>1, <4>5
      <4>. QED
        BY <4>2, <4>3, <4>4, <4>5
    <3>. QED
      BY <3>7
  <2>. QED
    BY <2>1, <2>2
<1>6. Distinct(others)
  BY <1>5, DistinctIs
<1>7. ~Collides(t, again)
  BY <1>3, <1>5 DEF Collides
<1>. QED
  BY <1>1, <1>2, <1>6, <1>7

\* Two shapes of the same columns.
SameShape(columns, others) ==
  /\ Listed(columns) /\ Listed(others) /\ Distinct(columns) /\ Distinct(others)
  /\ NameSet(columns) = NameSet(others)
  /\ \A x \in Range(columns), y \in Range(others) :
       x.name = y.name => x.source = y.source /\ (Csv => x.index = y.index)

\* Columns under another order of the keys differ in their index alone.
LEMMA ShapeAgain ==
  ASSUME NEW t, Sound(t), NEW fields, Listed(fields), NEW again, Listed(again),
         ~UnknownFields(t, fields), ~Collides(t, fields),
         Distinct(ResolvedColumns(t, fields)),
         Csv => again = fields,
         ~Csv => IsInjective(again) /\ Range(again) = Range(fields)
  PROVE  /\ ~UnknownFields(t, again) /\ ~Collides(t, again)
         /\ SameShape(ResolvedColumns(t, fields), ResolvedColumns(t, again))
<1> DEFINE columns == ResolvedColumns(t, fields)
           others == ResolvedColumns(t, again)
<1>1. CASE Csv
  <2>1. others = columns /\ again = fields
    BY <1>1
  <2>2. Listed(columns)
    BY ColumnsAre
  <2>3. \A x, y \in Range(columns) : x.name = y.name => x = y
    BY DistinctIs
  <2> HIDE DEF columns, others
  <2>4. SameShape(columns, others)
    BY <2>1, <2>2, <2>3 DEF SameShape, columns
  <2>. QED
    BY <2>1, <2>4 DEF columns, others
<1>2. CASE ~Csv
  <2>1. /\ ~UnknownFields(t, again) /\ ~Collides(t, again)
        /\ Distinct(others) /\ NameSet(others) = NameSet(columns)
    BY <1>2, ColumnsAgain
  <2>2. Listed(columns) /\ Listed(others)
    BY <2>1, ColumnsAre
  <2>3. \A i \in DOMAIN columns : JsonSource(t, columns[i].name) = columns[i].source
    BY NameResolves
  <2>4. \A i \in DOMAIN others : JsonSource(t, others[i].name) = others[i].source
    BY <2>1, NameResolves
  <2> HIDE DEF columns, others
  <2>5. ASSUME NEW x \in Range(columns), NEW y \in Range(others), x.name = y.name
        PROVE  x.source = y.source
    <3>1. PICK j \in DOMAIN columns : columns[j] = x
      BY DEF Range
    <3>2. PICK k \in DOMAIN others : others[k] = y
      BY DEF Range
    <3>. QED
      BY <2>3, <2>4, <2>5, <3>1, <3>2
  <2>6. SameShape(columns, others)
    BY <1>2, <2>1, <2>2, <2>5 DEF SameShape, columns
  <2>. QED
    BY <2>1, <2>6 DEF columns, others
<1>. QED
  BY <1>1, <1>2

-----------------------------------------------------------------------------
(* The directive of a load under the pin the one before it wrote.          *)

\* Columns picked out keep their names distinct.
LEMMA PickedDistinct ==
  ASSUME NEW list, Listed(list), Distinct(list), NEW indices \in SUBSET DOMAIN list
  PROVE  Distinct(Picked(list, indices))
<1> DEFINE picked == Picked(list, indices)
<1>1. \A n \in DOMAIN picked : \E k \in indices : picked[n] = list[k] /\ RankIn(indices, k) = n
  BY PickedAt
<1>2. \A j, k \in DOMAIN list : list[j].name = list[k].name => j = k
  BY DistinctIs
<1> HIDE DEF picked
<1>3. ASSUME NEW m \in DOMAIN picked, NEW n \in DOMAIN picked, picked[m].name = picked[n].name
      PROVE  m = n
  <2>1. PICK j \in indices : picked[m] = list[j] /\ RankIn(indices, j) = m
    BY <1>1
  <2>2. PICK k \in indices : picked[n] = list[k] /\ RankIn(indices, k) = n
    BY <1>1
  <2>3. j = k
    BY <1>2, <1>3, <2>1, <2>2
  <2>. QED
    BY <2>1, <2>2, <2>3
<1>4. Distinct(picked)
  BY <1>3, DistinctIs
<1>. QED
  BY <1>4 DEF picked

\* Two lists of other names concatenate to a list of names that differ.
LEMMA ConcatDistinct ==
  ASSUME NEW s, NEW u, Listed(s), Listed(u), Distinct(s), Distinct(u),
         NameSet(s) \intersect NameSet(u) = {}
  PROVE  Distinct(s \o u) /\ NameSet(s \o u) = NameSet(s) \union NameSet(u)
<1> DEFINE c == s \o u
<1>1. /\ Listed(c) /\ Len(c) = Len(s) + Len(u)
      /\ \A k \in 1 .. Len(s) : c[k] = s[k]
      /\ \A k \in 1 .. Len(u) : c[Len(s) + k] = u[k]
      /\ Range(c) = Range(s) \union Range(u)
  BY ConcatListed
<1> HIDE DEF c
<1>2. /\ Len(s) \in Nat /\ DOMAIN s = 1 .. Len(s) /\ Len(u) \in Nat /\ DOMAIN u = 1 .. Len(u)
      /\ DOMAIN c = 1 .. Len(c)
  BY <1>1, ListedIs
<1>3. /\ \A j, k \in DOMAIN s : s[j].name = s[k].name => j = k
      /\ \A j, k \in DOMAIN u : u[j].name = u[k].name => j = k
  BY DistinctIs
<1>4. \A list : NameSet(list) = { x.name : x \in Range(list) }
  BY DEF NameSet, Range
<1>5. NameSet(c) = NameSet(s) \union NameSet(u)
  BY <1>1, <1>4
<1>6. ASSUME NEW k \in DOMAIN c
      PROVE  \/ k \in DOMAIN s /\ c[k] = s[k] /\ k <= Len(s) /\ c[k].name \in NameSet(s)
             \/ /\ k - Len(s) \in DOMAIN u /\ c[k] = u[k - Len(s)] /\ k > Len(s)
                /\ c[k].name \in NameSet(u)
  <2>1. CASE k <= Len(s)
    BY <1>1, <1>2, <2>1 DEF NameSet
  <2>2. CASE k > Len(s)
    <3>1. k - Len(s) \in DOMAIN u /\ Len(s) + (k - Len(s)) = k
      BY <1>1, <1>2, <2>2
    <3>2. c[k] = u[k - Len(s)]
      BY <1>1, <1>2, <3>1
    <3>. QED
      BY <2>2, <3>1, <3>2 DEF NameSet
  <2>. QED
    BY <1>1, <1>2, <2>1, <2>2
<1>7. ASSUME NEW j \in DOMAIN c, NEW k \in DOMAIN c, c[j].name = c[k].name PROVE j = k
  <2>1. CASE j <= Len(s) /\ k <= Len(s)
    BY <1>2, <1>3, <1>6, <1>7, <2>1
  <2>2. CASE j > Len(s) /\ k > Len(s)
    <3>1. j - Len(s) = k - Len(s)
      BY <1>2, <1>3, <1>6, <1>7, <2>2
    <3>. QED
      BY <1>1, <1>2, <3>1
  <2>3. CASE j <= Len(s) /\ k > Len(s)
    BY <1>2, <1>6, <1>7, <2>3
  <2>4. CASE j > Len(s) /\ k <= Len(s)
    BY <1>2, <1>6, <1>7, <2>4
  <2>. QED
    BY <1>1, <1>2, <2>1, <2>2, <2>3, <2>4
<1>8. Distinct(c)
  BY <1>7, DistinctIs
<1>. QED
  BY <1>5, <1>8 DEF c

\* What was found by name.
LEMMA NamedIs ==
  ASSUME NEW list, Listed(list), Distinct(list), NEW x \in Range(list)
  PROVE  /\ x.name \in NameSet(list)
         /\ ColumnOf(list, x.name) = x /\ FieldNamed(list, x.name) = x
<1>1. x.name \in NameSet(list)
  BY DEF Range, NameSet
<1>2. PICK k \in DOMAIN list : ColumnOf(list, x.name) = list[k] /\ list[k].name = x.name
  BY <1>1, ColumnOfIs
<1>3. list[k] \in Range(list) /\ list[k] = x
  <2>1. list[k] \in Range(list)
    BY DEF Range
  <2>. QED
    BY <1>2, <2>1, DistinctIs
<1>4. FieldNamed(list, x.name) = ColumnOf(list, x.name)
  BY DEF FieldNamed, ColumnOf
<1>. QED
  BY <1>1, <1>2, <1>3, <1>4

\* The names of a list depend on its names alone.
LEMMA NameSetIs ==
  ASSUME NEW list
  PROVE  /\ NameSet(list) = { x.name : x \in Range(list) }
         /\ \A name \in NameSet(list) : \E x \in Range(list) : x.name = name
         /\ \A x \in Range(list) : x.name \in NameSet(list)
BY DEF NameSet, Range

\* The plan has one field for each column.
LEMMA PlannedNames ==
  ASSUME NEW dir, Listed(dir.pin), Distinct(dir.pin),
         NEW columns, Listed(columns), Distinct(columns),
         NameSet(dir.pin) \subseteq NameSet(columns), NEW types
  PROVE  /\ Distinct(PlannedFields(dir, columns, types))
         /\ NameSet(PlannedFields(dir, columns, types)) = NameSet(columns)
<1> DEFINE added == AddedColumns(dir, columns)
           F(k) == Field(ColumnOf(columns, dir.pin[k].name), dir.pin[k].type,
                         dir.pin[k].nullable)
           G(k) == InferredField(dir, added[k], types)
           f == [k \in DOMAIN dir.pin |-> F(k)]
           g == [k \in DOMAIN added |-> G(k)]
           indices == { k \in DOMAIN columns : columns[k].name \notin NameSet(dir.pin) }
<1>1. PlannedFields(dir, columns, types) = f \o g
  BY DEF PlannedFields
<1>2. /\ Listed(added)
      /\ Range(added) = { entry \in Range(columns) : entry.name \notin NameSet(dir.pin) }
  BY OutsideIs DEF AddedColumns
<1>3. Distinct(added)
  <2>1. added = Picked(columns, indices) /\ indices \in SUBSET DOMAIN columns
    BY DEF AddedColumns, Outside
  <2> HIDE DEF indices, added
  <2>2. Distinct(Picked(columns, indices))
    BY <2>1, PickedDistinct
  <2>. QED
    BY <2>1, <2>2
<1>4. \A k \in DOMAIN dir.pin : F(k).name = dir.pin[k].name
  <2> SUFFICES ASSUME NEW k \in DOMAIN dir.pin PROVE F(k).name = dir.pin[k].name
    OBVIOUS
  <2>1. dir.pin[k].name \in NameSet(columns)
    BY DEF NameSet
  <2>2. ColumnOf(columns, dir.pin[k].name).name = dir.pin[k].name
    BY <2>1, ColumnOfIs
  <2>. QED
    BY <2>2 DEF Field
<1>5. \A k \in DOMAIN added : G(k).name = added[k].name
  BY DEF InferredField, Field
<1> HIDE DEF added, F, G
<1>6. Listed(f) /\ Distinct(f) /\ NameSet(f) = NameSet(dir.pin)
  <2>1. DOMAIN f = DOMAIN dir.pin /\ f = [k \in DOMAIN dir.pin |-> f[k]]
        /\ \A k \in DOMAIN dir.pin : f[k].name = dir.pin[k].name
    BY <1>4
  <2> HIDE DEF f
  <2>2. Listed(f)
    BY <2>1, MappedIs
  <2>3. Distinct(f)
    <3>1. \A j, k \in DOMAIN dir.pin : dir.pin[j].name = dir.pin[k].name => j = k
      BY DistinctIs
    <3>2. \A j, k \in DOMAIN f : f[j].name = f[k].name => j = k
      BY <2>1, <3>1
    <3>. QED
      BY <3>2, DistinctIs
  <2>4. NameSet(f) = NameSet(dir.pin)
    <3>1. NameSet(f) = { f[k].name : k \in DOMAIN dir.pin }
      BY <2>1 DEF NameSet
    <3>2. NameSet(dir.pin) = { dir.pin[k].name : k \in DOMAIN dir.pin }
      BY DEF NameSet
    <3>. QED
      BY <2>1, <3>1, <3>2
  <2>. QED
    BY <2>2, <2>3, <2>4
<1>7. Listed(g) /\ Distinct(g) /\ NameSet(g) = NameSet(added)
  <2>1. DOMAIN g = DOMAIN added /\ g = [k \in DOMAIN added |-> g[k]]
        /\ \A k \in DOMAIN added : g[k].name = added[k].name
    BY <1>5
  <2> HIDE DEF g
  <2>2. Listed(g)
    BY <1>2, <2>1, MappedIs
  <2>3. Distinct(g)
    BY <1>3, <2>1, DistinctIs
  <2>. QED
    BY <2>1, <2>2, <2>3 DEF NameSet
<1>8. NameSet(added) = NameSet(columns) \ NameSet(dir.pin)
  <2>1. NameSet(added) = { x.name : x \in Range(added) }
    BY NameSetIs
  <2>2. NameSet(columns) = { x.name : x \in Range(columns) }
    BY NameSetIs
  <2>. QED
    BY <1>2, <2>1, <2>2
<1> HIDE DEF f, g
<1>9. Distinct(f \o g) /\ NameSet(f \o g) = NameSet(f) \union NameSet(g)
  <2>1. NameSet(f) \intersect NameSet(g) = {}
    BY <1>6, <1>7, <1>8
  <2>. QED
    BY <1>6, <1>7, <2>1, ConcatDistinct
<1>. QED
  BY <1>1, <1>6, <1>7, <1>8, <1>9

\* What more there is to a directive: its mode, a pin that names no field twice.
Steered(dir) ==
  /\ Directed(dir) /\ dir.mode \in {"inferred", "pinned", "pin_inferred"}
  /\ Distinct(dir.pin)
  /\ \A k \in DOMAIN dir.overrides :
       dir.overrides[k].nullable.ok => dir.overrides[k].nullable.value \in BOOLEAN
  /\ dir.transform.select # Unset => dir.transform.select # <<>>

\* The directive of the next load, under the pin the plan writes.
NextDirective(dir, plan) ==
  IF plan.pinWrite.ok
    THEN [mode |-> "pinned", pin |-> plan.pinWrite.value, additive |-> dir.additive,
          overrides |-> dir.overrides, transform |-> dir.transform]
    ELSE dir

\* Everything the verdict asks.
LEMMA VerdictIs ==
  ASSUME NEW dir, Directed(dir), NEW keys, NEW fields
  PROVE  LET columns == ResolvedColumns(dir.transform, fields)
         IN Verdict(dir, keys, fields) = "ok" <=>
              /\ Agreed(dir, keys, fields) /\ ~Conflicts(dir)
              /\ dir.mode = "pinned" => ~ShapeDrifts(dir, columns) /\ ~Undeclared(dir)
<1> DEFINE columns == ResolvedColumns(dir.transform, fields)
           shape == TransformVerdict(dir.transform, fields)
           a == Code(~(NameSet(dir.overrides) \subseteq NameSet(columns)),
                     "unknown_override_field")
           b == Code(~(Range(keys) \subseteq NameSet(columns)), "unknown_merge_key_field")
           c == Code(Conflicts(dir), "schema_override_conflict")
           e == Code(/\ dir.mode = "pinned"
                     /\ ShapeDrifts(dir, columns) \/ Undeclared(dir), "schema_drift")
<1>1. shape = "ok" <=> ~UnknownFields(dir.transform, fields) /\ ~Collides(dir.transform, fields)
  BY DEF TransformVerdict
<1>2. /\ a = "ok" <=> NameSet(dir.overrides) \subseteq NameSet(columns)
      /\ b = "ok" <=> Range(keys) \subseteq NameSet(columns)
      /\ c = "ok" <=> ~Conflicts(dir)
      /\ e = "ok" <=> (dir.mode = "pinned" => ~ShapeDrifts(dir, columns) /\ ~Undeclared(dir))
      /\ a \in Codes /\ b \in Codes /\ c \in Codes /\ e \in Codes
  BY DEF Code, Codes
<1>3. Verdict(dir, keys, fields) = IF shape # "ok" THEN shape
                                   ELSE FirstCode(<<a, b, c, e>>)
  BY DEF Verdict
<1>4. Verdict(dir, keys, fields) = "ok" => NameSet(dir.pin) \subseteq NameSet(columns)
  BY VerdictResult DEF Agreed
<1>5. Agreed(dir, keys, fields) <=>
        /\ ~UnknownFields(dir.transform, fields) /\ ~Collides(dir.transform, fields)
        /\ NameSet(dir.overrides) \subseteq NameSet(columns)
        /\ Range(keys) \subseteq NameSet(columns)
        /\ NameSet(dir.pin) \subseteq NameSet(columns)
  BY DEF Agreed
<1> HIDE DEF columns, shape, a, b, c, e
<1>6. FirstCode(<<a, b, c, e>>) = "ok" <=> a = "ok" /\ b = "ok" /\ c = "ok" /\ e = "ok"
  <2>1. <<a, b, c, e>> \in Seq(Codes) /\ DOMAIN <<a, b, c, e>> = 1 .. 4
        /\ <<a, b, c, e>>[1] = a /\ <<a, b, c, e>>[2] = b
        /\ <<a, b, c, e>>[3] = c /\ <<a, b, c, e>>[4] = e
    BY <1>2
  <2> DEFINE codes == <<a, b, c, e>>
  <2>2. codes \in Seq(Codes) /\ DOMAIN codes = 1 .. 4
        /\ codes[1] = a /\ codes[2] = b /\ codes[3] = c /\ codes[4] = e
    BY <2>1
  <2> HIDE DEF codes
  <2>3. \/ FirstCode(codes) = "ok" /\ \A k \in DOMAIN codes : codes[k] = "ok"
        \/ FirstCode(codes) # "ok" /\ FirstCode(codes) \in Codes
    BY <2>2, FirstCodeResult
  <2>4. ASSUME a = "ok", b = "ok", c = "ok", e = "ok" PROVE FirstCode(codes) = "ok"
    <3>1. <<a, b, c, e>> \in Seq({"ok"})
      BY <2>4
    <3>2. codes \in Seq({"ok"})
      BY <3>1 DEF codes
    <3>3. \/ FirstCode(codes) = "ok"
          \/ FirstCode(codes) # "ok" /\ FirstCode(codes) \in {"ok"}
      BY <3>2, FirstCodeResult, Zenon
    <3>. QED
      BY <3>3
  <2>5. FirstCode(codes) = "ok" => a = "ok" /\ b = "ok" /\ c = "ok" /\ e = "ok"
    BY <2>2, <2>3
  <2>. QED
    BY <2>4, <2>5 DEF codes
<1>. QED
  BY <1>1, <1>2, <1>3, <1>4, <1>5, <1>6 DEF columns

\* A load that pins writes its fields; any other leaves the pin it had.
LEMMA PlanPins ==
  ASSUME NEW dir, NEW keys, NEW fields, NEW types,
         ResolvePlan(dir, keys, fields, types).code = "ok"
  PROVE  LET plan == ResolvePlan(dir, keys, fields, types)
             columns == ResolvedColumns(dir.transform, fields)
         IN \/ /\ plan.pinWrite.ok
               /\ plan.pinWrite.value = PinOf(PlannedFields(dir, columns, types))
               /\ dir.mode \in {"pinned", "pin_inferred"}
               /\ dir.mode = "pinned" => AddedColumns(dir, columns) # <<>>
            \/ /\ ~plan.pinWrite.ok /\ dir.mode # "pin_inferred"
               /\ dir.mode = "pinned" => AddedColumns(dir, columns) = <<>>
<1> DEFINE columns == ResolvedColumns(dir.transform, fields)
           planned == PlannedFields(dir, columns, types)
           plan == ResolvePlan(dir, keys, fields, types)
           verdict == Verdict(dir, keys, fields)
           write == \/ dir.mode = "pin_inferred"
                    \/ dir.mode = "pinned" /\ AddedColumns(dir, columns) # <<>>
<1>1. verdict = "ok"
  BY PlanIs
<1>2. plan = [code |-> "ok", columns |-> columns,
              checks |-> ResolvedChecks(dir, keys, columns),
              fields |-> planned, pinWrite |-> When(write, PinOf(planned))]
  BY <1>1 DEF ResolvePlan
<1>3. plan.pinWrite = When(write, PinOf(planned))
  BY <1>2
<1>4. CASE write
  <2>1. plan.pinWrite = Some(PinOf(planned))
    BY <1>3, <1>4 DEF When
  <2>. QED
    BY <1>4, <2>1 DEF Some
<1>5. CASE ~write
  <2>1. plan.pinWrite = None
    BY <1>3, <1>5 DEF When
  <2>2. ~None.ok
    BY DEF None
  <2> HIDE DEF plan
  <2>3. ~plan.pinWrite.ok
    BY <2>1, <2>2
  <2>. QED
    BY <1>5, <2>3 DEF plan
<1>. QED
  BY <1>4, <1>5

\* A written pin has the name, type and nullability of each field.
LEMMA PinOfIs ==
  ASSUME NEW fields, Listed(fields)
  PROVE  /\ Listed(PinOf(fields)) /\ NameSet(PinOf(fields)) = NameSet(fields)
         /\ Distinct(fields) => Distinct(PinOf(fields))
         /\ DOMAIN PinOf(fields) = DOMAIN fields
         /\ \A k \in DOMAIN fields : /\ PinOf(fields)[k].name = fields[k].name
                                     /\ PinOf(fields)[k].type = fields[k].type
                                     /\ PinOf(fields)[k].nullable = fields[k].nullable
<1> DEFINE p == PinOf(fields)
<1>1. /\ DOMAIN p = DOMAIN fields /\ p = [k \in DOMAIN fields |-> p[k]]
      /\ \A k \in DOMAIN fields : /\ p[k].name = fields[k].name
                                  /\ p[k].type = fields[k].type
                                  /\ p[k].nullable = fields[k].nullable
  BY DEF PinOf
<1> HIDE DEF p
<1>2. Listed(p)
  BY <1>1, MappedIs
<1>3. NameSet(p) = NameSet(fields)
  BY <1>1 DEF NameSet
<1>4. ASSUME Distinct(fields) PROVE Distinct(p)
  <2>1. \A j, k \in DOMAIN fields : fields[j].name = fields[k].name => j = k
    BY <1>4, DistinctIs
  <2>2. \A j, k \in DOMAIN p : p[j].name = p[k].name => j = k
    BY <1>1, <2>1
  <2>. QED
    BY <2>2, DistinctIs
<1>. QED
  BY <1>1, <1>2, <1>3, <1>4 DEF p

\* Where the field of a column comes from: the pin, or what was observed.
FieldFrom(dir, column, types, field) ==
  /\ field.name = column.name /\ field.source = column.source /\ field.index = column.index
  /\ \/ \E k \in DOMAIN dir.pin :
          /\ dir.pin[k].name = column.name
          /\ field.type = dir.pin[k].type /\ field.nullable = dir.pin[k].nullable
     \/ /\ column.name \notin NameSet(dir.pin)
        /\ field = InferredField(dir, column, types)

\* Each planned field is of a column: pinned, overridden or observed.
LEMMA FieldsFrom ==
  ASSUME NEW dir, Listed(dir.pin), Distinct(dir.pin),
         NEW columns, Listed(columns), Distinct(columns),
         NameSet(dir.pin) \subseteq NameSet(columns), NEW types
  PROVE  LET planned == PlannedFields(dir, columns, types)
         IN /\ Listed(planned) /\ Distinct(planned) /\ NameSet(planned) = NameSet(columns)
            /\ \A field \in Range(planned) :
                 \E column \in Range(columns) : FieldFrom(dir, column, types, field)
            /\ \A column \in Range(columns) :
                 \E field \in Range(planned) : FieldFrom(dir, column, types, field)
<1> DEFINE planned == PlannedFields(dir, columns, types)
           F(k) == Field(ColumnOf(columns, dir.pin[k].name), dir.pin[k].type,
                         dir.pin[k].nullable)
<1>1. /\ Listed(planned)
      /\ \A field \in Range(planned) :
           \/ \E k \in DOMAIN dir.pin : field = F(k)
           \/ \E column \in Range(columns) : /\ column.name \notin NameSet(dir.pin)
                                             /\ field = InferredField(dir, column, types)
      /\ \A k \in DOMAIN dir.pin : F(k) \in Range(planned)
      /\ \A column \in Range(columns) : column.name \notin NameSet(dir.pin) =>
           InferredField(dir, column, types) \in Range(planned)
  BY PlannedAre
<1>2. Distinct(planned) /\ NameSet(planned) = NameSet(columns)
  BY PlannedNames
<1>3. ASSUME NEW k \in DOMAIN dir.pin
      PROVE  \E column \in Range(columns) : /\ ColumnOf(columns, dir.pin[k].name) = column
                                            /\ column.name = dir.pin[k].name
                                            /\ FieldFrom(dir, column, types, F(k))
  <2>1. dir.pin[k].name \in NameSet(columns)
    BY DEF NameSet
  <2>2. PICK j \in DOMAIN columns : ColumnOf(columns, dir.pin[k].name) = columns[j]
                                    /\ columns[j].name = dir.pin[k].name
    BY <2>1, ColumnOfIs
  <2>3. columns[j] \in Range(columns)
    BY DEF Range
  <2>4. FieldFrom(dir, columns[j], types, F(k))
    BY <2>2 DEF FieldFrom, Field
  <2>. QED
    BY <2>2, <2>3, <2>4
<1>4. ASSUME NEW column \in Range(columns), column.name \notin NameSet(dir.pin)
      PROVE  FieldFrom(dir, column, types, InferredField(dir, column, types))
  BY <1>4 DEF FieldFrom, InferredField, Field
<1> HIDE DEF planned, F
<1>5. \A field \in Range(planned) :
        \E column \in Range(columns) : FieldFrom(dir, column, types, field)
  BY <1>1, <1>3, <1>4
<1>6. ASSUME NEW column \in Range(columns)
      PROVE  \E field \in Range(planned) : FieldFrom(dir, column, types, field)
  <2>1. CASE column.name \notin NameSet(dir.pin)
    BY <1>1, <1>4, <2>1
  <2>2. CASE column.name \in NameSet(dir.pin)
    <3>1. PICK k \in DOMAIN dir.pin : dir.pin[k].name = column.name
      BY <2>2 DEF NameSet
    <3>2. ColumnOf(columns, dir.pin[k].name) = column
      BY <3>1, NamedIs
    <3>. QED
      BY <1>1, <1>3, <3>1, <3>2
  <2>. QED
    BY <2>1, <2>2
<1>. QED
  BY <1>1, <1>2, <1>5, <1>6 DEF planned

\* Under the written pin the overrides and the transform stay.
LEMMA OverridesNext ==
  ASSUME NEW dir, NEW plan
  PROVE  LET next == NextDirective(dir, plan)
         IN /\ next.overrides = dir.overrides /\ next.transform = dir.transform
            /\ next.additive = dir.additive
            /\ \A name : OverrideOf(next, name) = OverrideOf(dir, name)
<1> DEFINE next == NextDirective(dir, plan)
<1>1. /\ next.overrides = dir.overrides /\ next.transform = dir.transform
      /\ next.additive = dir.additive
  BY DEF NextDirective
<1> HIDE DEF next
<1>2. \A name : OverrideOf(next, name) = OverrideOf(dir, name)
  BY <1>1 DEF OverrideOf
<1>. QED
  BY <1>1, <1>2 DEF next

\* A load of some keys has some column.
LEMMA ColumnsFound ==
  ASSUME NEW t, Sound(t), t.select # Unset => t.select # <<>>,
         NEW fields, Listed(fields), fields # <<>>
  PROVE  NameSet(ResolvedColumns(t, fields)) # {}
<1> DEFINE columns == ResolvedColumns(t, fields)
<1>0. \A list : Listed(list) /\ list # <<>> => 1 \in DOMAIN list
  <2> SUFFICES ASSUME NEW list, Listed(list), list # <<>> PROVE 1 \in DOMAIN list
    OBVIOUS
  <2>1. Len(list) \in Nat /\ DOMAIN list = 1 .. Len(list) /\ list \in Seq(Range(list))
    BY ListedIs DEF Listed
  <2>2. Len(list) # 0
    BY <2>1
  <2>. QED
    BY <2>1, <2>2
<1>1. 1 \in DOMAIN columns
  <2>1. CASE t.select # Unset
    <3>1. OrEmpty(t.select) = t.select
      BY <2>1 DEF OrEmpty
    <3>2. Listed(t.select)
      BY <3>1 DEF Sound
    <3>3. 1 \in DOMAIN t.select
      BY <1>0, <2>1, <3>2
    <3>4. DOMAIN columns = DOMAIN t.select
      BY <2>1, ColumnNamed
    <3>. QED
      BY <3>3, <3>4
  <2>2. CASE t.select = Unset
    <3>1. /\ Len(fields) \in Nat /\ Len(Outputs(t)) \in Nat
          /\ DOMAIN fields = 1 .. Len(fields)
          /\ DOMAIN columns = 1 .. Len(fields) + Len(Outputs(t))
      BY <2>2, ColumnNamed
    <3>2. 1 \in DOMAIN fields
      BY <1>0
    <3> HIDE DEF columns
    <3>. QED
      BY <3>1, <3>2
  <2>. QED
    BY <2>1, <2>2
<1>. QED
  BY <1>1 DEF NameSet

\* No column is added when the pin names them all.
LEMMA NoneAdded ==
  ASSUME NEW columns, Listed(columns), NEW dir
  PROVE  AddedColumns(dir, columns) = <<>> <=> NameSet(columns) \subseteq NameSet(dir.pin)
<1> DEFINE list == AddedColumns(dir, columns)
<1>1. Listed(list) /\ Range(list) = { x \in Range(columns) : x.name \notin NameSet(dir.pin) }
  BY OutsideIs DEF AddedColumns
<1> HIDE DEF list
<1>2. list = <<>> <=> Range(list) = {}
  <2>1. /\ Len(list) \in Nat /\ DOMAIN list = 1 .. Len(list) /\ list \in Seq(Range(list))
    BY <1>1, ListedIs DEF Listed
  <2>2. CASE Len(list) = 0
    <3>1. list = <<>>
      BY <2>1, <2>2
    <3>2. Range(<<>>) = {}
      BY DEF Range
    <3>. QED
      BY <3>1, <3>2
  <2>3. CASE Len(list) # 0
    <3>1. 1 \in DOMAIN list
      BY <2>1, <2>3
    <3>2. Range(list) # {} /\ list # <<>>
      BY <2>3, <3>1 DEF Range
    <3>. QED
      BY <3>2
  <2>. QED
    BY <2>2, <2>3
<1>3. NameSet(columns) \subseteq NameSet(dir.pin)
        <=> \A x \in Range(columns) : x.name \in NameSet(dir.pin)
  BY NameSetIs
<1>. QED
  BY <1>1, <1>2, <1>3 DEF list

\* The pin a load writes reads back.
LEMMA PinReadsBack ==
  ASSUME NEW dir, Steered(dir), NEW keys, NEW fields, Listed(fields), fields # <<>>, NEW types,
         ResolvePlan(dir, keys, fields, types).code = "ok",
         Distinct(ResolvedColumns(dir.transform, fields)),
         \A c \in Range(ResolvedColumns(dir.transform, fields)) : types[c.index] \in Observable
  PROVE  LET plan == ResolvePlan(dir, keys, fields, types)
         IN /\ Steered(NextDirective(dir, plan))
            /\ plan.pinWrite.ok => PinReads(plan.pinWrite.value)
<1> DEFINE columns == ResolvedColumns(dir.transform, fields)
           planned == PlannedFields(dir, columns, types)
           plan == ResolvePlan(dir, keys, fields, types)
<1>1. Verdict(dir, keys, fields) = "ok"
  BY PlanIs
<1>2. Directed(dir) /\ Listed(dir.pin) /\ Distinct(dir.pin)
  BY DEF Steered, Directed
<1>3. Agreed(dir, keys, fields)
  BY <1>1, <1>2, VerdictResult
<1>4. Listed(columns) /\ NameSet(dir.pin) \subseteq NameSet(columns) /\ NameSet(columns) # {}
  <2>1. Listed(columns)
    BY <1>2, <1>3, ColumnsAre DEF Agreed, Directed
  <2>2. NameSet(columns) # {}
    BY <1>2, ColumnsFound DEF Steered, Directed
  <2>. QED
    BY <1>3, <2>1, <2>2 DEF Agreed
<1>5. \/ plan.pinWrite.ok /\ plan.pinWrite.value = PinOf(planned)
      \/ ~plan.pinWrite.ok
  BY PlanPins
<1>6. \A c \in Range(columns) : types[c.index] \in Observable
  OBVIOUS
<1> HIDE DEF columns, planned, plan
<1>7. CASE ~plan.pinWrite.ok
  BY <1>7 DEF NextDirective, plan
<1>8. CASE plan.pinWrite.ok /\ plan.pinWrite.value = PinOf(planned)
  <2>1. /\ Listed(planned) /\ Distinct(planned) /\ NameSet(planned) = NameSet(columns)
        /\ \A field \in Range(planned) :
             \E column \in Range(columns) : FieldFrom(dir, column, types, field)
    <3>1. Distinct(columns)
      BY DEF columns
    <3>. QED
      BY <1>2, <1>4, <3>1, FieldsFrom DEF planned
  <2>2. ASSUME NEW field \in Range(planned) PROVE KnownType(field.type)
    <3>1. PICK column \in Range(columns) : FieldFrom(dir, column, types, field)
      BY <2>1
    <3>2. CASE \E k \in DOMAIN dir.pin : field.type = dir.pin[k].type
      BY <1>2, <3>2 DEF Directed
    <3>3. CASE field = InferredField(dir, column, types)
      <4> DEFINE entry == OverrideOf(dir, column.name)
      <4>1. field.type = IF entry.type.ok THEN entry.type.value
                                          ELSE FieldType(types[column.index])
        BY <3>3 DEF InferredField, Field
      <4>2. entry.type.ok => KnownType(entry.type.value)
        <5>1. ~None.ok
          BY DEF None
        <5>2. Listed(dir.overrides)
          BY <1>2 DEF Directed
        <5>3. \/ entry = [name |-> column.name, type |-> None, nullable |-> None]
              \/ \E k \in DOMAIN dir.overrides : entry = dir.overrides[k]
          BY <5>2, OverrideOfIs
        <5> HIDE DEF entry
        <5>. QED
          BY <1>2, <5>1, <5>3 DEF Directed
      <4>3. KnownType(FieldType(types[column.index]))
        BY <1>6, FieldTypeKnown
      <4> HIDE DEF entry
      <4>. QED
        BY <4>1, <4>2, <4>3
    <3>. QED
      BY <3>1, <3>2, <3>3 DEF FieldFrom
  <2> DEFINE written == PinOf(planned)
  <2>3. /\ Listed(written) /\ NameSet(written) = NameSet(planned) /\ Distinct(written)
        /\ DOMAIN written = DOMAIN planned
        /\ \A k \in DOMAIN planned : written[k].type = planned[k].type
    BY <2>1, PinOfIs
  <2> HIDE DEF written
  <2>4. \A k \in DOMAIN written : KnownType(written[k].type)
    <3>1. \A k \in DOMAIN planned : planned[k] \in Range(planned)
      BY DEF Range
    <3>. QED
      BY <2>2, <2>3, <3>1
  <2>5. written # <<>>
    <3>1. NameSet(<<>>) = {}
      BY DEF NameSet
    <3>. QED
      BY <1>4, <2>1, <2>3, <3>1
  <2>6. PinReads(written)
    BY <2>3, <2>4, <2>5 DEF PinReads, Distinct
  <2>7. plan.pinWrite.value = written
    BY <1>8 DEF written
  <2> DEFINE next == NextDirective(dir, plan)
  <2>8. /\ next.mode = "pinned" /\ next.pin = written /\ next.overrides = dir.overrides
        /\ next.transform = dir.transform
    BY <1>8, <2>7 DEF NextDirective
  <2> HIDE DEF next
  <2>9. Directed(next)
    BY <1>2, <2>3, <2>4, <2>8 DEF Directed
  <2>10. Steered(next)
    BY <2>3, <2>8, <2>9 DEF Steered
  <2>. QED
    BY <2>6, <2>7, <2>10 DEF next, plan
<1>. QED
  BY <1>5, <1>7, <1>8

\* Under that directive the verdict passes again.
LEMMA VerdictAgain ==
  ASSUME NEW dir, Steered(dir), NEW keys, NEW fields, Listed(fields), fields # <<>>, NEW types,
         ResolvePlan(dir, keys, fields, types).code = "ok",
         Distinct(ResolvedColumns(dir.transform, fields)),
         \A c \in Range(ResolvedColumns(dir.transform, fields)) : types[c.index] \in Observable,
         NEW again, Listed(again), Csv => again = fields,
         ~Csv => IsInjective(again) /\ Range(again) = Range(fields)
  PROVE  Verdict(NextDirective(dir, ResolvePlan(dir, keys, fields, types)), keys, again) = "ok"
<1> DEFINE t == dir.transform
           columns == ResolvedColumns(t, fields)
           others == ResolvedColumns(t, again)
           planned == PlannedFields(dir, columns, types)
           plan == ResolvePlan(dir, keys, fields, types)
           next == NextDirective(dir, plan)
<1>1. Verdict(dir, keys, fields) = "ok"
  BY PlanIs
<1>2. Directed(dir) /\ Listed(dir.pin) /\ Distinct(dir.pin) /\ Sound(t)
  BY DEF Steered, Directed
<1>3. /\ Agreed(dir, keys, fields) /\ ~Conflicts(dir)
      /\ dir.mode = "pinned" => ~ShapeDrifts(dir, columns) /\ ~Undeclared(dir)
  BY <1>1, <1>2, VerdictIs
<1>4. /\ ~UnknownFields(t, fields) /\ ~Collides(t, fields)
      /\ NameSet(dir.overrides) \subseteq NameSet(columns)
      /\ Range(keys) \subseteq NameSet(columns)
      /\ NameSet(dir.pin) \subseteq NameSet(columns)
  BY <1>3 DEF Agreed
<1>5. ~UnknownFields(t, again) /\ ~Collides(t, again) /\ SameShape(columns, others)
  BY <1>2, <1>4, ShapeAgain
<1>6. /\ Listed(columns) /\ Distinct(columns) /\ Listed(others) /\ Distinct(others)
      /\ NameSet(others) = NameSet(columns)
  BY <1>5 DEF SameShape
<1>7. /\ next.overrides = dir.overrides /\ next.transform = t
      /\ \A name : OverrideOf(next, name) = OverrideOf(dir, name)
  BY OverridesNext
<1>8. Directed(next)
  BY PinReadsBack DEF Steered
<1>9. \/ plan.pinWrite.ok /\ plan.pinWrite.value = PinOf(planned)
      \/ ~plan.pinWrite.ok /\ (dir.mode = "pinned" => AddedColumns(dir, columns) = <<>>)
  BY PlanPins
<1>10. IsInjective([k \in DOMAIN others |-> others[k].name])
  BY <1>6 DEF Distinct
<1>11. \A d : AddedColumns(d, others) = <<>> <=> NameSet(others) \subseteq NameSet(d.pin)
  BY <1>6, NoneAdded
<1> HIDE DEF t, columns, others, planned, plan, next
<1>12. CASE ~plan.pinWrite.ok /\ (dir.mode = "pinned" => AddedColumns(dir, columns) = <<>>)
  <2>1. next = dir
    BY <1>12 DEF NextDirective, next
  <2>2. Agreed(next, keys, again)
    BY <1>4, <1>5, <1>6, <1>7, <2>1 DEF Agreed, others
  <2>3. ASSUME dir.mode = "pinned" PROVE ~ShapeDrifts(next, others)
    <3>1. /\ NameSet(dir.pin) \subseteq NameSet(columns)
          /\ ~dir.additive => AddedColumns(dir, columns) = <<>>
      BY <1>4, <1>12, <2>3
    <3>2. AddedColumns(dir, columns) = <<>>
      BY <1>12, <2>3
    <3>3. NameSet(columns) \subseteq NameSet(dir.pin)
      BY <1>6, <3>2, NoneAdded
    <3>4. AddedColumns(dir, others) = <<>>
      BY <1>6, <1>11, <3>3
    <3>. QED
      BY <1>6, <1>10, <2>1, <3>1, <3>4 DEF ShapeDrifts
  <2>4. Verdict(next, keys, again) = "ok"
    <3>1. next.transform = t
      BY <1>7
    <3>2. /\ Agreed(next, keys, again) /\ ~Conflicts(next)
          /\ next.mode = "pinned" =>
               ~ShapeDrifts(next, ResolvedColumns(next.transform, again)) /\ ~Undeclared(next)
      BY <1>3, <2>1, <2>2, <2>3, <3>1 DEF others
    <3>. QED
      BY <1>8, <3>2, VerdictIs
  <2>. QED
    BY <2>4 DEF next, plan
<1>13. CASE plan.pinWrite.ok /\ plan.pinWrite.value = PinOf(planned)
  <2> DEFINE written == PinOf(planned)
  <2>1. /\ next.mode = "pinned" /\ next.pin = written
    BY <1>13 DEF NextDirective, next
  <2>2. /\ Listed(planned) /\ NameSet(planned) = NameSet(columns)
        /\ \A field \in Range(planned) :
             \E column \in Range(columns) : FieldFrom(dir, column, types, field)
    BY <1>2, <1>4, <1>6, FieldsFrom DEF planned
  <2>3. /\ NameSet(written) = NameSet(planned) /\ DOMAIN written = DOMAIN planned
        /\ \A k \in DOMAIN planned : /\ written[k].name = planned[k].name
                                     /\ written[k].type = planned[k].type
                                     /\ written[k].nullable = planned[k].nullable
    BY <2>2, PinOfIs
  <2> HIDE DEF written
  <2>4. Agreed(next, keys, again)
    BY <1>4, <1>5, <1>6, <1>7, <2>1, <2>2, <2>3 DEF Agreed, others
  <2>5. ASSUME NEW k \in DOMAIN written
        PROVE  LET entry == OverrideOf(dir, written[k].name)
               IN /\ entry.type.ok => entry.type.value = written[k].type
                  /\ entry.nullable.ok => entry.nullable.value = written[k].nullable
                  /\ ~HasLatticeType(written[k].type) =>
                       entry.type.ok \/ dir.mode = "pinned"
                  /\ ~HasLatticeType(written[k].type) /\ dir.mode = "pinned" => entry.type.ok
    <3> DEFINE field == planned[k]
               entry == OverrideOf(dir, written[k].name)
    <3>1. /\ field \in Range(planned) /\ written[k].name = field.name
          /\ written[k].type = field.type /\ written[k].nullable = field.nullable
      BY <2>3 DEF Range
    <3> HIDE DEF field
    <3>2. PICK column \in Range(columns) : FieldFrom(dir, column, types, field)
      BY <2>2, <3>1
    <3>3. entry = OverrideOf(dir, column.name) /\ written[k].name = column.name
      BY <3>1, <3>2 DEF FieldFrom
    <3> HIDE DEF entry
    <3>4. CASE \E j \in DOMAIN dir.pin :
                 /\ dir.pin[j].name = column.name
                 /\ field.type = dir.pin[j].type /\ field.nullable = dir.pin[j].nullable
      <4>1. PICK j \in DOMAIN dir.pin :
                 /\ dir.pin[j].name = column.name
                 /\ field.type = dir.pin[j].type /\ field.nullable = dir.pin[j].nullable
        BY <3>4
      <4>2. /\ entry.type.ok => entry.type.value = dir.pin[j].type
            /\ entry.nullable.ok => entry.nullable.value = dir.pin[j].nullable
        BY <1>3, <3>3, <4>1 DEF Conflicts
      <4>3. dir.mode = "pinned"
        <5>1. dir.pin # <<>>
          <6>1. DOMAIN <<>> = {}
            OBVIOUS
          <6>. QED
            BY <4>1, <6>1
        <5>. QED
          BY <1>2, <5>1 DEF Directed
      <4>4. ~HasLatticeType(dir.pin[j].type) => entry.type.ok
        BY <1>3, <3>3, <4>1, <4>3 DEF Undeclared
      <4>. QED
        BY <3>1, <4>1, <4>2, <4>3, <4>4 DEF entry
    <3>5. CASE field = InferredField(dir, column, types)
      <4>1. /\ field.type = IF entry.type.ok THEN entry.type.value
                                             ELSE FieldType(types[column.index])
            /\ field.nullable = (entry.nullable.ok => entry.nullable.value)
        BY <3>3, <3>5 DEF InferredField, Field
      <4>2. entry.nullable.ok => entry.nullable.value \in BOOLEAN
        <5>1. ~None.ok
          BY DEF None
        <5>2. Listed(dir.overrides)
          BY <1>2 DEF Directed
        <5>3. \/ entry = [name |-> column.name, type |-> None, nullable |-> None]
              \/ \E j \in DOMAIN dir.overrides : entry = dir.overrides[j]
          BY <3>3, <5>2, OverrideOfIs
        <5>. QED
          BY <5>1, <5>3 DEF Steered
      <4>3. HasLatticeType(FieldType(types[column.index]))
        <5>1. types[column.index] \in Observable
          BY DEF columns, t
        <5>. QED
          BY <5>1 DEF HasLatticeType, FieldType, Type, Observable, Inferable
      <4>4. entry.nullable.ok => entry.nullable.value = field.nullable
        BY <4>1, <4>2
      <4>. QED
        BY <3>1, <4>1, <4>3, <4>4 DEF entry
    <3>. QED
      BY <3>2, <3>4, <3>5 DEF FieldFrom
  <2>6. ~Conflicts(next)
    BY <1>7, <2>1, <2>5 DEF Conflicts
  <2>7. ~Undeclared(next)
    BY <1>7, <2>1, <2>5 DEF Undeclared
  <2>8. ~ShapeDrifts(next, others)
    <3>1. NameSet(next.pin) = NameSet(others)
      BY <1>6, <2>1, <2>2, <2>3
    <3>2. AddedColumns(next, others) = <<>>
      BY <1>11, <3>1
    <3>. QED
      BY <1>10, <3>1, <3>2 DEF ShapeDrifts
  <2>9. Verdict(next, keys, again) = "ok"
    BY <1>7, <1>8, <2>4, <2>6, <2>7, <2>8, VerdictIs DEF others
  <2>. QED
    BY <2>9 DEF next, plan
<1>. QED
  BY <1>9, <1>12, <1>13

-----------------------------------------------------------------------------
(* The checks under the written pin reject what they rejected before.      *)

\* Addresses that read the same of every record.
SameSource(x, y) == x.source = y.source /\ (Csv => x.index = y.index)

\* Addresses that read the same, read the same.
LEMMA SameSourceReads ==
  ASSUME NEW x, NEW y, SameSource(x, y), NEW record
  PROVE  ValueAt(record, x) = ValueAt(record, y)
BY DEF ValueAt, SameSource

\* Columns that differ in their index alone have the same names.
LEMMA ShapeNames ==
  ASSUME NEW columns, NEW others, SameShape(columns, others), NEW name \in NameSet(columns)
  PROVE  /\ ColumnOf(columns, name) \in Range(columns) /\ ColumnOf(columns, name).name = name
         /\ ColumnOf(others, name) \in Range(others) /\ ColumnOf(others, name).name = name
         /\ SameSource(ColumnOf(columns, name), ColumnOf(others, name))
<1>1. Listed(columns) /\ Listed(others) /\ name \in NameSet(others)
  BY DEF SameShape
<1>2. PICK j \in DOMAIN columns : ColumnOf(columns, name) = columns[j] /\ columns[j].name = name
  BY <1>1, ColumnOfIs
<1>3. PICK k \in DOMAIN others : ColumnOf(others, name) = others[k] /\ others[k].name = name
  BY <1>1, ColumnOfIs
<1>4. columns[j] \in Range(columns) /\ others[k] \in Range(others)
  BY DEF Range
<1>. QED
  BY <1>2, <1>3, <1>4 DEF SameShape, SameSource

\* And the other way around.
LEMMA ShapeTurns ==
  ASSUME NEW columns, NEW others, SameShape(columns, others)
  PROVE  SameShape(others, columns)
BY DEF SameShape

\* Checks that ask the same of the same place.
SameCheck(x, y) ==
  SameSource(x, y) /\ x.expected = y.expected /\ x.required = y.required

\* A record violates both of two checks alike, or neither.
LEMMA SameViolate ==
  ASSUME NEW x, NEW y, SameCheck(x, y), NEW record
  PROVE  Violates(record, x) <=> Violates(record, y)
<1>1. ValueAt(record, x) = ValueAt(record, y)
  BY SameSourceReads DEF SameCheck
<1>. QED
  BY <1>1 DEF Violates, SameCheck

\* What each kind of check reads, and what it asks for there.
LEMMA CheckFields ==
  ASSUME NEW at
  PROVE  /\ SameSource(KeyCheck(at), at)
         /\ KeyCheck(at).expected = None /\ KeyCheck(at).required = "merge key"
         /\ \A field : /\ SameSource(PinCheck(at, field), at)
                       /\ PinCheck(at, field).expected = Some(field.type)
                       /\ PinCheck(at, field).required = Requires(field.nullable)
         /\ \A entry : /\ SameSource(OverrideCheck(at, entry), at)
                       /\ OverrideCheck(at, entry).expected = entry.type
                       /\ OverrideCheck(at, entry).required =
                            Requires(entry.nullable.ok => entry.nullable.value)
BY DEF KeyCheck, PinCheck, OverrideCheck, Check, SameSource

\* Merge keys resolve to the same sources among columns in another order.
LEMMA KeysAlike ==
  ASSUME NEW x, NEW y, SameSource(x, y)
  PROVE  /\ SameCheck(KeyCheck(x), KeyCheck(y))
         /\ \A field, f : field.type = f.type /\ field.nullable = f.nullable =>
              SameCheck(PinCheck(x, field), PinCheck(y, f))
         /\ \A entry : SameCheck(OverrideCheck(x, entry), OverrideCheck(y, entry))
BY DEF SameCheck, KeyCheck, PinCheck, OverrideCheck, Check, SameSource

\* Under the same directive, each check of one shape is a check of the other.
LEMMA ChecksFollow ==
  ASSUME NEW dir, Directed(dir), NEW keys, Listed(keys),
         NEW columns, NEW others, SameShape(columns, others),
         Range(keys) \subseteq NameSet(columns), NameSet(dir.pin) \subseteq NameSet(columns),
         NEW record, ViolatesAny(record, ResolvedChecks(dir, keys, columns))
  PROVE  ViolatesAny(record, ResolvedChecks(dir, keys, others))
<1> DEFINE R == Range(ResolvedChecks(dir, keys, columns))
           S == Range(ResolvedChecks(dir, keys, others))
<1>1. Listed(columns) /\ Listed(others)
  BY DEF SameShape
<1>2. R = { KeyCheck(ColumnOf(columns, keys[k])) : k \in DOMAIN keys }
            \union { PinCheck(ColumnOf(columns, dir.pin[k].name), dir.pin[k]) :
                      k \in DOMAIN dir.pin }
            \union { OverrideCheck(c, OverrideOf(dir, c.name)) : c \in Overridden(dir, columns) }
  BY <1>1, ResolvedChecksAre
<1>3. S = { KeyCheck(ColumnOf(others, keys[k])) : k \in DOMAIN keys }
            \union { PinCheck(ColumnOf(others, dir.pin[k].name), dir.pin[k]) :
                      k \in DOMAIN dir.pin }
            \union { OverrideCheck(c, OverrideOf(dir, c.name)) : c \in Overridden(dir, others) }
  BY <1>1, ResolvedChecksAre
<1>4. PICK check \in R : Violates(record, check)
  BY ViolatesAnyIs
<1> HIDE DEF R, S
<1> SUFFICES \E other \in S : SameCheck(check, other)
  BY <1>4, SameViolate, ViolatesAnyIs DEF S
<1>5. CASE \E k \in DOMAIN keys : check = KeyCheck(ColumnOf(columns, keys[k]))
  <2>1. PICK k \in DOMAIN keys : check = KeyCheck(ColumnOf(columns, keys[k]))
    BY <1>5
  <2>2. keys[k] \in NameSet(columns)
    BY DEF Range
  <2>3. SameSource(ColumnOf(columns, keys[k]), ColumnOf(others, keys[k]))
    BY <2>2, ShapeNames
  <2>4. KeyCheck(ColumnOf(others, keys[k])) \in S
    BY <1>3
  <2>. QED
    BY <2>1, <2>3, <2>4, KeysAlike
<1>6. CASE \E k \in DOMAIN dir.pin :
             check = PinCheck(ColumnOf(columns, dir.pin[k].name), dir.pin[k])
  <2>1. PICK k \in DOMAIN dir.pin :
             check = PinCheck(ColumnOf(columns, dir.pin[k].name), dir.pin[k])
    BY <1>6
  <2>2. dir.pin[k].name \in NameSet(columns)
    BY DEF NameSet
  <2>3. SameSource(ColumnOf(columns, dir.pin[k].name), ColumnOf(others, dir.pin[k].name))
    BY <2>2, ShapeNames
  <2>4. PinCheck(ColumnOf(others, dir.pin[k].name), dir.pin[k]) \in S
    BY <1>3
  <2>. QED
    BY <2>1, <2>3, <2>4, KeysAlike
<1>7. CASE \E c \in Overridden(dir, columns) : check = OverrideCheck(c, OverrideOf(dir, c.name))
  <2>1. PICK c \in Overridden(dir, columns) : check = OverrideCheck(c, OverrideOf(dir, c.name))
    BY <1>7
  <2>2. /\ c \in Range(columns) /\ c.name \in NameSet(columns)
        /\ c.name \notin NameSet(dir.pin) /\ c.name \in NameSet(dir.overrides)
    BY NameSetIs DEF Overridden
  <2> DEFINE d == ColumnOf(others, c.name)
  <2>3. d \in Range(others) /\ d.name = c.name
    BY <2>2, ShapeNames
  <2>4. SameSource(c, d)
    BY <2>2, <2>3 DEF SameShape, SameSource
  <2> HIDE DEF d
  <2>5. d \in Overridden(dir, others)
    BY <2>2, <2>3 DEF Overridden
  <2>6. OverrideCheck(d, OverrideOf(dir, c.name)) \in S
    BY <1>3, <2>3, <2>5
  <2>. QED
    BY <2>1, <2>4, <2>6, KeysAlike
<1>. QED
  BY <1>2, <1>4, <1>5, <1>6, <1>7

\* Under the pin a load wrote, the next one rejects the records it rejected.
LEMMA WrittenRejects ==
  ASSUME NEW dir, Directed(dir), Distinct(dir.pin), NEW keys, Listed(keys),
         NEW columns, NEW others, SameShape(columns, others),
         Range(keys) \subseteq NameSet(columns), NameSet(dir.pin) \subseteq NameSet(columns),
         NEW types, NEW next, Directed(next),
         next.pin = PinOf(PlannedFields(dir, columns, types)),
         NEW record, ViolatesAny(record, ResolvedChecks(dir, keys, columns))
  PROVE  ViolatesAny(record, ResolvedChecks(next, keys, others))
<1> DEFINE R == Range(ResolvedChecks(dir, keys, columns))
           S == Range(ResolvedChecks(next, keys, others))
           planned == PlannedFields(dir, columns, types)
<1>1. Listed(columns) /\ Listed(others) /\ Distinct(columns) /\ Listed(dir.pin)
  BY DEF SameShape, Directed
<1>2. R = { KeyCheck(ColumnOf(columns, keys[k])) : k \in DOMAIN keys }
            \union { PinCheck(ColumnOf(columns, dir.pin[k].name), dir.pin[k]) :
                      k \in DOMAIN dir.pin }
            \union { OverrideCheck(c, OverrideOf(dir, c.name)) : c \in Overridden(dir, columns) }
  BY <1>1, ResolvedChecksAre
<1>3. S = { KeyCheck(ColumnOf(others, keys[k])) : k \in DOMAIN keys }
            \union { PinCheck(ColumnOf(others, next.pin[k].name), next.pin[k]) :
                      k \in DOMAIN next.pin }
            \union { OverrideCheck(c, OverrideOf(next, c.name)) : c \in Overridden(next, others) }
  BY <1>1, ResolvedChecksAre
<1>4. PICK check \in R : Violates(record, check)
  BY ViolatesAnyIs
<1>5. /\ Listed(planned) /\ Distinct(planned)
      /\ \A column \in Range(columns) :
           \E field \in Range(planned) : FieldFrom(dir, column, types, field)
  BY <1>1, FieldsFrom
<1> HIDE DEF R, S, planned
<1>6. ASSUME NEW field \in Range(planned)
      PROVE  \E p \in DOMAIN next.pin :
               /\ next.pin[p].name = field.name /\ next.pin[p].type = field.type
               /\ next.pin[p].nullable = field.nullable
  <2>1. PICK p \in DOMAIN planned : planned[p] = field
    BY DEF Range
  <2>2. /\ p \in DOMAIN PinOf(planned) /\ PinOf(planned)[p].name = field.name
        /\ PinOf(planned)[p].type = field.type /\ PinOf(planned)[p].nullable = field.nullable
    BY <1>5, <2>1, PinOfIs
  <2>. QED
    BY <2>2 DEF planned
<1> SUFFICES \E other \in S : Violates(record, other)
  BY ViolatesAnyIs DEF S
<1>7. CASE \E k \in DOMAIN keys : check = KeyCheck(ColumnOf(columns, keys[k]))
  <2>1. PICK k \in DOMAIN keys : check = KeyCheck(ColumnOf(columns, keys[k]))
    BY <1>7
  <2>2. keys[k] \in NameSet(columns)
    BY DEF Range
  <2>3. SameSource(ColumnOf(columns, keys[k]), ColumnOf(others, keys[k]))
    BY <2>2, ShapeNames
  <2>4. KeyCheck(ColumnOf(others, keys[k])) \in S
    BY <1>3
  <2>5. SameCheck(check, KeyCheck(ColumnOf(others, keys[k])))
    BY <2>1, <2>3, KeysAlike
  <2>. QED
    BY <1>4, <2>4, <2>5, SameViolate
<1>8. CASE \E k \in DOMAIN dir.pin :
             check = PinCheck(ColumnOf(columns, dir.pin[k].name), dir.pin[k])
  <2>1. PICK k \in DOMAIN dir.pin :
             check = PinCheck(ColumnOf(columns, dir.pin[k].name), dir.pin[k])
    BY <1>8
  <2> DEFINE name == dir.pin[k].name
             c == ColumnOf(columns, name)
  <2>2. name \in NameSet(columns)
    BY DEF NameSet
  <2>3. c \in Range(columns) /\ c.name = name /\ SameSource(c, ColumnOf(others, name))
    BY <2>2, ShapeNames
  <2>4. PICK field \in Range(planned) : FieldFrom(dir, c, types, field)
    BY <1>5, <2>3
  <2>5. field.name = name /\ field.type = dir.pin[k].type /\ field.nullable = dir.pin[k].nullable
    <3>1. name \in NameSet(dir.pin)
      BY DEF NameSet
    <3>2. \A j \in DOMAIN dir.pin : dir.pin[j].name = name => j = k
      BY DistinctIs
    <3> HIDE DEF c
    <3>. QED
      BY <2>3, <2>4, <3>1, <3>2 DEF FieldFrom
  <2>6. PICK p \in DOMAIN next.pin :
               /\ next.pin[p].name = field.name /\ next.pin[p].type = field.type
               /\ next.pin[p].nullable = field.nullable
    BY <1>6
  <2>7. PinCheck(ColumnOf(others, name), next.pin[p]) \in S
    BY <1>3, <2>5, <2>6
  <2>8. SameCheck(PinCheck(c, dir.pin[k]), PinCheck(ColumnOf(others, name), next.pin[p]))
    <3> HIDE DEF c, name
    <3>. QED
      BY <2>3, <2>5, <2>6, KeysAlike
  <2>. QED
    BY <1>4, <2>1, <2>7, <2>8, SameViolate
<1>9. CASE \E c \in Overridden(dir, columns) : check = OverrideCheck(c, OverrideOf(dir, c.name))
  <2>1. PICK c \in Overridden(dir, columns) : check = OverrideCheck(c, OverrideOf(dir, c.name))
    BY <1>9
  <2>2. c \in Range(columns) /\ c.name \in NameSet(columns) /\ c.name \notin NameSet(dir.pin)
    BY NameSetIs DEF Overridden
  <2> DEFINE d == ColumnOf(others, c.name)
             entry == OverrideOf(dir, c.name)
  <2>3. d \in Range(others) /\ d.name = c.name
    BY <2>2, ShapeNames
  <2>4. SameSource(c, d)
    BY <2>2, <2>3 DEF SameShape, SameSource
  <2>5. PICK field \in Range(planned) : FieldFrom(dir, c, types, field)
    BY <1>5, <2>2
  <2>6. /\ field.name = c.name
        /\ field.type = IF entry.type.ok THEN entry.type.value ELSE FieldType(types[c.index])
        /\ field.nullable = (entry.nullable.ok => entry.nullable.value)
    <3>1. field = InferredField(dir, c, types)
      BY <2>2, <2>5 DEF FieldFrom, NameSet
    <3>. QED
      BY <3>1 DEF InferredField, Field
  <2>7. PICK p \in DOMAIN next.pin :
               /\ next.pin[p].name = field.name /\ next.pin[p].type = field.type
               /\ next.pin[p].nullable = field.nullable
    BY <1>6
  <2>8. PinCheck(d, next.pin[p]) \in S
    BY <1>3, <2>6, <2>7
  <2>9. Violates(record, OverrideCheck(c, entry))
    BY <1>4, <2>1
  <2> HIDE DEF d, entry
  <2>10. /\ OverrideCheck(c, entry).expected = entry.type
         /\ OverrideCheck(c, entry).required =
              Requires(entry.nullable.ok => entry.nullable.value)
         /\ PinCheck(d, next.pin[p]).expected = Some(next.pin[p].type)
         /\ PinCheck(d, next.pin[p]).required = Requires(next.pin[p].nullable)
         /\ SameSource(OverrideCheck(c, entry), c) /\ SameSource(PinCheck(d, next.pin[p]), d)
    <3>1. /\ OverrideCheck(c, entry).expected = entry.type
          /\ OverrideCheck(c, entry).required =
               Requires(entry.nullable.ok => entry.nullable.value)
          /\ SameSource(OverrideCheck(c, entry), c)
      BY CheckFields, Zenon
    <3>2. /\ PinCheck(d, next.pin[p]).expected = Some(next.pin[p].type)
          /\ PinCheck(d, next.pin[p]).required = Requires(next.pin[p].nullable)
          /\ SameSource(PinCheck(d, next.pin[p]), d)
      <4>1. \A of : /\ SameSource(PinCheck(d, of), d)
                    /\ PinCheck(d, of).expected = Some(of.type)
                    /\ PinCheck(d, of).required = Requires(of.nullable)
        BY CheckFields, Zenon
      <4>. QED
        BY <4>1, Zenon
    <3>. QED
      BY <3>1, <3>2
  <2>11. SameSource(OverrideCheck(c, entry), PinCheck(d, next.pin[p]))
    BY <2>4, <2>10 DEF SameSource
  <2>12. ValueAt(record, OverrideCheck(c, entry)) = ValueAt(record, PinCheck(d, next.pin[p]))
    BY <2>11, SameSourceReads
  <2>13. Some(next.pin[p].type).ok /\ Some(next.pin[p].type).value = next.pin[p].type
    BY DEF Some
  <2>14. PinCheck(d, next.pin[p]).required = OverrideCheck(c, entry).required
    BY <2>6, <2>7, <2>10
  <2>15. OverrideCheck(c, entry).expected.ok =>
           PinCheck(d, next.pin[p]).expected.value = OverrideCheck(c, entry).expected.value
    BY <2>6, <2>7, <2>10, <2>13
  <2>16. Violates(record, PinCheck(d, next.pin[p]))
    <3> DEFINE x == OverrideCheck(c, entry)
               y == PinCheck(d, next.pin[p])
    <3>1. /\ Violates(record, x) /\ ValueAt(record, x) = ValueAt(record, y)
          /\ y.required = x.required /\ y.expected.ok
          /\ x.expected.ok => y.expected.value = x.expected.value
      BY <2>9, <2>10, <2>12, <2>13, <2>14, <2>15
    <3> HIDE DEF x, y
    <3>2. Violates(record, y)
      BY <3>1 DEF Violates
    <3>. QED
      BY <3>2 DEF y
  <2>. QED
    BY <2>8, <2>16
<1>. QED
  BY <1>2, <1>4, <1>7, <1>8, <1>9

\* Every field of a plan admits the value of a record that meets its checks.
LEMMA FieldsAdmit ==
  ASSUME NEW dir, Directed(dir), NEW keys, Listed(keys), NEW columns, Listed(columns),
         NEW record, ~ViolatesAny(record, ResolvedChecks(dir, keys, columns)),
         NEW types, \A column \in Range(columns) : Holds(types, column, record),
         NEW field \in Range(PlannedFields(dir, columns, types))
  PROVE  Admits(field, record)
<1>1. \/ \E k \in DOMAIN dir.pin :
           field = Field(ColumnOf(columns, dir.pin[k].name),
                         dir.pin[k].type, dir.pin[k].nullable)
      \/ \E column \in Range(columns) :
           /\ column.name \notin NameSet(dir.pin)
           /\ field = InferredField(dir, column, types)
  BY PlannedAre DEF Directed
<1>. QED
  BY <1>1, PinnedAdmits, AddedAdmits

\* Under the pin a load wrote, the next one keeps the records it kept.
LEMMA WrittenKeeps ==
  ASSUME NEW dir, Directed(dir), Distinct(dir.pin), NEW keys, Listed(keys),
         NEW columns, NEW others, SameShape(columns, others),
         Range(keys) \subseteq NameSet(columns), NameSet(dir.pin) \subseteq NameSet(columns),
         NEW types, NEW next, Directed(next),
         next.pin = PinOf(PlannedFields(dir, columns, types)),
         NEW record, ~ViolatesAny(record, ResolvedChecks(dir, keys, columns)),
         \A column \in Range(columns) : Holds(types, column, record)
  PROVE  ~ViolatesAny(record, ResolvedChecks(next, keys, others))
<1> DEFINE R == Range(ResolvedChecks(dir, keys, columns))
           S == Range(ResolvedChecks(next, keys, others))
           planned == PlannedFields(dir, columns, types)
<1>1. Listed(columns) /\ Listed(others) /\ Distinct(columns) /\ Listed(dir.pin)
      /\ NameSet(columns) = NameSet(others)
  BY DEF SameShape, Directed
<1>2. \A k \in DOMAIN keys : KeyCheck(ColumnOf(columns, keys[k])) \in R
  BY <1>1, ResolvedChecksAre
<1>3. S = { KeyCheck(ColumnOf(others, keys[k])) : k \in DOMAIN keys }
            \union { PinCheck(ColumnOf(others, next.pin[k].name), next.pin[k]) :
                      k \in DOMAIN next.pin }
            \union { OverrideCheck(c, OverrideOf(next, c.name)) : c \in Overridden(next, others) }
  BY <1>1, ResolvedChecksAre
<1>4. \A check \in R : ~Violates(record, check)
  BY ViolatesAnyIs
<1>5. /\ Listed(planned) /\ Distinct(planned) /\ NameSet(planned) = NameSet(columns)
      /\ \A field \in Range(planned) :
           \E column \in Range(columns) : FieldFrom(dir, column, types, field)
  BY <1>1, FieldsFrom
<1>6. \A field \in Range(planned) : Admits(field, record)
  BY <1>1, FieldsAdmit
<1>7. /\ DOMAIN next.pin = DOMAIN planned /\ NameSet(next.pin) = NameSet(planned)
      /\ \A k \in DOMAIN planned : /\ next.pin[k].name = planned[k].name
                                   /\ next.pin[k].type = planned[k].type
                                   /\ next.pin[k].nullable = planned[k].nullable
  <2> HIDE DEF planned
  <2>1. next.pin = PinOf(planned)
    BY DEF planned
  <2>. QED
    BY <1>5, <2>1, PinOfIs
<1> HIDE DEF R, S, planned
<1> SUFFICES \A check \in S : ~Violates(record, check)
  BY ViolatesAnyIs DEF S
<1> SUFFICES ASSUME NEW check \in S PROVE ~Violates(record, check)
  OBVIOUS
<1>8. CASE \E k \in DOMAIN keys : check = KeyCheck(ColumnOf(others, keys[k]))
  <2>1. PICK k \in DOMAIN keys : check = KeyCheck(ColumnOf(others, keys[k]))
    BY <1>8
  <2>2. keys[k] \in NameSet(columns)
    BY DEF Range
  <2>3. SameSource(ColumnOf(columns, keys[k]), ColumnOf(others, keys[k]))
    BY <2>2, ShapeNames
  <2>4. SameCheck(KeyCheck(ColumnOf(columns, keys[k])), check)
    BY <2>1, <2>3, KeysAlike
  <2>. QED
    BY <1>2, <1>4, <2>4, SameViolate
<1>9. CASE \E k \in DOMAIN next.pin :
             check = PinCheck(ColumnOf(others, next.pin[k].name), next.pin[k])
  <2>1. PICK k \in DOMAIN next.pin :
             check = PinCheck(ColumnOf(others, next.pin[k].name), next.pin[k])
    BY <1>9
  <2> DEFINE field == planned[k]
             d == ColumnOf(others, field.name)
  <2>2. field \in Range(planned)
    BY <1>7 DEF Range
  <2>3. PICK c \in Range(columns) : FieldFrom(dir, c, types, field)
    BY <1>5, <2>2
  <2>4. /\ field.name = c.name /\ SameSource(field, c)
    BY <2>3 DEF FieldFrom, SameSource
  <2>5. d \in Range(others) /\ d.name = c.name
    <3>1. c.name \in NameSet(columns)
      BY NameSetIs
    <3>. QED
      BY <2>4, <3>1, ShapeNames
  <2>6. SameSource(c, d)
    BY <2>5 DEF SameShape, SameSource
  <2>7. check = PinCheck(d, next.pin[k]) /\ Admits(field, record)
        /\ next.pin[k].type = field.type /\ next.pin[k].nullable = field.nullable
    BY <1>6, <1>7, <2>1, <2>2
  <2> HIDE DEF field, d
  <2>8. /\ SameSource(check, d) /\ check.expected = Some(field.type)
        /\ check.required = Requires(next.pin[k].nullable)
    <3> DEFINE given == next.pin[k]
    <3>1. check = PinCheck(d, given) /\ given.type = field.type
      BY <2>7
    <3> HIDE DEF given
    <3>2. /\ SameSource(check, d) /\ check.expected = Some(given.type)
          /\ check.required = Requires(given.nullable)
      BY <3>1, CheckFields
    <3>. QED
      BY <3>1, <3>2 DEF given
  <2>9. ValueAt(record, check) = ValueAt(record, field)
    <3>1. SameSource(check, field)
      BY <2>4, <2>6, <2>8 DEF SameSource
    <3>. QED
      BY <3>1, SameSourceReads
  <2>. QED
    BY <2>7, <2>8, <2>9 DEF Violates, Admits, Requires, Some
<1>10. CASE \E c \in Overridden(next, others) : check = OverrideCheck(c, OverrideOf(next, c.name))
  <2>1. PICK c \in Overridden(next, others) : TRUE
    BY <1>10
  <2>2. c.name \in NameSet(others) /\ c.name \notin NameSet(next.pin)
    BY NameSetIs DEF Overridden
  <2>. QED
    BY <1>1, <1>5, <1>7, <2>2
<1>. QED
  BY <1>3, <1>8, <1>9, <1>10

-----------------------------------------------------------------------------
(* The fields under the written pin are the fields it was written from.    *)

\* What a plan settles for a field.
SameField(now, then) == now.type = then.type /\ now.nullable = then.nullable

\* Under the pin a load wrote, each field has the type the pin says.
LEMMA FieldsWritten ==
  ASSUME NEW fields, Listed(fields), Distinct(fields),
         NEW next, Listed(next.pin), Distinct(next.pin), next.pin = PinOf(fields),
         NEW others, Listed(others), Distinct(others), NameSet(others) = NameSet(fields), NEW types,
         NEW now \in Range(PlannedFields(next, others, types))
  PROVE  SameField(now, FieldNamed(fields, now.name))
<1>1. PICK column \in Range(others) : FieldFrom(next, column, types, now)
  <2>1. NameSet(next.pin) \subseteq NameSet(others)
    BY PinOfIs
  <2>. QED
    BY <2>1, FieldsFrom
<1>2. column.name \in NameSet(next.pin) /\ now.name = column.name
  BY <1>1, NameSetIs, PinOfIs DEF FieldFrom
<1>3. PICK k \in DOMAIN next.pin : /\ next.pin[k].name = now.name /\ now.type = next.pin[k].type
                                   /\ now.nullable = next.pin[k].nullable
  BY <1>1, <1>2 DEF FieldFrom
<1>4. /\ k \in DOMAIN fields /\ next.pin[k].name = fields[k].name
      /\ next.pin[k].type = fields[k].type /\ next.pin[k].nullable = fields[k].nullable
  BY PinOfIs
<1>5. FieldNamed(fields, fields[k].name) = fields[k]
  BY <1>4, NamedIs DEF Range
<1>. QED
  BY <1>3, <1>4, <1>5 DEF SameField

\* Without one, the field of a column is again what the pin or what was
\* observed made it.
LEMMA FieldsFollow ==
  ASSUME NEW dir, Listed(dir.pin), Distinct(dir.pin),
         NEW columns, NEW others, SameShape(columns, others),
         NameSet(dir.pin) \subseteq NameSet(columns), NEW types, NEW later,
         \A x \in Range(columns), y \in Range(others) :
           x.name = y.name /\ x.name \notin NameSet(dir.pin) => types[x.index] = later[y.index],
         NEW now \in Range(PlannedFields(dir, others, later))
  PROVE  SameField(now, FieldNamed(PlannedFields(dir, columns, types), now.name))
<1> DEFINE planned == PlannedFields(dir, columns, types)
<1>1. /\ Listed(columns) /\ Distinct(columns) /\ Listed(others) /\ Distinct(others)
      /\ NameSet(columns) = NameSet(others)
  BY DEF SameShape
<1>2. PICK y \in Range(others) : FieldFrom(dir, y, later, now)
  BY <1>1, FieldsFrom
<1>3. now.name = y.name /\ y.name \in NameSet(columns)
  BY <1>1, <1>2, NameSetIs DEF FieldFrom
<1>4. PICK x \in Range(columns) : x.name = y.name
  BY <1>3, NameSetIs
<1>5. PICK then \in Range(planned) : FieldFrom(dir, x, types, then)
  BY <1>1, FieldsFrom
<1>6. Listed(planned) /\ Distinct(planned)
  BY <1>1, FieldsFrom
<1> HIDE DEF planned
<1>7. FieldNamed(planned, now.name) = then
  <2>1. FieldNamed(planned, then.name) = then
    BY <1>5, <1>6, NamedIs
  <2>2. then.name = now.name
    BY <1>3, <1>4, <1>5 DEF FieldFrom
  <2>. QED
    BY <2>1, <2>2
<1>8. CASE y.name \in NameSet(dir.pin)
  <2>1. PICK j \in DOMAIN dir.pin : /\ dir.pin[j].name = y.name /\ now.type = dir.pin[j].type
                                    /\ now.nullable = dir.pin[j].nullable
    BY <1>2, <1>8 DEF FieldFrom
  <2>2. PICK k \in DOMAIN dir.pin : /\ dir.pin[k].name = x.name /\ then.type = dir.pin[k].type
                                    /\ then.nullable = dir.pin[k].nullable
    BY <1>4, <1>5, <1>8 DEF FieldFrom
  <2>3. j = k
    BY <1>4, <2>1, <2>2, DistinctIs
  <2>. QED
    BY <1>7, <2>1, <2>2, <2>3 DEF SameField, planned
<1>9. CASE y.name \notin NameSet(dir.pin)
  <2>1. /\ now = InferredField(dir, y, later) /\ then = InferredField(dir, x, types)
    BY <1>2, <1>4, <1>5, <1>9 DEF FieldFrom, NameSet
  <2>2. types[x.index] = later[y.index]
    BY <1>4, <1>9
  <2>3. SameField(now, then)
    BY <1>4, <2>1, <2>2 DEF InferredField, Field, SameField
  <2>. QED
    BY <1>7, <2>3 DEF planned
<1>. QED
  BY <1>8, <1>9

\* How the plan of a load and that of a later one agree.
SameFields(plan, now) ==
  \A field \in Range(now.fields) : SameField(field, FieldNamed(plan.fields, field.name))
SameTypes(plan, types, now, later) ==
  \A x \in Range(plan.columns), y \in Range(now.columns) :
    x.name = y.name => types[x.index] = later[y.index]
SameChecks(plan, types, now) ==
  \A record :
    (~ViolatesAny(record, plan.checks) =>
       \A c \in Range(plan.columns) : Holds(types, c, record))
    => (ViolatesAny(record, now.checks) <=> ViolatesAny(record, plan.checks))

\* The next load, over the same records in either order, resolves to the plan
\* of the last one: it writes no pin, keeps the records the last load kept and
\* gives every field the type it had.
LEMMA PlanAgain ==
  ASSUME NEW dir, Steered(dir), NEW keys, Listed(keys),
         NEW fields, Listed(fields), fields # <<>>, NEW types, NEW plan,
         plan = ResolvePlan(dir, keys, fields, types), plan.code = "ok", Distinct(plan.columns),
         \A c \in Range(plan.columns) : types[c.index] \in Observable,
         NEW again, Listed(again), Csv => again = fields,
         ~Csv => IsInjective(again) /\ Range(again) = Range(fields),
         NEW later, NEW now, now = ResolvePlan(NextDirective(dir, plan), keys, again, later)
  PROVE  /\ now.code = "ok" /\ ~now.pinWrite.ok
         /\ NameSet(now.fields) = NameSet(plan.fields)
         /\ SameShape(plan.columns, now.columns)
         /\ SameChecks(plan, types, now)
         /\ (dir.mode = "inferred" => SameTypes(plan, types, now, later))
            => SameFields(plan, now)
<1> DEFINE next == NextDirective(dir, plan)
           columns == ResolvedColumns(dir.transform, fields)
           others == ResolvedColumns(dir.transform, again)
<1>1. /\ plan.columns = columns /\ plan.checks = ResolvedChecks(dir, keys, columns)
      /\ plan.fields = PlannedFields(dir, columns, types)
      /\ Verdict(dir, keys, fields) = "ok"
  BY PlanIs
<1>2. Directed(dir) /\ Listed(dir.pin) /\ Distinct(dir.pin) /\ Sound(dir.transform)
  BY DEF Steered, Directed
<1>3. /\ ~UnknownFields(dir.transform, fields) /\ ~Collides(dir.transform, fields)
      /\ Range(keys) \subseteq NameSet(columns) /\ NameSet(dir.pin) \subseteq NameSet(columns)
  BY <1>1, <1>2, VerdictResult DEF Agreed
<1>4. Steered(next)
  BY <1>1, PinReadsBack
<1>5. Directed(next) /\ Listed(next.pin) /\ Distinct(next.pin)
  BY <1>4 DEF Steered, Directed
<1>6. Verdict(next, keys, again) = "ok"
  BY <1>1, VerdictAgain
<1>7. next.transform = dir.transform
  BY OverridesNext
<1>8. SameShape(columns, others)
  BY <1>1, <1>2, <1>3, ShapeAgain
<1>9. /\ Listed(columns) /\ Distinct(columns) /\ Listed(others) /\ Distinct(others)
      /\ NameSet(others) = NameSet(columns)
  BY <1>8 DEF SameShape
<1>10. /\ now.code = "ok" /\ now.columns = others /\ now.checks = ResolvedChecks(next, keys, others)
       /\ now.fields = PlannedFields(next, others, later)
  BY <1>6, <1>7, PlanIs
<1>11. \/ plan.pinWrite.ok /\ plan.pinWrite.value = PinOf(plan.fields)
       \/ /\ ~plan.pinWrite.ok /\ dir.mode # "pin_inferred"
          /\ dir.mode = "pinned" => AddedColumns(dir, columns) = <<>>
  BY <1>1, PlanPins
<1>12. \/ next.mode = "pinned" /\ next.pin = PinOf(plan.fields)
       \/ /\ next = dir /\ dir.mode \in {"pinned", "inferred"}
          /\ dir.mode = "pinned" => AddedColumns(dir, columns) = <<>>
  BY <1>11 DEF NextDirective, Steered
<1>13. /\ Listed(plan.fields) /\ Distinct(plan.fields) /\ NameSet(plan.fields) = NameSet(columns)
  BY <1>1, <1>2, <1>3, <1>9, FieldsFrom
<1> HIDE DEF next, columns, others
<1>14. NameSet(next.pin) \subseteq NameSet(columns)
  BY <1>3, <1>12, <1>13, PinOfIs
<1>15. ~now.pinWrite.ok
  <2>1. next.mode = "pinned" => AddedColumns(next, others) = <<>>
    <3>1. CASE next.mode = "pinned" /\ next.pin = PinOf(plan.fields)
      <4>1. NameSet(others) \subseteq NameSet(next.pin)
        BY <1>9, <1>13, <3>1, PinOfIs
      <4>. QED
        BY <1>9, <4>1, NoneAdded
    <3>2. CASE next = dir /\ (dir.mode = "pinned" => AddedColumns(dir, columns) = <<>>)
      BY <1>9, <3>2, NoneAdded
    <3>. QED
      BY <1>12, <3>1, <3>2
  <2>2. next.mode # "pin_inferred"
    BY <1>12
  <2>3. \/ /\ now.pinWrite.ok /\ next.mode \in {"pinned", "pin_inferred"}
           /\ next.mode = "pinned" => AddedColumns(next, others) # <<>>
        \/ ~now.pinWrite.ok
    <3>1. ResolvedColumns(next.transform, again) = others
      BY <1>7 DEF others
    <3>. QED
      BY <1>10, <3>1, PlanPins DEF next
  <2>. QED
    BY <2>1, <2>2, <2>3
<1>16. NameSet(now.fields) = NameSet(plan.fields)
  BY <1>5, <1>9, <1>10, <1>13, <1>14, FieldsFrom
<1>17. ASSUME NEW record,
              ~ViolatesAny(record, plan.checks) =>
                \A c \in Range(plan.columns) : Holds(types, c, record)
       PROVE  ViolatesAny(record, now.checks) <=> ViolatesAny(record, plan.checks)
  <2>1. CASE next.pin = PinOf(plan.fields)
    <3>1. ASSUME ViolatesAny(record, plan.checks) PROVE ViolatesAny(record, now.checks)
      BY <1>1, <1>2, <1>3, <1>5, <1>8, <1>10, <2>1, <3>1, WrittenRejects
    <3>2. ASSUME ~ViolatesAny(record, plan.checks) PROVE ~ViolatesAny(record, now.checks)
      BY <1>1, <1>2, <1>3, <1>5, <1>8, <1>10, <1>17, <2>1, <3>2, WrittenKeeps
    <3>. QED
      BY <3>1, <3>2
  <2>2. CASE next = dir
    <3>1. ASSUME ViolatesAny(record, plan.checks) PROVE ViolatesAny(record, now.checks)
      BY <1>1, <1>2, <1>3, <1>8, <1>10, <2>2, <3>1, ChecksFollow
    <3>2. SameShape(others, columns)
      BY <1>8, ShapeTurns
    <3>3. ASSUME ViolatesAny(record, now.checks) PROVE ViolatesAny(record, plan.checks)
      BY <1>1, <1>2, <1>3, <1>9, <1>10, <2>2, <3>2, <3>3, ChecksFollow
    <3>. QED
      BY <3>1, <3>3
  <2>. QED
    BY <1>12, <2>1, <2>2
<1>18. ASSUME dir.mode = "inferred" => SameTypes(plan, types, now, later),
              NEW field \in Range(now.fields)
       PROVE  SameField(field, FieldNamed(plan.fields, field.name))
  <2>1. CASE next.pin = PinOf(plan.fields)
    BY <1>5, <1>9, <1>10, <1>13, <2>1, FieldsWritten
  <2>2. CASE next = dir
    <3>1. ASSUME NEW x \in Range(columns), NEW y \in Range(others),
                 x.name = y.name, x.name \notin NameSet(dir.pin)
          PROVE  types[x.index] = later[y.index]
      <4>1. dir.mode = "inferred"
        <5>1. CASE dir.mode = "pinned" /\ next # dir
          BY <2>2, <5>1
        <5>2. CASE dir.mode = "pinned" /\ AddedColumns(dir, columns) = <<>>
          <6>1. NameSet(columns) \subseteq NameSet(dir.pin)
            BY <1>9, <5>2, NoneAdded
          <6>. QED
            BY <3>1, <6>1, NameSetIs
        <5>3. CASE next.mode = "pinned" /\ next.pin = PinOf(plan.fields)
          <6>1. NameSet(columns) \subseteq NameSet(dir.pin)
            BY <1>13, <2>2, <5>3, PinOfIs
          <6>. QED
            BY <3>1, <6>1, NameSetIs
        <5>. QED
          BY <1>12, <5>1, <5>2, <5>3
      <4>. QED
        BY <1>1, <1>10, <1>18, <3>1, <4>1 DEF SameTypes
    <3>. QED
      BY <1>1, <1>2, <1>3, <1>8, <1>10, <2>2, <3>1, FieldsFollow
  <2>. QED
    BY <1>12, <2>1, <2>2
<1>. QED
  BY <1>1, <1>8, <1>10, <1>15, <1>16, <1>17, <1>18 DEF SameChecks, SameFields

-----------------------------------------------------------------------------
(* The records a load keeps, in their order or turned.                     *)

\* The records at the given indices, in order.
Kept(records, indices) ==
  LET chosen == Picked([k \in DOMAIN records |-> k], indices)
  IN [n \in DOMAIN chosen |-> records[chosen[n]]]

\* The records kept, as many as the indices, each at its place.
LEMMA KeptAt ==
  ASSUME NEW records, Listed(records), NEW indices \in SUBSET DOMAIN records
  PROVE  /\ IsFiniteSet(indices) /\ Cardinality(indices) \in Nat
         /\ Kept(records, indices) =
              [n \in 1 .. Cardinality(indices) |-> Kept(records, indices)[n]]
         /\ \A k \in indices : /\ RankIn(indices, k) \in 1 .. Cardinality(indices)
                               /\ Kept(records, indices)[RankIn(indices, k)] = records[k]
         /\ \A n \in 1 .. Cardinality(indices) : \E k \in indices :
              Kept(records, indices)[n] = records[k] /\ RankIn(indices, k) = n
<1> DEFINE numbers == [k \in DOMAIN records |-> k]
           chosen == Picked(numbers, indices)
           kept == Kept(records, indices)
<1>1. DOMAIN numbers = DOMAIN records /\ \A k \in DOMAIN records : numbers[k] = k
  OBVIOUS
<1>2. Listed(numbers)
  <2>1. numbers = [k \in DOMAIN records |-> numbers[k]]
    OBVIOUS
  <2> HIDE DEF numbers
  <2>. QED
    BY <1>1, <2>1, MappedIs
<1>3. kept = [n \in DOMAIN chosen |-> records[chosen[n]]]
  BY DEF Kept
<1> HIDE DEF numbers
<1>4. /\ IsFiniteSet(indices) /\ Cardinality(indices) \in Nat
      /\ DOMAIN chosen = 1 .. Cardinality(indices)
      /\ \A n \in DOMAIN chosen : \E k \in indices :
           chosen[n] = numbers[k] /\ RankIn(indices, k) = n
      /\ \A k \in indices : /\ RankIn(indices, k) \in DOMAIN chosen
                            /\ chosen[RankIn(indices, k)] = numbers[k]
  BY <1>1, <1>2, PickedAt
<1> HIDE DEF chosen, kept
<1>5. \A n \in DOMAIN chosen : \E k \in indices : chosen[n] = k /\ RankIn(indices, k) = n
  BY <1>1, <1>4
<1>6. \A k \in indices : chosen[RankIn(indices, k)] = k
  BY <1>1, <1>4
<1>7. kept = [n \in 1 .. Cardinality(indices) |-> kept[n]]
  BY <1>3, <1>4
<1>8. \A n \in DOMAIN chosen : kept[n] = records[chosen[n]]
  BY <1>3
<1>. QED
  BY <1>4, <1>5, <1>6, <1>7, <1>8 DEF kept

\* Places count from the other end in a list that is turned round.
LEMMA PlaceTurned ==
  ASSUME NEW n \in Nat, NEW K \in SUBSET (1 .. n), NEW L \in SUBSET (1 .. n),
         \A k \in 1 .. n : k \in K <=> (n - k) + 1 \in L
  PROVE  /\ Cardinality(L) = Cardinality(K)
         /\ \A k \in K : RankIn(K, k) + RankIn(L, (n - k) + 1) = Cardinality(K) + 1
<1> DEFINE turn(k) == (n - k) + 1
<1>1. IsFiniteSet(K) /\ Cardinality(K) \in Nat /\ IsFiniteSet(L)
  <2>1. IsFiniteSet(1 .. n)
    BY FS_Interval
  <2>. QED
    BY <2>1, FS_Subset, FS_CardinalityType
<1>2. ASSUME NEW S \in SUBSET K, NEW T \in SUBSET L, \A k \in 1 .. n : k \in S <=> turn(k) \in T
      PROVE  Cardinality(T) = Cardinality(S)
  <2> DEFINE f == [k \in S |-> turn(k)]
  <2>1. \A k \in S : turn(k) \in T
    BY <1>2
  <2>2. \A j, k \in S : turn(j) = turn(k) => j = k
    OBVIOUS
  <2>3. \A m \in T : turn(m) \in S /\ turn(turn(m)) = m
    <3> SUFFICES ASSUME NEW m \in T PROVE turn(m) \in S /\ turn(turn(m)) = m
      OBVIOUS
    <3>1. turn(m) \in 1 .. n /\ turn(turn(m)) = m
      OBVIOUS
    <3>. QED
      BY <1>2, <3>1
  <2> HIDE DEF turn
  <2>4. f \in [S -> T]
    BY <2>1
  <2>5. f \in Bijection(S, T)
    <3>1. f \in Injection(S, T)
      BY <2>2, <2>4 DEF Injection, IsInjective
    <3>2. f \in Surjection(S, T)
      BY <2>3, <2>4 DEF Surjection
    <3>. QED
      BY <3>1, <3>2 DEF Bijection
  <2>6. IsFiniteSet(S)
    BY <1>1, FS_Subset
  <2>. QED
    BY <2>5, <2>6, FS_Bijection DEF ExistsBijection
<1>3. Cardinality(L) = Cardinality(K)
  BY <1>2
<1>4. ASSUME NEW k \in K
      PROVE  RankIn(K, k) + RankIn(L, turn(k)) = Cardinality(K) + 1
  <2> DEFINE A == { j \in K : j <= k }
             B == { j \in K : j >= k }
             C == { j \in L : j <= turn(k) }
  <2>1. Cardinality(C) = Cardinality(B)
    <3>1. B \in SUBSET K /\ C \in SUBSET L
      OBVIOUS
    <3>2. \A j \in 1 .. n : j \in B <=> turn(j) \in C
      OBVIOUS
    <3> HIDE DEF turn, B, C
    <3>. QED
      BY <1>2, <3>1, <3>2
  <2>2. IsFiniteSet(A) /\ IsFiniteSet(B) /\ Cardinality(A) \in Nat /\ Cardinality(B) \in Nat
    <3>1. A \subseteq K /\ B \subseteq K
      OBVIOUS
    <3> HIDE DEF A, B
    <3>. QED
      BY <1>1, <3>1, FS_Subset, FS_CardinalityType
  <2>3. A \union B = K /\ A \intersect B = {k}
    <3>1. \A j \in K : j \in Int /\ (j <= k \/ j >= k) /\ (j <= k /\ j >= k => j = k)
      OBVIOUS
    <3>2. \A j \in A \intersect B : j = k
      BY <3>1
    <3>3. k \in A /\ k \in B
      OBVIOUS
    <3>4. A \union B = K
      BY <3>1
    <3>. QED
      BY <3>2, <3>3, <3>4
  <2>4. Cardinality({k}) = 1
    BY FS_Singleton
  <2>5. RankIn(K, k) = Cardinality(A) /\ RankIn(L, turn(k)) = Cardinality(C)
    BY DEF RankIn
  <2> HIDE DEF A, B, C, turn
  <2>6. Cardinality(K) = Cardinality(A) + Cardinality(B) - 1
    BY <2>2, <2>3, <2>4, FS_Union
  <2>. QED
    BY <1>1, <2>1, <2>2, <2>5, <2>6
<1>. QED
  BY <1>3, <1>4

\* The good records of a list turned round are those of the list, turned round.
LEMMA KeptTurned ==
  ASSUME NEW records, Listed(records), NEW others, others \in {records, Reverse(records)},
         NEW good,
         NEW K \in SUBSET DOMAIN records, \A k \in DOMAIN records : k \in K <=> records[k] \in good,
         NEW L \in SUBSET DOMAIN others, \A k \in DOMAIN others : k \in L <=> others[k] \in good
  PROVE  Kept(others, L) \in {Kept(records, K), Reverse(Kept(records, K))}
<1>1. CASE others = records
  <2>1. L = K
    BY <1>1
  <2>. QED
    BY <1>1, <2>1
<1>2. CASE others = Reverse(records)
  <2> DEFINE n == Len(records)
             kept == Kept(records, K)
             turned == Kept(others, L)
             m == Cardinality(K)
  <2>1. n \in Nat /\ DOMAIN records = 1 .. n
    BY ListedIs
  <2>2. /\ others = [k \in 1 .. n |-> records[(n - k) + 1]] /\ DOMAIN others = 1 .. n
        /\ \A k \in 1 .. n : others[k] = records[(n - k) + 1]
    BY <1>2 DEF Reverse
  <2>3. Listed(others)
    BY <1>2, ReverseIs
  <2>4. K \in SUBSET DOMAIN records /\ L \in SUBSET DOMAIN others
    OBVIOUS
  <2>5. \A k \in 1 .. n : k \in K <=> (n - k) + 1 \in L
    <3> SUFFICES ASSUME NEW k \in 1 .. n PROVE k \in K <=> (n - k) + 1 \in L
      OBVIOUS
    <3>1. (n - k) + 1 \in 1 .. n /\ (n - ((n - k) + 1)) + 1 = k
      BY <2>1
    <3>2. others[(n - k) + 1] = records[k]
      BY <2>2, <3>1
    <3>. QED
      BY <2>1, <2>2, <3>1, <3>2
  <2>6. /\ Cardinality(L) = m
        /\ \A k \in K : RankIn(K, k) + RankIn(L, (n - k) + 1) = m + 1
    <3>1. K \in SUBSET (1 .. n) /\ L \in SUBSET (1 .. n)
      BY <2>1, <2>2, <2>4
    <3>2. n \in Nat
      BY <2>1
    <3> HIDE DEF n, kept, turned, m
    <3>3. /\ Cardinality(L) = Cardinality(K)
          /\ \A k \in K : RankIn(K, k) + RankIn(L, (n - k) + 1) = Cardinality(K) + 1
      BY <2>5, <3>1, <3>2, PlaceTurned, ZenonT(60)
    <3>. QED
      BY <3>3 DEF m
  <2>7. /\ m \in Nat /\ kept = [i \in 1 .. m |-> kept[i]]
        /\ \A k \in K : RankIn(K, k) \in 1 .. m /\ kept[RankIn(K, k)] = records[k]
    BY <2>4, KeptAt
  <2>8. /\ turned = [i \in 1 .. m |-> turned[i]]
        /\ \A i \in 1 .. m : \E k \in L : turned[i] = others[k] /\ RankIn(L, k) = i
    <3> HIDE DEF m
    <3>1. turned = [i \in 1 .. Cardinality(L) |-> turned[i]]
          /\ \A i \in 1 .. Cardinality(L) : \E k \in L : turned[i] = others[k] /\ RankIn(L, k) = i
      BY <2>3, <2>4, KeptAt
    <3>. QED
      BY <2>6, <3>1
  <2> HIDE DEF kept, turned, m, n
  <2>9. ASSUME NEW i \in 1 .. m PROVE turned[i] = kept[(m - i) + 1]
    <3>1. PICK k \in L : turned[i] = others[k] /\ RankIn(L, k) = i
      BY <2>8
    <3> DEFINE j == (n - k) + 1
    <3>2. k \in 1 .. n
      BY <2>2, <2>4
    <3>3. j \in 1 .. n /\ (n - j) + 1 = k
      BY <2>1, <3>2
    <3>4. j \in K
      BY <2>5, <3>3
    <3>5. others[k] = records[j]
      BY <2>2, <3>2
    <3> HIDE DEF j
    <3>6. RankIn(K, j) + i = m + 1 /\ RankIn(K, j) \in 1 .. m /\ kept[RankIn(K, j)] = records[j]
      BY <2>6, <2>7, <3>1, <3>3, <3>4
    <3>7. RankIn(K, j) = (m - i) + 1
      BY <2>7, <3>6
    <3>. QED
      BY <3>1, <3>5, <3>6, <3>7
  <2>10. Len(kept) = m
    BY <2>7
  <2>11. turned = Reverse(kept)
    BY <2>8, <2>9, <2>10 DEF Reverse
  <2>. QED
    BY <2>11 DEF kept, turned
<1>. QED
  BY <1>1, <1>2

\* The records that survive the checks, and what they show at a column.
RowOf(record) == IF Csv THEN record ELSE JsonObject(record)
Survive(records, checks) ==
  { k \in DOMAIN records : ~ViolatesAny(RowOf(records[k]), checks) }
Shown(records, checks, column) ==
  { Infer(ValueAt(RowOf(records[k]), column)) : k \in Survive(records, checks) }
KeysIn(records) == { x.key : x \in UNION { Range(record) : record \in Range(records) } }

\* What a load of the records under a directive resolved to.
Resolves(dir, header, records, fields, types, plan) ==
  /\ Steered(dir) /\ Listed(fields) /\ fields # <<>>
  /\ plan = ResolvePlan(dir, def.keys, fields, types) /\ plan.code = "ok"
  /\ Csv => fields = header
  /\ ~Csv => IsInjective(fields) /\ Range(fields) = KeysIn(records)
  /\ \A c \in Range(plan.columns) : Joins(types[c.index], Shown(records, plan.checks, c))

\* Turned records are the same records, with the same keys.
LEMMA TurnedRange ==
  ASSUME NEW records, Listed(records), NEW others, others \in {records, Reverse(records)}
  PROVE  Listed(others) /\ Range(others) = Range(records) /\ KeysIn(others) = KeysIn(records)
<1>1. CASE others = records
  BY <1>1
<1>2. CASE others = Reverse(records)
  <2> DEFINE n == Len(records)
  <2>1. n \in Nat /\ DOMAIN records = 1 .. n
    BY ListedIs
  <2>2. DOMAIN others = 1 .. n /\ \A k \in 1 .. n : others[k] = records[(n - k) + 1]
    BY <1>2 DEF Reverse
  <2>3. Listed(others)
    BY <1>2, ReverseIs
  <2> HIDE DEF n
  <2>4. \A k \in 1 .. n : (n - k) + 1 \in 1 .. n /\ (n - ((n - k) + 1)) + 1 = k
    BY <2>1
  <2>5. \A k \in 1 .. n : records[k] = others[(n - k) + 1]
    BY <2>2, <2>4
  <2>6. Range(others) = Range(records)
    BY <2>1, <2>2, <2>4, <2>5 DEF Range
  <2>. QED
    BY <2>3, <2>6 DEF KeysIn
<1>. QED
  BY <1>1, <1>2

\* What survivors show depends on which records there are, not on their order.
LEMMA ShownAre ==
  ASSUME NEW records, NEW checks, NEW column
  PROVE  Shown(records, checks, column) =
           { Infer(ValueAt(RowOf(record), column)) :
             record \in { record \in Range(records) : ~ViolatesAny(RowOf(record), checks) } }
BY DEF Shown, Survive, Range

\* A survivor's values are in what was observed.
LEMMA SurvivorHeld ==
  ASSUME NEW records, NEW checks, NEW types, NEW column,
         Joins(types[column.index], Shown(records, checks, column)),
         NEW record \in Range(records), ~ViolatesAny(RowOf(record), checks)
  PROVE  Holds(types, column, RowOf(record))
<1>1. PICK k \in DOMAIN records : records[k] = record
  BY DEF Range
<1>2. Infer(ValueAt(RowOf(record), column)) \in Shown(records, checks, column)
  BY <1>1 DEF Shown, Survive
<1>. QED
  BY <1>2 DEF Joins, Holds

\* Two loads of the same records, in either order, the second under the pin the
\* first one left.
LEMMA LoadsAgain ==
  ASSUME Listed(def.keys), NEW records, Listed(records), NEW others,
         others \in {records, Reverse(records)}, NEW header,
         NEW dir, NEW fields, NEW types, NEW plan, NEW again, NEW later, NEW now,
         Resolves(dir, header, records, fields, types, plan),
         Resolves(NextDirective(dir, plan), header, others, again, later, now),
         Distinct(plan.columns)
  PROVE  /\ ~now.pinWrite.ok /\ NameSet(now.fields) = NameSet(plan.fields)
         /\ SameFields(plan, now)
         /\ LET kept == Kept(records, Survive(records, plan.checks))
            IN Kept(others, Survive(others, now.checks)) \in {kept, Reverse(kept)}
<1>1. /\ Steered(dir) /\ Listed(fields) /\ fields # <<>>
      /\ plan = ResolvePlan(dir, def.keys, fields, types) /\ plan.code = "ok"
      /\ Listed(again) /\ now = ResolvePlan(NextDirective(dir, plan), def.keys, again, later)
      /\ Csv => again = fields
      /\ ~Csv => IsInjective(again) /\ Range(again) = KeysIn(others) /\ Range(fields) = KeysIn(records)
      /\ \A c \in Range(plan.columns) : Joins(types[c.index], Shown(records, plan.checks, c))
      /\ \A c \in Range(now.columns) : Joins(later[c.index], Shown(others, now.checks, c))
  BY DEF Resolves
<1>2. Listed(others) /\ Range(others) = Range(records) /\ KeysIn(others) = KeysIn(records)
  BY TurnedRange
<1>3. \A c \in Range(plan.columns) : types[c.index] \in Observable
  BY <1>1 DEF Joins
<1>4. /\ ~now.pinWrite.ok
      /\ NameSet(now.fields) = NameSet(plan.fields)
      /\ SameShape(plan.columns, now.columns)
      /\ SameChecks(plan, types, now)
      /\ (dir.mode = "inferred" => SameTypes(plan, types, now, later)) => SameFields(plan, now)
  <2>1. ~Csv => IsInjective(again) /\ Range(again) = Range(fields)
    BY <1>1, <1>2
  <2> DEFINE keys == def.keys
  <2>2. Listed(keys) /\ plan = ResolvePlan(dir, keys, fields, types)
        /\ now = ResolvePlan(NextDirective(dir, plan), keys, again, later)
    BY <1>1
  <2>3. /\ Steered(dir) /\ Listed(fields) /\ fields # <<>> /\ plan.code = "ok"
        /\ Listed(again) /\ (Csv => again = fields) /\ Distinct(plan.columns)
    BY <1>1
  <2> HIDE DEF keys
  <2>. QED
    BY <1>3, <2>1, <2>2, <2>3, PlanAgain
<1>5. ASSUME NEW record \in Range(records)
      PROVE  ViolatesAny(RowOf(record), now.checks) <=> ViolatesAny(RowOf(record), plan.checks)
  <2>1. ~ViolatesAny(RowOf(record), plan.checks) =>
          \A c \in Range(plan.columns) : Holds(types, c, RowOf(record))
    BY <1>1, SurvivorHeld
  <2>. QED
    BY <1>4, <2>1 DEF SameChecks
<1>6. ASSUME NEW x \in Range(plan.columns), NEW y \in Range(now.columns), x.name = y.name
      PROVE  types[x.index] = later[y.index]
  <2>1. SameSource(x, y)
    BY <1>4, <1>6 DEF SameShape, SameSource
  <2>2. \A record : ValueAt(record, x) = ValueAt(record, y)
    BY <2>1, SameSourceReads
  <2>3. Shown(records, plan.checks, x) = Shown(others, now.checks, y)
    <3>1. Shown(records, plan.checks, x) =
            { Infer(ValueAt(RowOf(record), x)) :
              record \in { record \in Range(records) : ~ViolatesAny(RowOf(record), plan.checks) } }
      BY ShownAre
    <3>2. Shown(others, now.checks, y) =
            { Infer(ValueAt(RowOf(record), y)) :
              record \in { record \in Range(others) : ~ViolatesAny(RowOf(record), now.checks) } }
      BY ShownAre
    <3>3. { record \in Range(others) : ~ViolatesAny(RowOf(record), now.checks) } =
          { record \in Range(records) : ~ViolatesAny(RowOf(record), plan.checks) }
      BY <1>2, <1>5
    <3>4. \A record : Infer(ValueAt(RowOf(record), x)) = Infer(ValueAt(RowOf(record), y))
      BY <2>2
    <3>. QED
      BY <3>1, <3>2, <3>3, <3>4
  <2>. QED
    BY <1>1, <2>3, JoinUnique
<1>7. SameFields(plan, now)
  BY <1>4, <1>6 DEF SameTypes
<1>8. LET kept == Kept(records, Survive(records, plan.checks))
      IN Kept(others, Survive(others, now.checks)) \in {kept, Reverse(kept)}
  <2> DEFINE good == { record \in Range(records) : ~ViolatesAny(RowOf(record), plan.checks) }
             K == Survive(records, plan.checks)
             L == Survive(others, now.checks)
  <2>1. K \in SUBSET DOMAIN records /\ \A k \in DOMAIN records : k \in K <=> records[k] \in good
    BY DEF Survive, Range
  <2>2. L \in SUBSET DOMAIN others /\ \A k \in DOMAIN others : k \in L <=> others[k] \in good
    <3>1. L \in SUBSET DOMAIN others
      BY DEF Survive
    <3>2. \A k \in DOMAIN others : others[k] \in Range(records)
      BY <1>2 DEF Range
    <3>. QED
      BY <1>5, <3>1, <3>2 DEF Survive
  <2> HIDE DEF good, K, L
  <2>3. Kept(others, L) \in {Kept(records, K), Reverse(Kept(records, K))}
    BY <2>1, <2>2, KeptTurned
  <2>. QED
    BY <2>3 DEF K, L
<1>. QED
  BY <1>4, <1>7, <1>8

-----------------------------------------------------------------------------
(* The next load resolves its directive.                                   *)

\* The second load of the records resolves a plan too.
LEMMA CodeAgain ==
  ASSUME NEW dir, NEW header, NEW records, NEW fields, NEW types, NEW plan,
         Resolves(dir, header, records, fields, types, plan), Distinct(plan.columns),
         NEW others, KeysIn(others) = KeysIn(records),
         NEW again, Listed(again), Csv => again = header,
         ~Csv => IsInjective(again) /\ Range(again) = KeysIn(others), NEW later
  PROVE  /\ again # <<>>
         /\ ResolvePlan(NextDirective(dir, plan), def.keys, again, later).code = "ok"
<1>1. /\ Steered(dir) /\ Listed(fields) /\ fields # <<>>
      /\ plan = ResolvePlan(dir, def.keys, fields, types) /\ plan.code = "ok"
      /\ Csv => again = fields
      /\ ~Csv => IsInjective(again) /\ Range(again) = Range(fields)
      /\ \A c \in Range(plan.columns) : types[c.index] \in Observable
  BY DEF Resolves, Joins
<1> DEFINE keys == def.keys
<1>2. plan = ResolvePlan(dir, keys, fields, types)
  BY <1>1
<1> HIDE DEF keys
<1>3. plan.columns = ResolvedColumns(dir.transform, fields)
  BY <1>1, <1>2, PlanIs
<1>4. Verdict(NextDirective(dir, plan), keys, again) = "ok"
  <2>1. ResolvePlan(dir, keys, fields, types).code = "ok"
    BY <1>1, <1>2
  <2>2. Distinct(ResolvedColumns(dir.transform, fields))
    BY <1>3
  <2>3. \A c \in Range(ResolvedColumns(dir.transform, fields)) : types[c.index] \in Observable
    BY <1>1, <1>3
  <2>. QED
    BY <1>1, <1>2, <2>1, <2>2, <2>3, VerdictAgain
<1>5. ResolvePlan(NextDirective(dir, plan), keys, again, later).code = "ok"
  BY <1>4, PlanIs
<1>6. again # <<>>
  <2>1. DOMAIN fields # {}
    BY <1>1, ListedIs, EmptyIs
  <2>2. Range(again) = Range(fields)
    BY <1>1
  <2>3. DOMAIN again # {}
    BY <2>1, <2>2 DEF Range
  <2>. QED
    BY <2>3, EmptyIs
<1>. QED
  BY <1>5, <1>6 DEF keys

\* The next directive steers a load as this one did.
LEMMA SteeredNext ==
  ASSUME NEW dir, NEW header, NEW records, NEW fields, NEW types, NEW plan,
         Resolves(dir, header, records, fields, types, plan), Distinct(plan.columns)
  PROVE  /\ Steered(NextDirective(dir, plan))
         /\ plan.pinWrite.ok => PinReads(plan.pinWrite.value)
<1>1. /\ Steered(dir) /\ Listed(fields) /\ fields # <<>>
      /\ plan = ResolvePlan(dir, def.keys, fields, types) /\ plan.code = "ok"
      /\ \A c \in Range(plan.columns) : types[c.index] \in Observable
  BY DEF Resolves, Joins
<1> DEFINE keys == def.keys
<1>2. plan = ResolvePlan(dir, keys, fields, types)
  BY <1>1
<1> HIDE DEF keys
<1>3. plan.columns = ResolvedColumns(dir.transform, fields)
  BY <1>1, <1>2, PlanIs
<1>4. ResolvePlan(dir, keys, fields, types).code = "ok"
  BY <1>1, <1>2
<1>5. Distinct(ResolvedColumns(dir.transform, fields))
  BY <1>3
<1>6. \A c \in Range(ResolvedColumns(dir.transform, fields)) : types[c.index] \in Observable
  BY <1>1, <1>3
<1>. QED
  BY <1>1, <1>2, <1>4, <1>5, <1>6, PinReadsBack

\* The directive a definition amounts to is one a load can be steered by.
LEMMA ConfigSteers == ASSUME Files, ConfigCode = "ok" PROVE Steered(Directive)
<1>1. Directed(Directive)
  BY ConfigResult
<1>2. /\ SchemaCode(def.transform, def.block, def.format) = "ok"
      /\ def.block # Unset /\ def.block.path # Unset /\ pin.ok => PinReads(pin.value)
  BY ConfigIs
<1>3. Directive.mode \in {"inferred", "pinned", "pin_inferred"}
  BY DEF Directive
<1>4. Distinct(Directive.pin)
  <2>1. CASE def.block # Unset /\ def.block.path # Unset /\ pin.ok
    <3>1. Directive.pin = pin.value
      BY <2>1 DEF Directive
    <3>. QED
      BY <1>2, <2>1, <3>1 DEF PinReads, Distinct
  <2>2. CASE ~(def.block # Unset /\ def.block.path # Unset /\ pin.ok)
    <3>1. Directive.pin = <<>>
      BY <2>2 DEF Directive
    <3>2. DOMAIN Directive.pin = {}
      BY <3>1, EmptyIs
    <3>. QED
      BY <3>2, DistinctIs
  <2>. QED
    BY <2>1, <2>2
<1>5. \A k \in DOMAIN Directive.overrides : Flagged(Directive.overrides[k].nullable)
  <2>1. CASE def.block = Unset
    <3>1. Directive.overrides = <<>>
      BY <2>1 DEF Directive, OrEmpty
    <3>. QED
      BY <3>1, EmptyIs
  <2>2. CASE def.block # Unset
    <3>1. Directive.overrides = OrEmpty(def.block.overrides)
      BY <2>2 DEF Directive
    <3>. QED
      BY <2>2, <3>1 DEF Files
  <2>. QED
    BY <2>1, <2>2
<1>6. Directive.transform.select # Unset => Directive.transform.select # <<>>
  <2>1. CASE def.transform = Unset
    BY <2>1 DEF Directive, NoTransform
  <2>2. CASE def.transform # Unset
    <3>1. TransformValid(def.transform, def.format)
      BY <1>2, <2>2, SchemaResult DEF Files
    <3>2. Directive.transform = def.transform
      BY <2>2 DEF Directive
    <3>. QED
      BY <3>1, <3>2 DEF TransformValid, SelectValid
  <2>. QED
    BY <2>1, <2>2
<1>. QED
  BY <1>1, <1>3, <1>4, <1>5, <1>6 DEF Steered, Flagged

\* A definition that was accepted is accepted under any pin that reads.
LEMMA ConfigHolds ==
  /\ Files /\ SchemaCode(def.transform, def.block, def.format) = "ok"
  /\ PinReads(pin.value)
  => ConfigCode = "ok"
BY ConfigIs

\* The directive once the pin of a plan is written.
LEMMA WrittenConfig ==
  ASSUME Files, Files', ConfigCode = "ok", def' = def, NEW plan,
         plan.pinWrite.ok =>
           PinReads(plan.pinWrite.value) /\ Directive.mode \in {"pinned", "pin_inferred"},
         pin' = IF plan.pinWrite.ok THEN plan.pinWrite ELSE pin
  PROVE  ConfigCode' = "ok" /\ Directive' = NextDirective(Directive, plan)
<1>1. CASE ~plan.pinWrite.ok
  <2>1. pin' = pin
    BY <1>1
  <2>. QED
    BY <1>1, <2>1 DEF ConfigCode, Directive, NextDirective
<1>2. CASE plan.pinWrite.ok
  <2>1. def.block # Unset /\ def.block.path # Unset
    BY <1>2 DEF Directive
  <2>2. pin'.ok /\ pin'.value = plan.pinWrite.value
    BY <1>2
  <2>3. SchemaCode(def.transform, def.block, def.format) = "ok"
    BY ConfigIs
  <2>4. ConfigCode' = "ok"
    <3>1. SchemaCode(def'.transform, def'.block, def'.format) = "ok"
      BY <2>3
    <3>2. PinReads(pin'.value)
      BY <1>2, <2>2
    <3>3. (Files /\ SchemaCode(def.transform, def.block, def.format) = "ok"
            /\ PinReads(pin.value) => ConfigCode = "ok")'
      BY ConfigHolds, PTL
    <3>. QED
      BY <3>1, <3>2, <3>3
  <2>5. Directive' = NextDirective(Directive, plan)
    BY <1>2, <2>1, <2>2 DEF Directive, NextDirective
  <2>. QED
    BY <2>4, <2>5
<1>. QED
  BY <1>1, <1>2

-----------------------------------------------------------------------------
(* What the observers hold: the join of what the survivors show.           *)

\* The key union gains the record's keys, and repeats none if the record does not.
LEMMA UnionGrows ==
  ASSUME Listed(names), NEW record, Listed(record)
  PROVE  LET union == UnionNames(record)
         IN /\ Range(union) = Range(names) \union Range(KeysOf(record))
            /\ IsInjective(names) /\ IsInjective(KeysOf(record)) => IsInjective(union)
<1> DEFINE keys == KeysOf(record)
           new == {k \in DOMAIN keys : keys[k] \notin Range(names)}
           rest == Picked(keys, new)
           union == UnionNames(record)
<1>1. Listed(keys)
  <2> keys = [k \in DOMAIN record |-> keys[k]] /\ DOMAIN keys = DOMAIN record
    BY DEF KeysOf
  <2> HIDE DEF keys
  <2>. QED
    BY MappedIs
<1>2. new \in SUBSET DOMAIN keys
  OBVIOUS
<1>3. union = names \o rest
  BY DEF UnionNames, KeysOf
<1>4. /\ \A n \in new : keys[n] \notin Range(names)
      /\ \A n \in DOMAIN keys : n \in new \/ keys[n] \in Range(names)
  OBVIOUS
<1> HIDE DEF keys, new
<1>5. /\ Listed(rest)
      /\ \A n \in DOMAIN rest : \E k \in new : rest[n] = keys[k] /\ RankIn(new, k) = n
      /\ \A k \in new : RankIn(new, k) \in DOMAIN rest /\ rest[RankIn(new, k)] = keys[k]
  BY <1>1, <1>2, PickedAt
<1> HIDE DEF rest, union
<1>6. /\ Listed(union) /\ Len(union) = Len(names) + Len(rest)
      /\ \A k \in 1 .. Len(names) : union[k] = names[k]
      /\ \A k \in 1 .. Len(rest) : union[Len(names) + k] = rest[k]
      /\ Range(union) = Range(names) \union Range(rest)
  BY <1>3, <1>5, ConcatListed
<1>7. /\ Len(names) \in Nat /\ Len(rest) \in Nat
      /\ DOMAIN names = 1 .. Len(names) /\ DOMAIN rest = 1 .. Len(rest)
      /\ DOMAIN union = 1 .. Len(names) + Len(rest)
  BY <1>5, <1>6, ListedIs
<1>8. /\ \A x \in Range(rest) : x \in Range(keys) /\ x \notin Range(names)
      /\ \A x \in Range(keys) : x \in Range(names) \/ x \in Range(rest)
  <2>1. ASSUME NEW x \in Range(rest) PROVE x \in Range(keys) /\ x \notin Range(names)
    BY <1>2, <1>4, <1>5, <2>1 DEF Range
  <2>2. ASSUME NEW x \in Range(keys), x \notin Range(names) PROVE x \in Range(rest)
    <3>1. PICK k \in DOMAIN keys : keys[k] = x
      BY <2>2 DEF Range
    <3>2. k \in new
      BY <1>4, <2>2, <3>1
    <3>. QED
      BY <1>5, <3>1, <3>2 DEF Range
  <2>. QED
    BY <2>1, <2>2
<1>9. ASSUME IsInjective(names), IsInjective(keys) PROVE IsInjective(union)
  <2>1. /\ \A i, j \in DOMAIN names : names[i] = names[j] => i = j
        /\ \A i, j \in DOMAIN keys : keys[i] = keys[j] => i = j
    BY <1>9 DEF IsInjective
  <2>2. \A i, j \in DOMAIN rest : rest[i] = rest[j] => i = j
    <3> SUFFICES ASSUME NEW i \in DOMAIN rest, NEW j \in DOMAIN rest, rest[i] = rest[j]
                 PROVE  i = j
      OBVIOUS
    <3>1. PICK k \in new : rest[i] = keys[k] /\ RankIn(new, k) = i
      BY <1>5
    <3>2. PICK m \in new : rest[j] = keys[m] /\ RankIn(new, m) = j
      BY <1>5
    <3>3. k = m
      BY <1>2, <2>1, <3>1, <3>2
    <3>. QED
      BY <3>1, <3>2, <3>3
  <2>3. ASSUME NEW i \in DOMAIN union
        PROVE  \/ i \in DOMAIN names /\ union[i] = names[i] /\ union[i] \in Range(names)
               \/ /\ i - Len(names) \in DOMAIN rest /\ union[i] = rest[i - Len(names)]
                  /\ union[i] \notin Range(names)
    <3>1. CASE i <= Len(names)
      BY <1>6, <1>7, <3>1 DEF Range
    <3>2. CASE i > Len(names)
      <4>1. i - Len(names) \in 1 .. Len(rest) /\ Len(names) + (i - Len(names)) = i
        BY <1>7, <3>2
      <4>2. union[i] = rest[i - Len(names)]
        BY <1>6, <4>1
      <4>3. rest[i - Len(names)] \in Range(rest)
        BY <1>7, <4>1 DEF Range
      <4>. QED
        BY <1>7, <1>8, <4>1, <4>2, <4>3
    <3>. QED
      BY <1>7, <3>1, <3>2
  <2>4. ASSUME NEW i \in DOMAIN union, NEW j \in DOMAIN union, union[i] = union[j]
        PROVE  i = j
    <3>1. CASE union[i] \in Range(names)
      <4>1. i \in DOMAIN names /\ union[i] = names[i]
        BY <2>3, <3>1
      <4>2. j \in DOMAIN names /\ union[j] = names[j]
        BY <2>3, <2>4, <3>1
      <4>. QED
        BY <2>1, <2>4, <4>1, <4>2
    <3>2. CASE union[i] \notin Range(names)
      <4>1. i - Len(names) \in DOMAIN rest /\ union[i] = rest[i - Len(names)]
        BY <2>3, <3>2
      <4>2. j - Len(names) \in DOMAIN rest /\ union[j] = rest[j - Len(names)]
        BY <2>3, <2>4, <3>2
      <4>3. i - Len(names) = j - Len(names)
        BY <2>2, <2>4, <4>1, <4>2
      <4>. QED
        BY <1>7, <4>3
    <3>. QED
      BY <3>1, <3>2
  <2>. QED
    BY <2>4 DEF IsInjective
<1>10. Range(union) = Range(names) \union Range(keys)
  BY <1>6, <1>8
<1>. QED
  BY <1>9, <1>10 DEF union, keys

Survived == { k \in DOMAIN judged : judged[k] = "survived" }
FieldsShown(i) == { FieldShown(k, i) : k \in Survived }
PathsShown(j) == { PathShown(k, j) : k \in Survived }

\* What is observed of a field is the least type that holds what the survivors
\* show, and nothing more.
LeastInv ==
  Live => /\ \A i \in DOMAIN names : Joins(seen.fields[i], FieldsShown(i))
          /\ \A j \in DOMAIN Outputs(directive.transform) :
               Joins(seen.flatten[j], PathsShown(j))

\* The key union repeats no key, and has none that no record has.
UnionInv ==
  Live /\ ~Csv =>
    /\ IsInjective(names)
    /\ \A name \in Range(names) :
         \E k \in DOMAIN judged : name \in Range(KeysOf(source.records[k]))

DirectiveInv ==
  /\ pc \in {"observe", "build"} => directive = Directive /\ ConfigCode = "ok"
  /\ Live => Steered(directive)
  /\ resolution.code = "ok" => names # <<>>

\* A step that judges no record shows nothing more.
LEMMA ShownStay ==
  ASSUME UNCHANGED <<def, source, directive, names, judged>>
  PROVE  /\ \A i : FieldsShown(i)' = FieldsShown(i)
         /\ \A j : PathsShown(j)' = PathsShown(j)
<1>1. Survived' = Survived
  BY DEF Survived
<1>2. ASSUME NEW i PROVE FieldsShown(i)' = FieldsShown(i)
  <2>1. \A k : FieldShown(k, i)' = FieldShown(k, i)
    BY RowsStay
  <2>2. FieldsShown(i)' = { FieldShown(k, i)' : k \in Survived' }
    BY DEF FieldsShown
  <2>. QED
    BY <1>1, <2>1, <2>2 DEF FieldsShown
<1>3. ASSUME NEW j PROVE PathsShown(j)' = PathsShown(j)
  <2>1. \A k : PathShown(k, j)' = PathShown(k, j)
    BY RowsStay
  <2>2. PathsShown(j)' = { PathShown(k, j)' : k \in Survived' }
    BY DEF PathsShown
  <2>. QED
    BY <1>1, <2>1, <2>2 DEF PathsShown
<1>. QED
  BY <1>2, <1>3

\* A step that neither judges nor observes keeps what is observed least.
LEMMA LeastStays ==
  ASSUME Live, LeastInv, UnionInv, UNCHANGED <<def, source, directive, names, seen, judged>>
  PROVE  LeastInv' /\ UnionInv'
<1>1. LeastInv'
  <2>1. \A i : FieldsShown(i)' = FieldsShown(i)
    BY ShownStay
  <2>2. \A j : PathsShown(j)' = PathsShown(j)
    BY ShownStay
  <2>3. \A i \in DOMAIN names : Joins(seen.fields[i], FieldsShown(i)')
    BY <2>1 DEF LeastInv
  <2>4. \A j \in DOMAIN Outputs(directive.transform) : Joins(seen.flatten[j], PathsShown(j)')
    BY <2>2 DEF LeastInv
  <2>. QED
    BY <2>3, <2>4 DEF LeastInv
<1>2. UnionInv'
  BY DEF UnionInv, Csv
<1>. QED
  BY <1>1, <1>2

\* Configuring a load starts it with nothing observed.
LEMMA LeastConfigure == ASSUME IInv, Configure PROVE LeastInv' /\ UnionInv'
<1>1. /\ Files /\ judged' = <<>> /\ resolution' = NotRun
      /\ (ConfigCode = "ok" =>
            Directed(Directive) /\ (Csv => DOMAIN Outputs(Directive.transform) = {}))
  BY ConfigResult DEF IInv, TypeOK, FreshInv, Configure
<1>2. CASE ConfigCode # "ok"
  <2>1. ~Live'
    BY <1>1, <1>2, NotRunIs DEF Configure, Fails, Live
  <2>. QED
    BY <2>1 DEF LeastInv, UnionInv
<1>3. CASE ConfigCode = "ok"
  <2> DEFINE out == Outputs(Directive.transform)
  <2>1. /\ directive' = Directive /\ Csv' = Csv
        /\ names' = IF Csv THEN source.header ELSE <<>>
        /\ seen'.fields = IF Csv THEN Nulls(source.header) ELSE <<>>
        /\ seen'.flatten = Nulls(out)
    BY <1>3 DEF Configure, Csv
  <2>2. Listed(out) /\ Listed(source.header)
    BY <1>1, <1>3, TransformLists DEF Directed, Files
  <2>3. /\ \A k \in DOMAIN source.header : Nulls(source.header)[k] = "null"
        /\ \A k \in DOMAIN out : Nulls(out)[k] = "null"
    BY DEF Nulls
  <2>4. Survived' = {}
    BY <1>1, EmptyIs DEF Survived
  <2>5. (\A i : FieldsShown(i)' = {}) /\ (\A j : PathsShown(j)' = {})
    BY <2>4 DEF FieldsShown, PathsShown
  <2>6. Joins("null", {})
    BY JoinNull
  <2>7. \A i \in DOMAIN names' : seen'.fields[i] = "null"
    <3>1. CASE Csv
      BY <2>1, <2>3, <3>1
    <3>2. CASE ~Csv
      <4>1. DOMAIN names' = {}
        BY <2>1, <3>2, EmptyIs
      <4>. QED
        BY <4>1
    <3>. QED
      BY <3>1, <3>2
  <2>8. \A j \in DOMAIN Outputs(directive'.transform) : seen'.flatten[j] = "null"
    BY <2>1, <2>3
  <2> HIDE DEF out
  <2>9. LeastInv'
    <3>1. \A i \in DOMAIN names' : Joins(seen'.fields[i], FieldsShown(i)')
      BY <2>5, <2>6, <2>7
    <3>2. \A j \in DOMAIN Outputs(directive'.transform) : Joins(seen'.flatten[j], PathsShown(j)')
      BY <2>5, <2>6, <2>8
    <3>. QED
      BY <3>1, <3>2 DEF LeastInv
  <2>10. UnionInv'
    <3> SUFFICES ASSUME ~Csv PROVE UnionInv'
      BY <2>1 DEF UnionInv
    <3>1. names' = <<>> /\ DOMAIN names' = {}
      BY <2>1, EmptyIs
    <3>2. IsInjective(names') /\ Range(names') = {}
      BY <3>1 DEF IsInjective, Range
    <3>. QED
      BY <3>2 DEF UnionInv
  <2>. QED
    BY <2>9, <2>10
<1>. QED
  BY <1>2, <1>3

\* Observing a record merges in what it shows, if it survives.
LEMMA LeastObserve == ASSUME IInv, LeastInv, UnionInv, Observe PROVE LeastInv' /\ UnionInv'
<1>1. /\ Files /\ Listed(names) /\ judged \in Seq(Judgements) /\ Live
      /\ pc = "observe" /\ Directed(directive)
  BY DEF IInv, TypeOK, FreshInv, KnownInv, Live, Observe
<1>2. /\ UNCHANGED <<def, source, pin, pc, directive, known, resolution, result>>
      /\ Csv' = Csv
  BY DEF Observe, Csv
<1>3. PICK n : n = Len(judged) + 1
  OBVIOUS
<1>4. /\ n \in DOMAIN source.records /\ Listed(names')
      /\ \A i \in DOMAIN names : i \in DOMAIN names' /\ names'[i] = names[i]
      /\ \A i \in DOMAIN names' \ DOMAIN names : ~Csv /\ names'[i] \notin Range(names)
  BY <1>3, ObserveNames
<1> DEFINE survived == known.ok /\ ~Condemned(n)
           Old(i) == IF i \in DOMAIN names THEN seen.fields[i] ELSE "null"
           outputs == Outputs(directive.transform)
           verdict == IF ~known.ok THEN "unjudged"
                      ELSE IF Condemned(n) THEN "rejected" ELSE "survived"
<1>5. judged' = Append(judged, verdict) /\ verdict \in Judgements
  BY <1>3 DEF Observe, Condemned, Judgements
<1>6. verdict = "survived" <=> survived
  OBVIOUS
<1>7. /\ \A i \in DOMAIN names' :
           seen'.fields[i] = IF survived THEN Merge(Old(i), FieldShown(n, i)') ELSE Old(i)
      /\ \A j \in DOMAIN outputs :
           seen'.flatten[j] = IF survived THEN Merge(seen.flatten[j], PathShown(n, j))
                                          ELSE seen.flatten[j]
  BY <1>3, ObserveSeen
<1> HIDE DEF verdict, survived
<1>8. /\ DOMAIN judged' = 1 .. n /\ DOMAIN judged = 1 .. n - 1 /\ n \in Nat /\ n \in 1 .. n
      /\ \A m \in 1 .. n - 1 : judged'[m] = judged[m]
      /\ judged'[n] = verdict
  <2>1. DOMAIN source.records = 1 .. Len(source.records)
    BY <1>1, ListedIs DEF Files
  <2>. QED
    BY <1>1, <1>3, <1>4, <1>5, <2>1
<1>9. Survived' = IF survived THEN Survived \union {n} ELSE Survived
  <2>1. \A m : m \in Survived' <=> m \in 1 .. n /\ judged'[m] = "survived"
    BY <1>8 DEF Survived
  <2>2. \A m : m \in Survived <=> m \in 1 .. n - 1 /\ judged[m] = "survived"
    BY <1>8 DEF Survived
  <2>3. \A m : m \in 1 .. n <=> m \in 1 .. n - 1 \/ m = n
    BY <1>8
  <2>4. \A m \in 1 .. n - 1 : m # n
    BY <1>8
  <2>5. ASSUME NEW m
        PROVE  m \in Survived' <=> m \in Survived \/ (survived /\ m = n)
    <3>1. CASE m = n
      <4>1. m \notin Survived
        BY <2>2, <2>4, <3>1
      <4>. QED
        BY <1>6, <1>8, <2>1, <2>3, <3>1, <4>1
    <3>2. CASE m # n
      BY <1>8, <2>1, <2>2, <2>3, <3>2
    <3>. QED
      BY <3>1, <3>2
  <2>. QED
    BY <2>5
<1>10. ASSUME NEW m PROVE /\ Row(m)' = Row(m)
                          /\ \A i : names'[i] = names[i] => FieldShown(m, i)' = FieldShown(m, i)
                          /\ \A j : PathShown(m, j)' = PathShown(m, j)
  BY <1>2, RowsStay
<1>11. /\ \A m, i : FieldShown(m, i) \in Observable
       /\ \A m, j : PathShown(m, j) \in Observable
  BY InferIn DEF FieldShown, PathShown
<1>12. ASSUME NEW m, NEW i
       PROVE FieldShown(m, i)' = Infer(IF Csv THEN Row(m)[i] ELSE Get(Row(m), names'[i]))
  BY <1>2, <1>10 DEF FieldShown, Infer, Absent, Csv
<1>13. \A i : FieldShown(n, i)' \in Observable
  BY <1>12, InferIn
<1>14. ASSUME NEW i \in DOMAIN names'
       PROVE  Joins(Old(i), { FieldShown(k, i)' : k \in Survived })
              /\ { FieldShown(k, i)' : k \in Survived } \subseteq Observable
  <2>1. CASE i \in DOMAIN names
    <3>1. \A k : FieldShown(k, i)' = FieldShown(k, i)
      BY <1>4, <1>10, <2>1
    <3>2. { FieldShown(k, i)' : k \in Survived } = FieldsShown(i)
      BY <3>1 DEF FieldsShown
    <3>3. FieldsShown(i) \subseteq Observable
      BY <1>11 DEF FieldsShown
    <3>. QED
      BY <1>1, <2>1, <3>2, <3>3 DEF LeastInv
  <2>2. CASE i \notin DOMAIN names
    <3>1. ~Csv /\ names'[i] \notin Range(names)
      BY <1>4, <1>14, <2>2
    <3>2. ASSUME NEW k \in Survived PROVE FieldShown(k, i)' = "null"
      <4>1. k \in DOMAIN judged /\ k \in DOMAIN source.records
        <5>1. k \in 1 .. n - 1 /\ Listed(source.records)
          BY <1>1, <1>8, <3>2 DEF Survived, Files
        <5>. QED
          BY <1>4, <1>8, <5>1, ListedIs
      <4>2. /\ Row(k) = JsonObject(source.records[k]) /\ Listed(source.records[k])
            /\ \A p \in DOMAIN source.records[k] : source.records[k][p].key # names'[i]
        BY <1>1, <3>1, <4>1 DEF IInv, JudgedInv, Row, Files
      <4>3. Get(Row(k), names'[i]) = Missing
        BY <4>2, GetMissing
      <4>. QED
        BY <1>12, <3>1, <4>3 DEF Infer, Absent, Missing, IsNull
    <3>3. { FieldShown(k, i)' : k \in Survived } \subseteq {"null"}
      BY <3>2
    <3>4. Old(i) = "null" /\ "null" \in Observable
      BY <2>2 DEF Observable
    <3> HIDE DEF Old
    <3>. QED
      BY <3>3, <3>4, JoinNull
  <2>. QED
    BY <2>1, <2>2
<1> HIDE DEF Old
<1>15. ASSUME NEW i \in DOMAIN names' PROVE Joins(seen'.fields[i], FieldsShown(i)')
  <2>1. FieldsShown(i)' = { FieldShown(k, i)' : k \in Survived' }
    BY DEF FieldsShown
  <2>2. CASE survived
    <3>1. FieldsShown(i)' = { FieldShown(k, i)' : k \in Survived } \union {FieldShown(n, i)'}
      BY <1>9, <2>1, <2>2
    <3> DEFINE V == { FieldShown(k, i)' : k \in Survived }
               v == FieldShown(n, i)'
    <3>2. seen'.fields[i] = Merge(Old(i), v) /\ v \in Observable
      BY <1>7, <1>13, <1>15, <2>2
    <3>3. Joins(Old(i), V) /\ V \subseteq Observable /\ FieldsShown(i)' = V \union {v}
      BY <1>14, <1>15, <3>1
    <3> HIDE DEF V, v
    <3>4. Joins(Merge(Old(i), v), V \union {v})
      BY <3>2, <3>3, JoinMore
    <3>. QED
      BY <3>2, <3>3, <3>4
  <2>3. CASE ~survived
    <3>1. FieldsShown(i)' = { FieldShown(k, i)' : k \in Survived }
      BY <1>9, <2>1, <2>3
    <3>. QED
      BY <1>7, <1>14, <1>15, <2>3, <3>1
  <2>. QED
    BY <2>2, <2>3
<1>16. ASSUME NEW j \in DOMAIN outputs PROVE Joins(seen'.flatten[j], PathsShown(j)')
  <2>1. PathsShown(j)' = { PathShown(k, j) : k \in Survived' }
    <3>1. PathsShown(j)' = { PathShown(k, j)' : k \in Survived' }
      BY DEF PathsShown
    <3>2. \A k : PathShown(k, j)' = PathShown(k, j)
      BY <1>10
    <3>. QED
      BY <3>1, <3>2
  <2>2. Joins(seen.flatten[j], PathsShown(j)) /\ PathsShown(j) \subseteq Observable
    BY <1>1, <1>11, <1>16 DEF LeastInv, PathsShown
  <2>3. CASE survived
    <3>1. PathsShown(j)' = PathsShown(j) \union {PathShown(n, j)}
      BY <1>9, <2>1, <2>3 DEF PathsShown
    <3>2. seen'.flatten[j] = Merge(seen.flatten[j], PathShown(n, j)) /\ PathShown(n, j) \in Observable
      BY <1>7, <1>11, <1>16, <2>3
    <3>3. Joins(Merge(seen.flatten[j], PathShown(n, j)), PathsShown(j) \union {PathShown(n, j)})
      BY <2>2, <3>2, JoinMore
    <3>. QED
      BY <3>1, <3>2, <3>3
  <2>4. CASE ~survived
    <3>1. PathsShown(j)' = PathsShown(j)
      BY <1>9, <2>1, <2>4 DEF PathsShown
    <3>. QED
      BY <1>7, <1>16, <2>2, <2>4, <3>1
  <2>. QED
    BY <2>3, <2>4
<1>17. LeastInv'
  <2>1. outputs = Outputs(directive'.transform)
    BY <1>2
  <2>. QED
    BY <1>15, <1>16, <2>1 DEF LeastInv
<1>18. UnionInv'
  <2> SUFFICES ASSUME ~Csv PROVE UnionInv'
    BY <1>2 DEF UnionInv
  <2> DEFINE record == source.records[n]
  <2>1. names' = UnionNames(record)
    BY <1>3 DEF Observe
  <2>2. Listed(record) /\ IsInjective(KeysOf(record))
    BY <1>1, <1>4 DEF Files
  <2> HIDE DEF record
  <2>3. /\ Range(names') = Range(names) \union Range(KeysOf(record))
        /\ IsInjective(names) => IsInjective(names')
    BY <1>1, <2>1, <2>2, UnionGrows
  <2>4. IsInjective(names')
    BY <1>1, <2>3 DEF UnionInv
  <2>5. ASSUME NEW name \in Range(names')
        PROVE  \E k \in DOMAIN judged' : name \in Range(KeysOf(source.records[k]))
    <3>1. CASE name \in Range(names)
      <4>1. PICK k \in DOMAIN judged : name \in Range(KeysOf(source.records[k]))
        BY <1>1, <3>1 DEF UnionInv
      <4>2. k \in DOMAIN judged'
        BY <1>8
      <4>. QED
        BY <4>1, <4>2
    <3>2. CASE name \in Range(KeysOf(record))
      BY <1>8, <3>2 DEF record
    <3>. QED
      BY <2>3, <2>5, <3>1, <3>2
  <2>. QED
    BY <1>2, <2>4, <2>5 DEF UnionInv
<1>. QED
  BY <1>17, <1>18

\* Every step keeps what is observed least.
LEMMA LeastStep ==
  ASSUME IInv, LeastInv, UnionInv, [Next]_vars PROVE LeastInv' /\ UnionInv'
<1>1. CASE Configure
  BY <1>1, LeastConfigure
<1>2. CASE Observe
  BY <1>2, LeastObserve
<1>3. CASE Finish
  <2>1. Live /\ UNCHANGED <<def, source, directive, names, seen, judged>>
    BY <1>3 DEF Finish, Live
  <2>. QED
    BY <2>1, LeastStays
<1>4. CASE BuildChunk
  <2>1. Live /\ UNCHANGED <<def, source, directive, names, seen, judged>>
    BY <1>4 DEF BuildChunk, Live
  <2>. QED
    BY <2>1, LeastStays
<1>5. CASE RunAgain
  <2>1. ~Live'
    BY <1>5, NotRunIs DEF RunAgain, Live
  <2>. QED
    BY <2>1 DEF LeastInv, UnionInv
<1>6. CASE UNCHANGED vars
  <2>1. UNCHANGED <<def, source, directive, names, seen, judged>> /\ (Live' <=> Live)
    BY <1>6 DEF vars, Live
  <2>2. CASE Live
    BY <2>1, <2>2, LeastStays
  <2>3. CASE ~Live
    BY <2>1, <2>3 DEF LeastInv, UnionInv
  <2>. QED
    BY <2>2, <2>3
<1>. QED
  BY <1>1, <1>2, <1>3, <1>4, <1>5, <1>6 DEF Next

\* Every step keeps the directive one that steers.
LEMMA DirectiveStep == ASSUME IInv, DirectiveInv, [Next]_vars PROVE DirectiveInv'
<1>1. CASE Configure
  <2>1. resolution' = NotRun /\ Files /\ UNCHANGED <<def, pin>>
    BY <1>1 DEF IInv, TypeOK, FreshInv, Configure
  <2>2. Directive' = Directive /\ ConfigCode' = ConfigCode
    BY <2>1 DEF Directive, ConfigCode
  <2>3. CASE ConfigCode # "ok"
    BY <1>1, <2>1, <2>3, NotRunIs DEF Configure, Fails, DirectiveInv, Live
  <2>4. CASE ConfigCode = "ok"
    <3>1. directive' = Directive /\ Steered(Directive)
      BY <1>1, <2>1, <2>4, ConfigSteers DEF Configure
    <3>. QED
      BY <2>1, <2>2, <2>4, <3>1, NotRunIs DEF DirectiveInv
  <2>. QED
    BY <2>3, <2>4
<1>2. CASE Observe
  <2>1. /\ UNCHANGED <<def, pin, pc, directive, resolution>> /\ resolution = NotRun
        /\ pc = "observe"
    BY <1>2 DEF Observe, IInv, FreshInv
  <2>2. Directive' = Directive /\ ConfigCode' = ConfigCode
    BY <2>1 DEF Directive, ConfigCode
  <2>. QED
    BY <2>1, <2>2, NotRunIs DEF DirectiveInv, Live
<1>3. CASE Finish
  <2>1. /\ UNCHANGED <<def, pin, directive, names>> /\ resolution = NotRun
        /\ pc = "observe" /\ pc' \in {"over", "build"}
        /\ names = <<>> => resolution' = resolution
    BY <1>3 DEF Finish, Fails, IInv, FreshInv
  <2>2. Directive' = Directive /\ ConfigCode' = ConfigCode
    BY <2>1 DEF Directive, ConfigCode
  <2>. QED
    BY <2>1, <2>2, NotRunIs DEF DirectiveInv, Live
<1>4. CASE BuildChunk
  <2>1. UNCHANGED <<directive, names, resolution>> /\ pc = "build" /\ pc' = "over"
    BY <1>4 DEF BuildChunk, Fails
  <2>. QED
    BY <2>1 DEF DirectiveInv, Live
<1>5. CASE RunAgain
  BY <1>5, NotRunIs DEF RunAgain, DirectiveInv, Live
<1>6. CASE UNCHANGED vars
  <2>1. UNCHANGED <<def, pin, pc, directive, names, resolution>>
    BY <1>6 DEF vars
  <2>2. Directive' = Directive /\ ConfigCode' = ConfigCode
    BY <2>1 DEF Directive, ConfigCode
  <2>. QED
    BY <2>1, <2>2 DEF DirectiveInv, Live
<1>. QED
  BY <1>1, <1>2, <1>3, <1>4, <1>5, <1>6 DEF Next

\* At the end of input the key union is the keys of the records.
LEMMA UnionWhole ==
  ASSUME IInv, UnionInv, Live, ~Csv, Len(judged) = Len(source.records)
  PROVE  IsInjective(names) /\ Range(names) = KeysIn(source.records)
<1>1. Files /\ judged \in Seq(Judgements)
  BY DEF IInv, TypeOK
<1>2. IsInjective(names)
  BY DEF UnionInv
<1>3. DOMAIN judged = DOMAIN source.records
  BY <1>1, ListedIs DEF Files
<1>4. ASSUME NEW name \in Range(names) PROVE name \in KeysIn(source.records)
  <2>1. PICK k \in DOMAIN judged : name \in Range(KeysOf(source.records[k]))
    BY <1>4 DEF UnionInv
  <2>2. PICK p \in DOMAIN source.records[k] : source.records[k][p].key = name
    BY <2>1 DEF Range, KeysOf
  <2>3. source.records[k] \in Range(source.records)
    BY <1>3, <2>1 DEF Range
  <2>4. source.records[k][p] \in Range(source.records[k])
    BY <2>2 DEF Range
  <2>. QED
    BY <2>2, <2>3, <2>4 DEF KeysIn
<1>5. ASSUME NEW name \in KeysIn(source.records) PROVE name \in Range(names)
  <2>1. PICK record \in Range(source.records) : \E x \in Range(record) : x.key = name
    BY <1>5 DEF KeysIn
  <2>2. PICK k \in DOMAIN source.records : source.records[k] = record
    BY <2>1 DEF Range
  <2>3. PICK p \in DOMAIN record : record[p].key = name
    BY <2>1 DEF Range
  <2>. QED
    BY <1>3, <2>2, <2>3 DEF IInv, JudgedInv
<1>. QED
  BY <1>2, <1>4, <1>5

\* The records that survive are those pass 1 kept.
LEMMA SurvivedAre ==
  ASSUME IInv, resolution.code = "ok"
  PROVE  Survived = Survive(source.records, resolution.checks)
<1>1. /\ Live /\ TypeOK /\ KnownInv /\ JudgedInv /\ Files
      /\ resolution = ResolvePlan(directive, def.keys, names, seen.fields \o seen.flatten)
      /\ Len(judged) = Len(source.records) /\ judged \in Seq(Judgements)
  BY DEF IInv, TypeOK, ResolvedInv, Live
<1>2. /\ Verdict(directive, def.keys, names) = "ok"
      /\ resolution.checks =
           ResolvedChecks(directive, def.keys, ResolvedColumns(directive.transform, names))
  BY <1>1, PlanIs
<1>3. DOMAIN judged = DOMAIN source.records
  BY <1>1, ListedIs DEF Files
<1>4. ASSUME NEW k \in DOMAIN judged
      PROVE  judged[k] = "survived" <=> ~ViolatesAny(RowOf(source.records[k]), resolution.checks)
  <2>1. known.ok /\ (Condemned(k) <=> ViolatesAny(Row(k), resolution.checks))
    BY <1>1, <1>2, JudgedAlike DEF Condemned
  <2>2. judged[k] = IF ~known.ok THEN "unjudged"
                    ELSE IF Condemned(k) THEN "rejected" ELSE "survived"
    BY <1>1 DEF JudgedInv
  <2>3. Row(k) = RowOf(source.records[k])
    BY DEF Row, RowOf
  <2>. QED
    BY <2>1, <2>2, <2>3
<1>. QED
  BY <1>3, <1>4 DEF Survived, Survive

\* What a load resolved, it resolved of its records under its directive.
LEMMA PlanResolves ==
  ASSUME IInv, LeastInv, UnionInv, DirectiveInv, resolution.code = "ok"
  PROVE  Resolves(directive, source.header, source.records, names,
                  seen.fields \o seen.flatten, resolution)
<1> DEFINE t == directive.transform
           columns == ResolvedColumns(t, names)
           outputs == Outputs(t)
           types == seen.fields \o seen.flatten
<1>1. /\ Live /\ Directed(directive) /\ Listed(names) /\ Listed(def.keys) /\ Files
      /\ resolution = ResolvePlan(directive, def.keys, names, types)
      /\ Len(judged) = Len(source.records)
      /\ Csv => DOMAIN outputs = {} /\ names = source.header
      /\ judged \in Seq(Judgements) /\ seen \in Seen
      /\ Steered(directive) /\ names # <<>>
  BY DEF IInv, TypeOK, KnownInv, ResolvedInv, Live, Files, DirectiveInv
<1>2. /\ Verdict(directive, def.keys, names) = "ok" /\ resolution.columns = columns
  BY <1>1, PlanIs
<1>3. ~UnknownFields(t, names) /\ Sound(t)
  BY <1>1, <1>2, VerdictResult DEF Agreed, Directed
<1>4. /\ \A i \in DOMAIN names : Joins(seen.fields[i], FieldsShown(i))
      /\ \A j \in DOMAIN outputs : Joins(seen.flatten[j], PathsShown(j))
      /\ Len(seen.fields) = Len(names) /\ Len(seen.flatten) = Len(outputs)
  BY <1>1 DEF IInv, TypesInv, LeastInv
<1>5. seen.fields \o seen.flatten = types
  OBVIOUS
<1> HIDE DEF columns, outputs, types
<1>8. Survived = Survive(source.records, resolution.checks)
  BY SurvivedAre
<1>9. ASSUME NEW column \in Range(columns)
      PROVE  Joins(types[column.index], Shown(source.records, resolution.checks, column))
  <2>1. \A k : RowOf(source.records[k]) = Row(k)
    BY DEF Row, RowOf
  <2>2. Shown(source.records, resolution.checks, column) =
          { Infer(ValueAt(Row(k), column)) : k \in Survived }
    BY <1>8, <2>1 DEF Shown
  <2>3. \/ \E i \in DOMAIN names :
             /\ types[column.index] = seen.fields[i]
             /\ \A k : Infer(ValueAt(Row(k), column)) = FieldShown(k, i)
        \/ \E j \in DOMAIN outputs :
             /\ types[column.index] = seen.flatten[j]
             /\ \A k : Infer(ValueAt(Row(k), column)) = PathShown(k, j)
    BY <1>1, <1>3, <1>4, <1>9, ColumnShows DEF columns, outputs, types
  <2>4. ASSUME NEW i \in DOMAIN names, types[column.index] = seen.fields[i],
               \A k : Infer(ValueAt(Row(k), column)) = FieldShown(k, i)
        PROVE  Joins(types[column.index], Shown(source.records, resolution.checks, column))
    BY <1>4, <2>2, <2>4 DEF FieldsShown
  <2>5. ASSUME NEW j \in DOMAIN outputs, types[column.index] = seen.flatten[j],
               \A k : Infer(ValueAt(Row(k), column)) = PathShown(k, j)
        PROVE  Joins(types[column.index], Shown(source.records, resolution.checks, column))
    BY <1>4, <2>2, <2>5 DEF PathsShown
  <2>. QED
    BY <2>3, <2>4, <2>5
<1>10. ASSUME ~Csv PROVE IsInjective(names) /\ Range(names) = KeysIn(source.records)
  BY <1>1, <1>10, UnionWhole
<1>. QED
  BY <1>1, <1>2, <1>9, <1>10 DEF Resolves, types

-----------------------------------------------------------------------------
(* What a load leaves to the one that follows it.                          *)

Chunk == [k \in DOMAIN batch |-> source.records[batch[k].record]]

\* What a load that went through leaves: the survivors, and the pin.
BatchInv ==
  pc = "over" /\ result = "ok" =>
    /\ resolution.code = "ok"
    /\ Chunk = Kept(source.records, Survive(source.records, resolution.checks))
    /\ Distinct(resolution.columns) =>
         ConfigCode = "ok" /\ Directive = NextDirective(directive, resolution)

\* Which records survive depends on the definition alone.
LEMMA SurviveStays ==
  ASSUME def' = def, NEW records, NEW checks
  PROVE  Survive(records, checks)' = Survive(records, checks)
<1>1. Csv' = Csv
  BY DEF Csv
<1>2. ASSUME NEW record PROVE ViolatesAny(record, checks)' <=> ViolatesAny(record, checks)
  BY <1>1 DEF ViolatesAny, Violates, ValueAt, Absent, Fits
<1>3. ASSUME NEW record PROVE RowOf(record)' = RowOf(record)
  BY <1>1 DEF RowOf
<1>4. ASSUME NEW k \in DOMAIN records
      PROVE  ViolatesAny(RowOf(records[k]), checks)' <=> ViolatesAny(RowOf(records[k]), checks)
  <2>1. PICK row : row = RowOf(records[k])
    OBVIOUS
  <2>2. RowOf(records[k])' = row
    BY <1>3, <2>1
  <2>3. ViolatesAny(row, checks)' <=> ViolatesAny(row, checks)
    BY <1>2
  <2>4. ViolatesAny(RowOf(records[k]), checks)' <=> ViolatesAny(row, checks)'
    BY <2>2 DEF ViolatesAny, Violates, ValueAt, Absent, Fits
  <2>. QED
    BY <2>1, <2>3, <2>4
<1>5. Survive(records, checks)' = { k \in DOMAIN records : ~(ViolatesAny(RowOf(records[k]), checks)') }
  BY DEF Survive
<1>. QED
  BY <1>4, <1>5 DEF Survive

\* The records a batch is built of are the survivors.
LEMMA ChunkKept ==
  ASSUME IInv, BuildChunk
  PROVE  Chunk' = Kept(source.records, Survive(source.records, resolution.checks))
<1> DEFINE numbers == [k \in DOMAIN source.records |-> k]
           kept == Survive(source.records, resolution.checks)
           chosen == Picked(numbers, kept)
<1>1. Survivors = chosen
  BY DEF Survivors, Survive, RowOf, Row
<1>2. Kept(source.records, kept) = [n \in DOMAIN chosen |-> source.records[chosen[n]]]
  BY DEF Kept
<1> HIDE DEF numbers, kept, chosen
<1>3. /\ source' = source /\ DOMAIN batch' = DOMAIN chosen
      /\ \A j \in DOMAIN chosen : batch'[j].record = chosen[j]
  BY <1>1 DEF BuildChunk
<1>. QED
  BY <1>2, <1>3 DEF Chunk, kept

\* Building the batch leaves the survivors and the pin.
LEMMA BatchBuild ==
  ASSUME IInv, LeastInv, UnionInv, DirectiveInv, BuildChunk PROVE BatchInv'
<1>1. /\ pc = "build" /\ resolution.code = "ok" /\ Live /\ Files
      /\ UNCHANGED <<def, source, directive, resolution>>
      /\ pin' = IF resolution.pinWrite.ok THEN resolution.pinWrite ELSE pin
  BY DEF BuildChunk, IInv, TypeOK, ResolvedInv, Live
<1>2. Files'
  BY BuildChunkStep DEF IInv, TypeOK
<1>3. Chunk' = Kept(source'.records, Survive(source.records, resolution.checks)')
  <2>1. PICK records, checks : records = source.records /\ checks = resolution.checks
    OBVIOUS
  <2>2. Survive(records, checks)' = Survive(records, checks)
    BY <1>1, SurviveStays
  <2>3. Survive(source.records, resolution.checks)' = Survive(records, checks)'
    <3>1. (source.records)' = records /\ (resolution.checks)' = checks
      BY <1>1, <2>1
    <3>. QED
      BY <3>1 DEF Survive, ViolatesAny
  <2>. QED
    BY <1>1, <2>1, <2>2, <2>3, ChunkKept
<1>4. ASSUME Distinct(resolution.columns)
      PROVE  ConfigCode' = "ok" /\ Directive' = NextDirective(directive, resolution)
  <2>1. directive = Directive /\ ConfigCode = "ok"
    BY <1>1 DEF DirectiveInv
  <2>2. PICK dir, header, records, fields, types, plan :
          /\ dir = directive /\ header = source.header /\ records = source.records
          /\ fields = names /\ types = seen.fields \o seen.flatten /\ plan = resolution
    OBVIOUS
  <2>3. Resolves(dir, header, records, fields, types, plan)
    BY <1>1, <2>2, PlanResolves
  <2>4. plan.pinWrite.ok => PinReads(plan.pinWrite.value)
    BY <1>4, <2>2, <2>3, SteeredNext
  <2>5. plan.pinWrite.ok => dir.mode \in {"pinned", "pin_inferred"}
    <3> DEFINE keys == def.keys
    <3>1. plan = ResolvePlan(dir, keys, fields, types) /\ plan.code = "ok"
      BY <2>3 DEF Resolves
    <3> HIDE DEF keys
    <3>. QED
      BY <3>1, PlanPins
  <2>6. ConfigCode' = "ok" /\ Directive' = NextDirective(Directive, plan)
    <3>1. /\ plan.pinWrite.ok =>
               PinReads(plan.pinWrite.value) /\ Directive.mode \in {"pinned", "pin_inferred"}
          /\ pin' = IF plan.pinWrite.ok THEN plan.pinWrite ELSE pin
      BY <1>1, <2>1, <2>2, <2>4, <2>5
    <3>. QED
      BY <1>1, <1>2, <2>1, <3>1, WrittenConfig
  <2>. QED
    BY <2>1, <2>2, <2>6
<1>5. NextDirective(directive, resolution)' = NextDirective(directive, resolution)
  BY <1>1 DEF NextDirective
<1>. QED
  BY <1>1, <1>3, <1>4, <1>5 DEF BatchInv

\* Every step keeps what a load that is over left.
LEMMA BatchStep ==
  ASSUME IInv, LeastInv, UnionInv, DirectiveInv, BatchInv, [Next]_vars PROVE BatchInv'
<1>1. CASE Configure
  <2>1. pc' = "over" => result' = ConfigCode /\ ConfigCode # "ok"
    BY <1>1 DEF Configure, Fails
  <2>. QED
    BY <2>1 DEF BatchInv
<1>2. CASE Observe
  BY <1>2 DEF Observe, BatchInv
<1>3. CASE Finish
  <2>1. pc' = "over" => result' # "ok"
    BY <1>3 DEF Finish, Fails
  <2>. QED
    BY <2>1 DEF BatchInv
<1>4. CASE BuildChunk
  BY <1>4, BatchBuild
<1>5. CASE RunAgain
  BY <1>5 DEF RunAgain, BatchInv
<1>6. CASE UNCHANGED vars
  <2> SUFFICES ASSUME pc = "over", result = "ok" PROVE BatchInv'
    BY <1>6 DEF BatchInv, vars
  <2>1. UNCHANGED <<def, source, pin, pc, directive, resolution, batch, result>>
    BY <1>6 DEF vars
  <2>2. Directive' = Directive /\ ConfigCode' = ConfigCode /\ Chunk' = Chunk
    BY <2>1 DEF Directive, ConfigCode, Chunk
  <2>3. NextDirective(directive, resolution)' = NextDirective(directive, resolution)
    BY <2>1 DEF NextDirective
  <2>4. PICK records, checks : records = source.records /\ checks = resolution.checks
    OBVIOUS
  <2>5. Survive(records, checks)' = Survive(records, checks)
    BY <2>1, SurviveStays
  <2>6. Survive(source.records, resolution.checks)' = Survive(records, checks)'
    <3>1. (source.records)' = records /\ (resolution.checks)' = checks
      BY <2>1, <2>4
    <3>. QED
      BY <3>1 DEF Survive, ViolatesAny
  <2>. QED
    BY <2>1, <2>2, <2>3, <2>4, <2>5, <2>6 DEF BatchInv
<1>. QED
  BY <1>1, <1>2, <1>3, <1>4, <1>5, <1>6 DEF Next

\* What a load resolved stays so while the definition does.
LEMMA ResolvesStays ==
  ASSUME def' = def, NEW dir, NEW header, NEW records, NEW fields, NEW types, NEW plan,
         Resolves(dir, header, records, fields, types, plan)
  PROVE  Resolves(dir, header, records, fields, types, plan)'
<1>1. Csv' = Csv
  BY DEF Csv
<1>2. ASSUME NEW column PROVE Shown(records, plan.checks, column)' = Shown(records, plan.checks, column)
  <2>1. PICK checks : checks = plan.checks
    OBVIOUS
  <2>2. Survive(records, checks)' = Survive(records, checks)
    BY SurviveStays
  <2>3. \A k : Infer(ValueAt(RowOf(records[k]), column))' = Infer(ValueAt(RowOf(records[k]), column))
    BY <1>1 DEF Infer, ValueAt, Absent, RowOf
  <2>4. Shown(records, checks, column)' =
          { Infer(ValueAt(RowOf(records[k]), column))' : k \in Survive(records, checks)' }
    BY DEF Shown
  <2>5. Shown(records, checks, column)' = Shown(records, checks, column)
    BY <2>2, <2>3, <2>4 DEF Shown
  <2>. QED
    BY <2>1, <2>5
<1>3. /\ Steered(dir) /\ Listed(fields) /\ fields # <<>>
      /\ plan = ResolvePlan(dir, def.keys, fields, types) /\ plan.code = "ok"
      /\ Csv => fields = header
      /\ ~Csv => IsInjective(fields) /\ Range(fields) = KeysIn(records)
      /\ \A c \in Range(plan.columns) : Joins(types[c.index], Shown(records, plan.checks, c))
  BY DEF Resolves
<1>4. \A c \in Range(plan.columns) : Joins(types[c.index], Shown(records, plan.checks, c)')
  BY <1>2, <1>3
<1>. QED
  BY <1>1, <1>3, <1>4 DEF Resolves

\* A resolved plan builds: no cell of a survivor fails.
LEMMA BuildGoes == ASSUME IInv, BuildChunk PROVE result' = "ok"
<1> DEFINE rows == [j \in DOMAIN Survivors |-> Cells(Survivors[j])]
           a == Code(\E i \in DOMAIN rows : \E j \in DOMAIN rows[i] : ~rows[i][j].ok,
                     "schema_coercion_failed")
           b == Code(\E i \in DOMAIN rows : \E j \in DOMAIN rows[i] :
                       ~resolution.fields[j].nullable /\ rows[i][j] = Some(NullCell),
                     "record_batch_creation_failed")
           codes == {"ok", "schema_coercion_failed", "record_batch_creation_failed"}
<1>1. result' = FirstCode(<<a, b>>)
  BY DEF BuildChunk, Fails, BatchCode
<1>2. a \in codes /\ b \in codes
  BY DEF Code
<1> HIDE DEF a, b, rows
<1>3. <<a, b>> \in Seq(codes)
  BY <1>2
<1>4. result' \in codes
  BY <1>1, <1>3, FirstCodeResult, Zenon
<1>5. SurvivorsBuild'
  BY BuildChunkStep DEF IInv
<1>. QED
  BY <1>4, <1>5 DEF SurvivorsBuild

KeptOf(chunk, records) == [k \in DOMAIN chunk |-> records[chunk[k].record]]

\* What LoadsConverge says of a second load that is over.
Converged(was) ==
  /\ result = "ok" /\ ~resolution.pinWrite.ok
  /\ NameSet(resolution.fields) = NameSet(was.resolution.fields)
  /\ SameFields(was.resolution, resolution)
  /\ KeptOf(batch, source.records) \in
       {KeptOf(was.batch, was.source.records), Reverse(KeptOf(was.batch, was.source.records))}

\* The load under way is the second, under the pin the first one left.
Follows(was, dir, fields, types) ==
  /\ Listed(was.source.records)
  /\ Resolves(dir, was.source.header, was.source.records, fields, types, was.resolution)
  /\ KeptOf(was.batch, was.source.records) =
       Kept(was.source.records, Survive(was.source.records, was.resolution.checks))
  /\ source.header = was.source.header
  /\ source.records \in {was.source.records, Reverse(was.source.records)}
  /\ Distinct(was.resolution.columns) =>
       /\ pc = "configure" => ConfigCode = "ok" /\ Directive = NextDirective(dir, was.resolution)
       /\ pc \in {"observe", "build"} => directive = NextDirective(dir, was.resolution)
       /\ pc = "over" => Converged(was)

FirstInv ==
  load = 2 /\ first.value.result = "ok" =>
    \E dir, fields, types : Follows(first.value, dir, fields, types)

\* A step that changes neither keys, observation nor plan follows on.
LEMMA FollowsOn ==
  ASSUME NEW was, NEW dir, NEW fields, NEW types, Follows(was, dir, fields, types),
         UNCHANGED <<def, source>>,
         Distinct(was.resolution.columns) =>
           /\ pc' = "configure" => ConfigCode' = "ok" /\ Directive' = NextDirective(dir, was.resolution)
           /\ pc' \in {"observe", "build"} => directive' = NextDirective(dir, was.resolution)
           /\ pc' = "over" => Converged(was)'
  PROVE  Follows(was, dir, fields, types)'
<1>1. /\ Listed(was.source.records)
      /\ Resolves(dir, was.source.header, was.source.records, fields, types, was.resolution)
      /\ KeptOf(was.batch, was.source.records) =
           Kept(was.source.records, Survive(was.source.records, was.resolution.checks))
      /\ source'.header = was.source.header
      /\ source'.records \in {was.source.records, Reverse(was.source.records)}
  BY DEF Follows
<1>2. Resolves(dir, was.source.header, was.source.records, fields, types, was.resolution)'
  <2>1. PICK header, records, plan : /\ header = was.source.header
                                     /\ records = was.source.records /\ plan = was.resolution
    OBVIOUS
  <2>2. Resolves(dir, header, records, fields, types, plan)
    BY <1>1, <2>1
  <2>3. Resolves(dir, header, records, fields, types, plan)'
    BY <2>2, ResolvesStays
  <2>. QED
    BY <2>1, <2>3
<1>3. Survive(was.source.records, was.resolution.checks)' =
        Survive(was.source.records, was.resolution.checks)
  <2>1. PICK records, checks : records = was.source.records /\ checks = was.resolution.checks
    OBVIOUS
  <2>2. Survive(records, checks)' = Survive(records, checks)
    BY SurviveStays
  <2>. QED
    BY <2>1, <2>2
<1>. QED
  BY <1>1, <1>2, <1>3 DEF Follows

ConvergeInv == IInv /\ LeastInv /\ UnionInv /\ DirectiveInv /\ BatchInv /\ FirstInv

\* The verdict of the second load passes.
LEMMA FollowsFinish ==
  ASSUME ConvergeInv, NEW was, NEW dir, NEW fields, NEW types,
         Follows(was, dir, fields, types), Distinct(was.resolution.columns), Finish
  PROVE  pc' = "build" /\ directive' = NextDirective(dir, was.resolution)
<1>1. /\ IInv /\ UnionInv /\ Live /\ KnownInv /\ pc = "observe" /\ Listed(names)
      /\ Len(judged) = Len(source.records) /\ directive' = directive
  BY DEF ConvergeInv, IInv, TypeOK, Live, Finish
<1>2. /\ Listed(was.source.records) /\ source.header = was.source.header
      /\ Resolves(dir, was.source.header, was.source.records, fields, types, was.resolution)
      /\ source.records \in {was.source.records, Reverse(was.source.records)}
      /\ directive = NextDirective(dir, was.resolution)
  BY <1>1 DEF Follows
<1>3. PICK header, records, plan, others, again, later :
        /\ header = was.source.header /\ records = was.source.records
        /\ plan = was.resolution /\ others = source.records /\ again = names
        /\ later = seen.fields \o seen.flatten
  OBVIOUS
<1>4. KeysIn(others) = KeysIn(records)
  BY <1>2, <1>3, TurnedRange
<1>5. Csv => again = header
  BY <1>1, <1>2, <1>3 DEF KnownInv
<1>6. ~Csv => IsInjective(again) /\ Range(again) = KeysIn(others)
  BY <1>1, <1>3, UnionWhole
<1>7. again # <<>> /\ ResolvePlan(NextDirective(dir, plan), def.keys, again, later).code = "ok"
  <2>1. Resolves(dir, header, records, fields, types, plan) /\ Distinct(plan.columns)
        /\ Listed(again)
    BY <1>1, <1>2, <1>3
  <2>. QED
    BY <1>4, <1>5, <1>6, <2>1, CodeAgain
<1>8. names # <<>> /\ ResolvePlan(directive, def.keys, names, seen.fields \o seen.flatten).code = "ok"
  BY <1>2, <1>3, <1>7
<1>. QED
  BY <1>1, <1>2, <1>8 DEF Finish

\* The second load ends where the first did.
LEMMA FollowsBuild ==
  ASSUME ConvergeInv, NEW was, NEW dir, NEW fields, NEW types,
         Follows(was, dir, fields, types), Distinct(was.resolution.columns), BuildChunk
  PROVE  Converged(was)'
<1>1. /\ IInv /\ LeastInv /\ UnionInv /\ DirectiveInv /\ pc = "build" /\ resolution.code = "ok"
      /\ UNCHANGED <<def, source, resolution>> /\ Listed(def.keys)
  BY DEF ConvergeInv, IInv, TypeOK, Files, ResolvedInv, BuildChunk
<1>2. /\ Listed(was.source.records) /\ source.header = was.source.header
      /\ Resolves(dir, was.source.header, was.source.records, fields, types, was.resolution)
      /\ KeptOf(was.batch, was.source.records) =
           Kept(was.source.records, Survive(was.source.records, was.resolution.checks))
      /\ source.records \in {was.source.records, Reverse(was.source.records)}
      /\ directive = NextDirective(dir, was.resolution)
  BY <1>1 DEF Follows
<1>3. Resolves(directive, source.header, source.records, names,
               seen.fields \o seen.flatten, resolution)
  BY <1>1, PlanResolves
<1>4. PICK header, records, plan, others, again, later, now :
        /\ header = was.source.header /\ records = was.source.records
        /\ plan = was.resolution /\ others = source.records /\ again = names
        /\ later = seen.fields \o seen.flatten /\ now = resolution
  OBVIOUS
<1>5. /\ Resolves(dir, header, records, fields, types, plan)
      /\ Resolves(NextDirective(dir, plan), header, others, again, later, now)
      /\ Listed(records) /\ others \in {records, Reverse(records)} /\ Distinct(plan.columns)
  BY <1>2, <1>3, <1>4
<1>6. /\ ~now.pinWrite.ok /\ NameSet(now.fields) = NameSet(plan.fields)
      /\ SameFields(plan, now)
      /\ LET kept == Kept(records, Survive(records, plan.checks))
         IN Kept(others, Survive(others, now.checks)) \in {kept, Reverse(kept)}
  BY <1>1, <1>5, LoadsAgain
<1>7. Chunk' = Kept(others, Survive(others, now.checks))
  BY <1>1, <1>4, ChunkKept DEF ConvergeInv
<1>8. KeptOf(batch, source.records)' = Chunk'
  BY DEF KeptOf, Chunk
<1>9. result' = "ok"
  BY <1>1, BuildGoes
<1>10. KeptOf(was.batch, was.source.records) = Kept(records, Survive(records, plan.checks))
  BY <1>2, <1>4
<1>11. resolution' = now
  BY <1>1, <1>4
<1>. QED
  BY <1>4, <1>6, <1>7, <1>8, <1>9, <1>10, <1>11 DEF Converged

\* Every step of the second load follows the first.
LEMMA FollowsStep ==
  ASSUME ConvergeInv, load = 2, NEW was, NEW dir, NEW fields, NEW types,
         Follows(was, dir, fields, types), [Next]_vars
  PROVE  Follows(was, dir, fields, types)'
<1>1. CASE Configure
  <2>1. UNCHANGED <<def, source>> /\ pc = "configure"
    BY <1>1 DEF Configure
  <2>2. ASSUME Distinct(was.resolution.columns)
        PROVE  pc' = "observe" /\ directive' = NextDirective(dir, was.resolution)
    <3>1. ConfigCode = "ok" /\ Directive = NextDirective(dir, was.resolution)
      BY <2>1, <2>2 DEF Follows
    <3>. QED
      BY <1>1, <3>1 DEF Configure
  <2>. QED
    BY <2>1, <2>2, FollowsOn
<1>2. CASE Observe
  <2>1. UNCHANGED <<def, source, pc, directive>> /\ pc = "observe"
    BY <1>2 DEF Observe
  <2>2. Distinct(was.resolution.columns) => directive' = NextDirective(dir, was.resolution)
    BY <2>1 DEF Follows
  <2>. QED
    BY <2>1, <2>2, FollowsOn
<1>3. CASE Finish
  <2>1. UNCHANGED <<def, source>>
    BY <1>3 DEF Finish
  <2>2. Distinct(was.resolution.columns) =>
          pc' = "build" /\ directive' = NextDirective(dir, was.resolution)
    BY <1>3, FollowsFinish
  <2>. QED
    BY <2>1, <2>2, FollowsOn
<1>4. CASE BuildChunk
  <2>1. UNCHANGED <<def, source>> /\ pc' = "over"
    BY <1>4 DEF BuildChunk, Fails
  <2>2. Distinct(was.resolution.columns) => Converged(was)'
    BY <1>4, FollowsBuild
  <2>. QED
    BY <2>1, <2>2, FollowsOn
<1>5. CASE RunAgain
  BY <1>5 DEF RunAgain
<1>6. CASE UNCHANGED vars
  <2>1. UNCHANGED <<def, source, pin, pc, directive, resolution, batch, result>>
    BY <1>6 DEF vars
  <2>2. Directive' = Directive /\ ConfigCode' = ConfigCode
    BY <2>1 DEF Directive, ConfigCode
  <2>3. Converged(was)' <=> Converged(was)
    BY <2>1 DEF Converged
  <2>. QED
    BY <2>1, <2>2, <2>3, FollowsOn DEF Follows
<1>. QED
  BY <1>1, <1>2, <1>3, <1>4, <1>5, <1>6 DEF Next

\* The definition is run again after a load that went through.
LEMMA FollowsAgain ==
  ASSUME ConvergeInv, RunAgain, result = "ok",
         NEW was, was = first'.value
  PROVE  \E dir, fields, types : Follows(was, dir, fields, types)'
<1>1. /\ IInv /\ LeastInv /\ UnionInv /\ DirectiveInv /\ BatchInv /\ Files
      /\ pc = "over" /\ pc' = "configure" /\ UNCHANGED <<def, pin>>
      /\ source'.header = source.header
      /\ source'.records \in {source.records, Reverse(source.records)}
  <2>1. PICK records \in {source.records, Reverse(source.records)} :
          source' = [header |-> source.header, records |-> records]
    BY DEF RunAgain
  <2>. QED
    BY <2>1 DEF RunAgain, ConvergeInv, IInv, TypeOK
<1>2. /\ was.result = result /\ was.resolution = resolution
      /\ was.batch = batch /\ was.source = source
  <2>1. first' = Some([result |-> result, resolution |-> resolution,
                       batch |-> batch, source |-> source])
    BY DEF RunAgain
  <2>. QED
    BY <2>1 DEF Some
<1>3. /\ resolution.code = "ok"
      /\ Chunk = Kept(source.records, Survive(source.records, resolution.checks))
      /\ Distinct(resolution.columns) =>
           ConfigCode = "ok" /\ Directive = NextDirective(directive, resolution)
  BY <1>1 DEF BatchInv
<1>4. PICK dir, header, records, fields, types, plan :
        /\ dir = directive /\ header = source.header /\ records = source.records
        /\ fields = names /\ types = seen.fields \o seen.flatten /\ plan = resolution
  OBVIOUS
<1>5. Resolves(dir, header, records, fields, types, plan)
  BY <1>1, <1>3, <1>4, PlanResolves
<1>6. Resolves(dir, header, records, fields, types, plan)'
  BY <1>1, <1>5, ResolvesStays
<1>7. Survive(records, plan.checks)' = Survive(records, plan.checks)
  <2>1. PICK checks : checks = plan.checks
    OBVIOUS
  <2>2. Survive(records, checks)' = Survive(records, checks)
    BY <1>1, SurviveStays
  <2>. QED
    BY <2>1, <2>2
<1>8. Directive' = Directive /\ ConfigCode' = ConfigCode
  BY <1>1 DEF Directive, ConfigCode
<1>9. KeptOf(was.batch, was.source.records) = Kept(records, Survive(records, plan.checks))
  BY <1>2, <1>3, <1>4 DEF KeptOf, Chunk
<1>10. Listed(was.source.records)
  BY <1>1, <1>2 DEF Files
<1>11. /\ Resolves(dir, was.source.header, was.source.records, fields, types, was.resolution)'
       /\ KeptOf(was.batch, was.source.records) =
            Kept(was.source.records, Survive(was.source.records, was.resolution.checks)')
  <2>1. was.source.header = header /\ was.source.records = records /\ was.resolution = plan
    BY <1>2, <1>4
  <2>2. Resolves(dir, was.source.header, was.source.records, fields, types, was.resolution)'
    BY <1>6, <2>1
  <2>3. Survive(was.source.records, was.resolution.checks)' = Survive(records, plan.checks)'
    BY <2>1
  <2>. QED
    BY <1>7, <1>9, <2>1, <2>2, <2>3
<1>12. Follows(was, dir, fields, types)'
  BY <1>1, <1>2, <1>3, <1>4, <1>8, <1>10, <1>11 DEF Follows
<1>. QED
  BY <1>12

\* Every step keeps the second load following the first.
LEMMA FirstStep == ASSUME ConvergeInv, [Next]_vars PROVE FirstInv'
<1> SUFFICES ASSUME load' = 2, first'.value.result = "ok" PROVE FirstInv'
  BY DEF FirstInv
<1>1. PICK was : was = first'.value
  OBVIOUS
<1>2. (\E dir, fields, types : Follows(was, dir, fields, types)') => FirstInv'
  <2>1. ASSUME NEW dir, NEW fields, NEW types, Follows(was, dir, fields, types)'
        PROVE  Follows(first.value, dir, fields, types)'
    BY <1>1, <2>1 DEF Follows
  <2>. QED
    BY <2>1 DEF FirstInv
<1>3. CASE RunAgain
  <2>1. result = "ok"
    BY <1>3 DEF RunAgain, Some
  <2>. QED
    BY <1>1, <1>2, <1>3, <2>1, FollowsAgain
<1>4. CASE ~RunAgain
  <2>1. load = 2 /\ first' = first
    BY <1>4 DEF Next, Configure, Observe, Finish, BuildChunk, vars
  <2>2. PICK dir, fields, types : Follows(first.value, dir, fields, types)
    BY <2>1 DEF ConvergeInv, FirstInv
  <2>3. Follows(was, dir, fields, types)
    BY <1>1, <2>1, <2>2
  <2>4. Follows(was, dir, fields, types)'
    BY <2>1, <2>3, FollowsStep
  <2>. QED
    BY <1>2, <2>4
<1>. QED
  BY <1>3, <1>4

\* The strengthened invariant is inductive.
LEMMA ConvergeStep == ASSUME ConvergeInv, [Next]_vars PROVE ConvergeInv'
<1>1. IInv'
  BY IInvStep DEF ConvergeInv
<1>2. LeastInv' /\ UnionInv' /\ DirectiveInv' /\ BatchInv'
  BY LeastStep, DirectiveStep, BatchStep DEF ConvergeInv
<1>3. FirstInv'
  BY FirstStep
<1>. QED
  BY <1>1, <1>2, <1>3 DEF ConvergeInv

\* It holds of a load that has not begun.
LEMMA InitConverge == Init => ConvergeInv
<1> SUFFICES ASSUME Init PROVE ConvergeInv
  OBVIOUS
<1>1. IInv /\ ~Live /\ resolution.code # "ok" /\ pc = "configure" /\ load = 1
  BY InitIInv, NotRunIs DEF Init, Live
<1>2. LeastInv /\ UnionInv
  BY <1>1 DEF LeastInv, UnionInv
<1>3. DirectiveInv /\ BatchInv /\ FirstInv
  BY <1>1 DEF DirectiveInv, BatchInv, FirstInv
<1>. QED
  BY <1>1, <1>2, <1>3 DEF ConvergeInv

\* And at the end of the second load it is the convergence.
LEMMA ConvergeHolds == ASSUME ConvergeInv PROVE LoadsConverge
<1> SUFFICES ASSUME pc = "over", load = 2, first.value.result = "ok",
                    Distinct(first.value.resolution.columns)
             PROVE  Converged(first.value)
  BY DEF LoadsConverge, Converged, KeptOf, SameFields, SameField, Distinct, Range
<1>. QED
  BY DEF ConvergeInv, FirstInv, Follows

-----------------------------------------------------------------------------
(* The theorems of the specification.                                      *)

\* The inductive invariant: what a load of any definition has come to, at any
\* step of either of its loads (TextObserver, JsonObserver, resolve_plan,
\* ChunkPlan::assemble).
THEOREM SchemaInvariant == Spec => []IInv
<1>1. IInv /\ [Next]_vars => IInv'
  BY IInvStep
<1>. QED
  BY InitIInv, <1>1, PTL DEF Spec

\* A record that survived validation builds, whatever the definition, the pin
\* and the records: the coercion and null arms of the column builders are dead
\* (fits_expected_type, build_text_array, build_json_array).
THEOREM SchemaSurvivorsBuild == Spec => []SurvivorsBuild
<1>1. IInv => SurvivorsBuild
  BY DEF IInv
<1>. QED
  BY <1>1, SchemaInvariant, PTL

\* Pass 2 judges every record as pass 1 did, though pass 1 judged before the
\* key union was known, and a load whose verdict fails streamed no rejection
\* (directive_checks, merge_key_checks, pinned_checks, override_checks).
THEOREM SchemaPassesAgree == Spec => []PassesAgree
<1>1. IInv => PassesAgree
  BY PassesAgreed DEF IInv
<1>. QED
  BY <1>1, SchemaInvariant, PTL

\* A dataset name leads back to the very source its column reads, and only a
\* header's own duplicates share a name (json_source_address).
THEOREM SchemaNamesResolve == Spec => []NamesResolve
<1>1. IInv => NamesResolve
  BY ResolvedNames DEF IInv
<1>. QED
  BY <1>1, SchemaInvariant, PTL

\* A rejection names a true fault of its record, and a null merge key before
\* any other (null_value_rejection, type_rejection, ResolvedPlan::rejection_for).
THEOREM SchemaRejectionsTrue == Spec => []RejectionsTrue
<1>1. IInv /\ NamedInv /\ [Next]_vars => NamedInv'
  BY NamedStep
<1>2. IInv /\ NamedInv => RejectionsTrue
  BY RejectionsNamed DEF IInv
<1>. QED
  BY InitNamed, SchemaInvariant, <1>1, <1>2, PTL DEF Spec

\* The type a load settled for a field is the least that takes in what the
\* records that survive show there, whatever the order they were observed in
\* (ObservedType::merge, observe_field, the judgement before it).
THEOREM SchemaTypesLeast == Spec => []LeastInv
<1>1. ConvergeInv /\ [Next]_vars => ConvergeInv'
  BY ConvergeStep
<1>2. ConvergeInv => LeastInv
  BY DEF ConvergeInv
<1>. QED
  BY InitConverge, <1>1, <1>2, PTL DEF Spec

\* A load of the same records, in either order, under the pin the last one
\* wrote: it passes its verdict, keeps the very records that one kept and
\* resolves the types and nullability it resolved (pin_inferred,
\* persist_pinned_schema, resolve_schema_directive, resolve_plan).
THEOREM SchemaLoadsConverge == Spec => []LoadsConverge
<1>1. ConvergeInv /\ [Next]_vars => ConvergeInv'
  BY ConvergeStep
<1>2. ConvergeInv => LoadsConverge
  BY ConvergeHolds
<1>. QED
  BY InitConverge, <1>1, <1>2, PTL DEF Spec
=============================================================================
