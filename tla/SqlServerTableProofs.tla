------------------------ MODULE SqlServerTableProofs ------------------------
(***************************************************************************)
(* Theorems about SqlServerTable, for any jobs and tables, of any length,  *)
(* any values in them and any ranges and rates of the server's types.      *)
(***************************************************************************)
EXTENDS SqlServerTable, FiniteSetTheorems, SequenceTheorems, TLAPS

-----------------------------------------------------------------------------
(* Lists, and what is picked from them.                                    *)

\* A set of naturals that is not empty has a least element.
LEMMA LeastNumber ==
  ASSUME NEW T \in SUBSET Nat, T # {}
  PROVE  \E n \in T : \A m \in T : n <= m
<1> DEFINE below == { pair \in Nat \X Nat : pair[1] < pair[2] }
<1>1. IsWellFoundedOn(below, Nat)
  BY NatLessThanWellFounded DEF OpToRel
<1>2. PICK n \in T : \A m \in T : <<m, n>> \notin below
  <2> HIDE DEF below
  <2>. QED
    BY <1>1, WFMin
<1>3. \A m \in T : ~(m < n)
  BY <1>2
<1>. QED
  BY <1>3

\* A rank that tells the members of a finite set apart takes every value from
\* 1 to their number.
LEMMA Ranking ==
  ASSUME NEW D, IsFiniteSet(D), NEW rank \in [D -> 1 .. Cardinality(D)],
         \A x, y \in D : rank[x] = rank[y] => x = y
  PROVE  \A n \in 1 .. Cardinality(D) : \E x \in D : rank[x] = n
<1> DEFINE T == 1 .. Cardinality(D)
<1>1. Cardinality(D) \in Nat
  BY FS_CardinalityType
<1>2. IsFiniteSet(T) /\ Cardinality(T) = Cardinality(D)
  BY <1>1, FS_Interval
<1> HIDE DEF T
<1>3. rank \in [D -> T]
  BY DEF T
<1>4. rank \in Injection(D, T)
  BY <1>3 DEF Injection, IsInjective
<1>5. rank \in Surjection(D, T)
  BY <1>2, <1>4, FS_Injection
<1>. QED
  BY <1>5 DEF Surjection, T

\* A list is the function of its indices.
LEMMA ListedIs ==
  ASSUME NEW list
  PROVE  /\ Listed(list) => /\ Len(list) \in Nat /\ DOMAIN list = 1 .. Len(list)
                            /\ list = [k \in 1 .. Len(list) |-> list[k]]
         /\ \A S : list \in Seq(S) => Listed(list)
<1>1. Listed(list) => /\ Len(list) \in Nat /\ DOMAIN list = 1 .. Len(list)
                      /\ list = [k \in 1 .. Len(list) |-> list[k]]
  BY DEF Listed
<1>2. ASSUME NEW S, list \in Seq(S) PROVE Listed(list)
  <2>1. /\ Len(list) \in Nat /\ DOMAIN list = 1 .. Len(list)
        /\ list = [k \in 1 .. Len(list) |-> list[k]]
    BY <1>2
  <2>2. \A k \in 1 .. Len(list) : list[k] \in Range(list)
    BY <2>1 DEF Range
  <2> DEFINE n == Len(list)
             R == Range(list)
  <2> HIDE DEF n, R
  <2>3. [k \in 1 .. n |-> list[k]] \in Seq(R)
    BY <2>1, <2>2 DEF n, R
  <2>. QED
    BY <2>1, <2>3 DEF Listed, n, R
<1>. QED
  BY <1>1, <1>2

LEMMA FunctionListed ==
  ASSUME NEW n \in Nat, NEW f, DOMAIN f = 1 .. n, f = [k \in 1 .. n |-> f[k]]
  PROVE  Listed(f) /\ Len(f) = n
<1> DEFINE R == Range(f)
<1>1. \A k \in 1 .. n : f[k] \in R
  BY DEF Range
<1> HIDE DEF R
<1>2. [k \in 1 .. n |-> f[k]] \in Seq(R) /\ Len([k \in 1 .. n |-> f[k]]) = n
  BY <1>1
<1>. QED
  BY <1>2 DEF Listed, R

LEMMA ConcatListed ==
  ASSUME NEW s, NEW u, Listed(s), Listed(u)
  PROVE  /\ Listed(s \o u) /\ Len(s \o u) = Len(s) + Len(u)
         /\ \A k \in 1 .. Len(s) : (s \o u)[k] = s[k]
         /\ \A k \in 1 .. Len(u) : (s \o u)[Len(s) + k] = u[k]
         /\ Range(s \o u) = Range(s) \union Range(u)
<1> DEFINE S == Range(s) \union Range(u)
<1>1. s \in Seq(S) /\ u \in Seq(S)
  <2>1. Range(s) \subseteq S /\ Range(u) \subseteq S
    OBVIOUS
  <2>2. s \in Seq(Range(s)) /\ u \in Seq(Range(u))
    BY DEF Listed
  <2> DEFINE A == Range(s)
             B == Range(u)
  <2> HIDE DEF A, B, S
  <2>3. s \in Seq(A) /\ u \in Seq(B) /\ A \subseteq S /\ B \subseteq S
    BY <2>1, <2>2 DEF A, B
  <2>. QED
    BY <2>3
<1> HIDE DEF S
<1>2. s \o u \in Seq(S)
  BY <1>1
<1>3. Range(s \o u) = Range(s) \union Range(u)
  BY <1>1, RangeConcatenation
<1>4. Listed(s \o u)
  BY <1>2, ListedIs
<1>5. /\ Len(s \o u) = Len(s) + Len(u)
      /\ \A k \in 1 .. Len(s) : (s \o u)[k] = s[k]
      /\ \A k \in 1 .. Len(u) : (s \o u)[Len(s) + k] = u[k]
  BY <1>1
<1>. QED
  BY <1>3, <1>4, <1>5

\* Where an element is picked to: as far along as its index is among them.
RankIn(indices, k) == Cardinality({ j \in indices : j <= k })

LEMMA PickedAt ==
  ASSUME NEW list, Listed(list), NEW indices \in SUBSET DOMAIN list
  PROVE  LET picked == Picked(list, indices)
         IN /\ Listed(picked) /\ IsFiniteSet(indices) /\ Cardinality(indices) \in Nat
            /\ DOMAIN picked = 1 .. Cardinality(indices)
            /\ \A n \in DOMAIN picked : \E k \in indices : picked[n] = list[k] /\ RankIn(indices, k) = n
            /\ \A k \in indices : /\ RankIn(indices, k) \in DOMAIN picked
                                  /\ picked[RankIn(indices, k)] = list[k]
<1> DEFINE size == Cardinality(indices)
           upto(k) == { j \in indices : j <= k }
           rank == [k \in indices |-> Cardinality(upto(k))]
           at(n) == CHOOSE k \in indices : Cardinality(upto(k)) = n
<1>1. Len(list) \in Nat /\ DOMAIN list = 1 .. Len(list)
  BY ListedIs
<1>2. IsFiniteSet(indices) /\ size \in Nat
  <2>1. IsFiniteSet(1 .. Len(list))
    BY <1>1, FS_Interval
  <2>. QED
    BY <1>1, <2>1, FS_Subset, FS_CardinalityType
<1>3. ASSUME NEW k \in indices
      PROVE  /\ IsFiniteSet(upto(k)) /\ Cardinality(upto(k)) \in 1 .. size
  <2>1. upto(k) \subseteq indices /\ k \in upto(k)
    BY <1>1
  <2>2. IsFiniteSet(upto(k)) /\ Cardinality(upto(k)) \in Nat /\ Cardinality(upto(k)) <= size
    BY <1>2, <2>1, FS_Subset, FS_CardinalityType
  <2>3. Cardinality(upto(k)) # 0
    BY <2>1, <2>2, FS_EmptySet
  <2>. QED
    BY <1>2, <2>2, <2>3
<1>4. ASSUME NEW j \in indices, NEW k \in indices, j < k
      PROVE  Cardinality(upto(j)) < Cardinality(upto(k))
  <2>1. upto(j) \subseteq upto(k) /\ k \in upto(k) /\ k \notin upto(j)
    BY <1>1, <1>4
  <2>2. upto(j) # upto(k)
    BY <2>1
  <2>3. IsFiniteSet(upto(k))
    BY <1>3
  <2> HIDE DEF upto
  <2>. QED
    BY <2>1, <2>2, <2>3, FS_Subset, FS_CardinalityType
<1>5. \A j, k \in indices : rank[j] = rank[k] => j = k
  <2>1. ASSUME NEW j \in indices, NEW k \in indices, rank[j] = rank[k], j # k
        PROVE  FALSE
    <3>1. j < k \/ k < j
      BY <1>1, <2>1
    <3>2. Cardinality(upto(j)) \in Nat /\ Cardinality(upto(k)) \in Nat
      BY <1>2, <1>3
    <3>3. Cardinality(upto(j)) = Cardinality(upto(k))
      BY <2>1
    <3> HIDE DEF upto
    <3>. QED
      BY <1>4, <3>1, <3>2, <3>3
  <2>. QED
    BY <2>1
<1>6. rank \in [indices -> 1 .. size]
  BY <1>3
<1>7. \A n \in 1 .. size : \E k \in indices : Cardinality(upto(k)) = n
  <2>1. \A n \in 1 .. size : \E k \in indices : rank[k] = n
    <3> HIDE DEF rank
    <3>. QED
      BY <1>2, <1>5, <1>6, Ranking
  <2>. QED
    BY <2>1
<1>8. \A n \in 1 .. size : at(n) \in indices /\ Cardinality(upto(at(n))) = n
  BY <1>7
<1>9. ASSUME NEW k \in indices PROVE Cardinality(upto(k)) \in 1 .. size
                                      /\ at(Cardinality(upto(k))) = k
  <2>1. Cardinality(upto(k)) \in 1 .. size
    BY <1>3
  <2>2. at(Cardinality(upto(k))) \in indices
        /\ Cardinality(upto(at(Cardinality(upto(k))))) = Cardinality(upto(k))
    BY <1>8, <2>1
  <2>. QED
    BY <1>5, <2>1, <2>2
<1>10. Picked(list, indices) = [n \in 1 .. size |-> list[at(n)]]
  BY DEF Picked
<1> HIDE DEF size, at, upto, rank
<1>11. DOMAIN Picked(list, indices) = 1 .. size
       /\ \A n \in 1 .. size : Picked(list, indices)[n] = list[at(n)]
  BY <1>10
<1>12. Listed(Picked(list, indices))
  BY <1>2, <1>10, <1>11, FunctionListed DEF size
<1>13. ASSUME NEW n \in DOMAIN Picked(list, indices)
       PROVE  \E k \in indices : Picked(list, indices)[n] = list[k] /\ Cardinality(upto(k)) = n
  BY <1>8, <1>11
<1>14. ASSUME NEW k \in indices
       PROVE  /\ Cardinality(upto(k)) \in DOMAIN Picked(list, indices)
              /\ Picked(list, indices)[Cardinality(upto(k))] = list[k]
  BY <1>9, <1>11
<1>15. \A k : Cardinality(upto(k)) = RankIn(indices, k)
  BY DEF upto, RankIn
<1>. QED
  BY <1>2, <1>11, <1>12, <1>13, <1>14, <1>15 DEF size

\* What is picked from a list: the elements at the indices, each once.
LEMMA PickedIs ==
  ASSUME NEW list, Listed(list), NEW indices \in SUBSET DOMAIN list
  PROVE  /\ Listed(Picked(list, indices))
         /\ \A n \in DOMAIN Picked(list, indices) :
              \E k \in indices : Picked(list, indices)[n] = list[k]
         /\ \A k \in indices : \E n \in DOMAIN Picked(list, indices) :
              Picked(list, indices)[n] = list[k]
BY PickedAt

-----------------------------------------------------------------------------
(* Division, and moments of unlike rates.                                  *)

LEMMA Division ==
  ASSUME NEW a \in Int, NEW b \in Nat \ {0}
  PROVE  /\ a \div b \in Int /\ a % b \in 0 .. b - 1
         /\ a = b * (a \div b) + (a % b)
OBVIOUS

\* A quotient and a remainder are known by the equation they solve.
LEMMA DivisionUnique ==
  ASSUME NEW a \in Int, NEW b \in Nat \ {0}, NEW q \in Int, NEW r \in 0 .. b - 1,
         a = b * q + r
  PROVE  a \div b = q /\ a % b = r
<1> DEFINE d == q - a \div b
<1>1. a = b * (a \div b) + (a % b) /\ a % b \in 0 .. b - 1 /\ a \div b \in Int
  BY Division
<1>2. b * d = (a % b) - r /\ d \in Int
  BY <1>1
<1>3. ~(d >= 1)
  <2> SUFFICES ASSUME d >= 1 PROVE FALSE
    OBVIOUS
  <2> HIDE DEF d
  <2>1. b * d >= b
    BY <1>2
  <2>. QED
    BY <2>1, <1>1, <1>2
<1>4. ~(d <= -1)
  <2> SUFFICES ASSUME d <= -1 PROVE FALSE
    OBVIOUS
  <2> HIDE DEF d
  <2>1. b * d <= -b
    BY <1>2
  <2>. QED
    BY <2>1, <1>1, <1>2
<1>5. d = 0
  BY <1>2, <1>3, <1>4
<1>. QED
  BY <1>1, <1>5

\* What has no digits to lose is rounded to itself.
LEMMA HalfIsLost ==
  ASSUME NEW n \in Int, NEW s \in Nat \ {0}
  PROVE  (n * s + s \div 2) \div s = n
<1>1. s \div 2 \in 0 .. s - 1
  OBVIOUS
<1>2. n * s \in Int /\ n * s = s * n
  OBVIOUS
<1> DEFINE a == n * s + s \div 2
<1>3. a \in Int /\ a = s * n + s \div 2
  BY <1>1, <1>2
<1> HIDE DEF a
<1>4. a \div s = n
  BY <1>1, <1>3, DivisionUnique
<1>. QED
  BY <1>4 DEF a

\* Half of the last digit is all that rounding moves.
LEMMA Nearest ==
  ASSUME NEW p \in Int, NEW r \in Nat \ {0}, NEW R \in Nat \ {0},
         NEW t, t = (p * r + R \div 2) \div R
  PROVE  t \in Int /\ 2 * (t * R - p * r) <= R /\ -2 * (t * R - p * r) <= R
<1>1. R \div 2 \in Nat /\ 2 * (R \div 2) \in {R, R - 1}
  OBVIOUS
<1> DEFINE x == p * r
           a == x + R \div 2
<1>2. x \in Int /\ a \in Int
  BY <1>1
<1>3. t \in Int /\ a % R \in 0 .. R - 1 /\ a = R * t + (a % R)
  BY <1>2, Division
<1>4. t * R = R * t /\ t * R \in Int
  BY <1>3
<1> HIDE DEF x
<1>5. t * R - x = (R \div 2) - (a % R)
  BY <1>1, <1>2, <1>3, <1>4
<1> HIDE DEF a
<1>6. 2 * (t * R - x) <= R /\ -2 * (t * R - x) <= R
  BY <1>1, <1>2, <1>3, <1>5
<1>. QED
  BY <1>3, <1>6 DEF x

LEMMA Cancelled ==
  ASSUME NEW a \in Int, NEW b \in Int, NEW c \in Nat \ {0}, a * c = b * c
  PROVE  a = b
OBVIOUS

-----------------------------------------------------------------------------
(* Cells.                                                                  *)

Cells == [day : Int, part : Int, rate : Nat \ {0}]
Options(S) == {None} \union { Some(x) : x \in S }

LEMMA OptionIs ==
  ASSUME NEW S, NEW x \in Options(S)
  PROVE  /\ x.ok \in BOOLEAN
         /\ x.ok => x = Some(x.value) /\ x.value \in S
         /\ ~x.ok => x = None
<1>1. CASE x = None
  BY <1>1 DEF None
<1>2. CASE x \in { Some(y) : y \in S }
  <2>1. PICK y \in S : x = Some(y)
    BY <1>2
  <2>. QED
    BY <2>1 DEF Some
<1>. QED
  BY <1>1, <1>2 DEF Options

LEMMA OptionOf ==
  ASSUME NEW S, NEW x \in S
  PROVE  Some(x) \in Options(S) /\ Some(x).ok /\ Some(x).value = x
BY DEF Options, Some

LEMMA WhenIs ==
  ASSUME NEW c, NEW x
  PROVE  /\ c => When(c, x).ok /\ When(c, x).value = x /\ When(c, x) = Some(x)
         /\ ~c => ~When(c, x).ok /\ When(c, x) = None
BY DEF When, Some, None

\* The assumptions, one constant at a time.
LEMMA Constants ==
  /\ UnitDigits \in 0 .. MaxPrecision /\ MaxPrecision \in Nat
  /\ \A n \in 0 .. MaxPrecision : 10^n \in Nat \ {0}
  /\ \A m, n \in 0 .. MaxPrecision : m < n => 10^m < 10^n
  /\ SecondsPerDay \in Nat \ {0} /\ TicksPerSecond \in Nat \ {0} /\ EpochDay \in Nat
  /\ MaxInt \in Nat /\ IntMax \in Nat /\ SmallIntMax \in Nat /\ TinyIntMax \in Nat
  /\ SmallIntMax < IntMax /\ IntMax < MaxInt /\ LastDay \in Nat /\ FirstDatetimeDay \in Nat
BY FieldTypesAssumption, SqlServerTableAssumption, PowersAssumption

LEMMA ProductIs == ASSUME NEW a \in Nat \ {0}, NEW b \in Nat \ {0} PROVE a * b \in Nat \ {0}
OBVIOUS

LEMMA GrowsIs ==
  ASSUME NEW a \in Nat \ {0}, NEW b \in Nat, NEW c \in Nat, b < c PROVE a * b < a * c
OBVIOUS

LEMMA Rates ==
  /\ UnitsPerDay \in Nat \ {0}
  /\ SecondsPerDay * TicksPerSecond \in Nat \ {0}
  /\ \A s \in 0 .. MaxPrecision :
       /\ SecondsPerDay * 10^s \in Nat \ {0}
       /\ s < UnitDigits => SecondsPerDay * 10^s < UnitsPerDay
       /\ s >= UnitDigits => ~(UnitsPerDay > SecondsPerDay * 10^s)
<1>1. UnitsPerDay \in Nat \ {0} /\ SecondsPerDay * TicksPerSecond \in Nat \ {0}
  BY Constants, ProductIs DEF UnitsPerDay
<1>2. ASSUME NEW s \in 0 .. MaxPrecision PROVE SecondsPerDay * 10^s \in Nat \ {0}
  BY Constants, ProductIs
<1>3. ASSUME NEW s \in 0 .. MaxPrecision, s < UnitDigits
      PROVE  SecondsPerDay * 10^s < UnitsPerDay
  <2>1. 10^s < 10^UnitDigits /\ 10^s \in Nat /\ 10^UnitDigits \in Nat
    BY <1>3, Constants
  <2>. QED
    BY <2>1, Constants, GrowsIs DEF UnitsPerDay
<1>4. ASSUME NEW s \in 0 .. MaxPrecision, s >= UnitDigits
      PROVE  ~(UnitsPerDay > SecondsPerDay * 10^s)
  <2>1. CASE s = UnitDigits
    BY <1>1, <2>1 DEF UnitsPerDay
  <2>2. CASE UnitDigits < s
    <3>1. 10^UnitDigits < 10^s /\ 10^s \in Nat /\ 10^UnitDigits \in Nat
      BY <2>2, Constants
    <3>2. UnitsPerDay < SecondsPerDay * 10^s
      BY <3>1, Constants, GrowsIs DEF UnitsPerDay
    <3>. QED
      BY <1>1, <1>2, <3>2
  <2>. QED
    BY <1>4, <2>1, <2>2, Constants
<1>. QED
  BY <1>1, <1>2, <1>3, <1>4

\* A moment on the scale of another rate.
LEMMA RoundedIs ==
  ASSUME NEW cell \in Cells, NEW rate \in Nat \ {0}
  PROVE  LET rounded == RoundedTo(cell, rate)
             ticks == (cell.part * rate + cell.rate \div 2) \div cell.rate
         IN /\ rounded \in Cells /\ rounded.rate = rate
            /\ rounded.part \in 0 .. rate - 1
            /\ ticks \in Int
            /\ rounded.day * rate + rounded.part = cell.day * rate + ticks
            /\ 2 * (ticks * cell.rate - cell.part * rate) <= cell.rate
            /\ -2 * (ticks * cell.rate - cell.part * rate) <= cell.rate
<1> DEFINE ticks == (cell.part * rate + cell.rate \div 2) \div cell.rate
           over == ticks \div rate
           rest == ticks % rate
<1>1. cell.day \in Int /\ cell.part \in Int /\ cell.rate \in Nat \ {0}
  BY DEF Cells
<1>2. /\ ticks \in Int
      /\ 2 * (ticks * cell.rate - cell.part * rate) <= cell.rate
      /\ -2 * (ticks * cell.rate - cell.part * rate) <= cell.rate
  BY <1>1, Nearest
<1>3. RoundedTo(cell, rate) = [day |-> cell.day + over, part |-> rest, rate |-> rate]
  BY DEF RoundedTo
<1> HIDE DEF ticks
<1>4. over \in Int /\ rest \in 0 .. rate - 1 /\ ticks = rate * over + rest
  BY <1>2, Division
<1> HIDE DEF over, rest
<1>5. (cell.day + over) * rate + rest = cell.day * rate + ticks
  BY <1>1, <1>4
<1>6. [day |-> cell.day + over, part |-> rest, rate |-> rate] \in Cells
  BY <1>1, <1>4 DEF Cells
<1>. QED
  BY <1>2, <1>3, <1>4, <1>5, <1>6 DEF ticks

\* The part of it that needs no arithmetic.
LEMMA RoundedStays ==
  ASSUME NEW cell \in Cells, NEW rate \in Nat \ {0}
  PROVE  /\ RoundedTo(cell, rate) \in Cells /\ RoundedTo(cell, rate).rate = rate
         /\ RoundedTo(cell, rate).part \in 0 .. rate - 1
BY RoundedIs, Zenon

\* Rounding twice is rounding once.
LEMMA RoundedTwice ==
  ASSUME NEW cell \in Cells, cell.part \in 0 .. cell.rate - 1
  PROVE  RoundedTo(cell, cell.rate) = cell
<1> DEFINE rate == cell.rate
           part == cell.part
           ticks == (part * rate + rate \div 2) \div rate
<1>1. part \in 0 .. rate - 1 /\ rate \in Nat \ {0} /\ cell.day \in Int
      /\ cell = [day |-> cell.day, part |-> part, rate |-> rate]
  BY DEF Cells
<1>2. RoundedTo(cell, rate)
        = [day |-> cell.day + ticks \div rate, part |-> ticks % rate, rate |-> rate]
  BY DEF RoundedTo
<1> HIDE DEF rate, part
<1>3. ticks = part
  BY <1>1, HalfIsLost
<1> HIDE DEF ticks
<1>4. rate * 0 + part = part
  BY <1>1
<1>5. part \div rate = 0 /\ part % rate = part
  BY <1>1, <1>4, DivisionUnique
<1>. QED
  BY <1>1, <1>2, <1>3, <1>5 DEF rate

-----------------------------------------------------------------------------
(* What a value is on the wire, and what the server makes of it.           *)

Integers4 == {"bigint", "int", "smallint", "tinyint"}

LEMMA WholeIs == ASSUME NEW n \in Int, NEW rate \in Nat \ {0} PROVE Whole(n, rate) \in Cells
BY DEF Whole, Cells

\* The types a column of the Accept Family may have.
LEMMA AcceptedIs ==
  ASSUME NEW type, KnownType(type), NEW column, NEW rounding, Accepted(type, column, rounding),
         column.scale \in 0 .. MaxPrecision
  PROVE  \/ type.kind = "int64" /\ column.type \in Integers4
         \/ /\ type.kind = "decimal" /\ column.type \in {"decimal", "numeric"}
            /\ column.scale = type.scale
            /\ type.precision \in 1 .. MaxPrecision /\ type.scale \in 0 .. MaxPrecision
         \/ /\ type.kind \in Timestamps
            /\ column.type \in {"datetime", "datetime2"}
            /\ Rounds(column) => rounding
            /\ column.type = "datetime2" /\ ~Rounds(column) => ~(column.scale < UnitDigits)
         \/ type.kind = "float64" /\ column.type = "float"
         \/ type.kind = "boolean" /\ column.type = "bit"
         \/ type.kind = "utf8" /\ column.type = "nvarchar"
<1>1. \/ type.kind \in {"boolean", "int64", "float64", "utf8", "timestamp", "timestamptz"}
      \/ type.kind = "decimal" /\ type.precision \in 1 .. MaxPrecision
                               /\ type.scale \in 0 .. type.precision
  BY DEF KnownType, Inferable
<1>2. CASE type.kind = "int64"
  BY <1>2 DEF Accepted, Integers4, Timestamps
<1>3. CASE type.kind = "decimal"
  <2>1. type.precision \in 1 .. MaxPrecision /\ type.scale \in 0 .. MaxPrecision
    BY <1>1, <1>3, Constants
  <2>. QED
    BY <1>3, <2>1 DEF Accepted, Timestamps
<1>4. CASE type.kind \in Timestamps
  <2>1. IF column.type = "datetime2" THEN column.scale >= UnitDigits \/ rounding
        ELSE column.type = "datetime" /\ rounding
    BY <1>4 DEF Accepted, Timestamps
  <2>2. CASE column.type = "datetime2"
    BY <1>4, <2>1, <2>2, Constants DEF Rounds
  <2>3. CASE column.type # "datetime2"
    BY <1>4, <2>1, <2>3 DEF Rounds
  <2>. QED
    BY <2>2, <2>3
<1>5. CASE type.kind \in {"boolean", "float64", "utf8"}
  <2>1. column.type = CreatedType(type).type
    BY <1>5 DEF Accepted, Timestamps
  <2>. QED
    BY <1>5, <2>1 DEF CreatedType
<1>. QED
  BY <1>1, <1>2, <1>3, <1>4, <1>5 DEF Timestamps

\* A moment is on the wire as it is; it has none beyond the calendar.
LEMMA MomentIs ==
  ASSUME NEW n \in Int, MomentCell(n).ok
  PROVE  LET c == MomentCell(n).value
         IN /\ c \in Cells /\ MomentCell(n) = Some(c)
            /\ c.rate = UnitsPerDay /\ c.part \in 0 .. UnitsPerDay - 1
            /\ c.day * UnitsPerDay + c.part = n + EpochDay * UnitsPerDay
<1> DEFINE U == UnitsPerDay
           q == n \div U
           r == n % U
           c == [day |-> q + EpochDay, part |-> r, rate |-> U]
<1>1. U \in Nat \ {0} /\ EpochDay \in Int
  BY Rates, Constants
<1>2. MomentCell(n) = When(q + EpochDay \in 0 .. LastDay, c)
  BY DEF MomentCell
<1>3. MomentCell(n) = Some(c) /\ MomentCell(n).value = c
  <2> HIDE DEF c
  <2>. QED
    BY <1>2, WhenIs
<1> HIDE DEF U
<1>4. q \in Int /\ r \in 0 .. U - 1 /\ n = U * q + r
  BY <1>1, Division
<1> HIDE DEF q, r
<1>5. (q + EpochDay) * U + r = n + EpochDay * U
  BY <1>1, <1>4
<1>6. c \in Cells
  BY <1>1, <1>4 DEF Cells
<1>. QED
  BY <1>3, <1>4, <1>5, <1>6 DEF U

\* A value as the dataset holds it, as a moment or as a whole.
LEMMA ExactIs ==
  ASSUME NEW type, KnownType(type), NEW n \in Int
  PROVE  /\ Exact(type, n) \in Cells
         /\ type.kind \in Timestamps =>
              Exact(type, n) = [day |-> 0, part |-> n + EpochDay * UnitsPerDay, rate |-> UnitsPerDay]
         /\ type.kind = "decimal" => Exact(type, n) = Whole(n, 10^type.scale)
         /\ type.kind \notin Timestamps \union {"decimal"} => Exact(type, n) = Whole(n, 1)
<1>1. CASE type.kind \in Timestamps
  <2>1. n + EpochDay * UnitsPerDay \in Int /\ UnitsPerDay \in Nat \ {0}
    BY Rates, Constants
  <2>. QED
    BY <1>1, <2>1 DEF Exact, Cells, Timestamps
<1>2. CASE type.kind = "decimal"
  <2>1. type.kind \notin Timestamps /\ 10^type.scale \in Nat \ {0}
    BY <1>2, Constants DEF KnownType, Inferable, Timestamps
  <2>. QED
    BY <1>2, <2>1, WholeIs DEF Exact
<1>3. CASE type.kind \notin Timestamps \union {"decimal"}
  BY <1>3, WholeIs DEF Exact
<1>. QED
  BY <1>1, <1>2, <1>3

\* The cell a value becomes on the wire; only a moment outside the calendar has
\* none.
LEMMA WireIs ==
  ASSUME NEW type, KnownType(type), NEW n \in Int
  PROVE  /\ WireCell(type, n).ok =>
              LET c == WireCell(type, n).value
              IN /\ c \in Cells /\ WireCell(type, n) = Some(c)
                 /\ type.kind \in Timestamps =>
                      /\ c.rate = UnitsPerDay /\ c.part \in 0 .. UnitsPerDay - 1
                      /\ c.day * UnitsPerDay + c.part = n + EpochDay * UnitsPerDay
                 /\ type.kind = "decimal" => c = Whole(n, 10^type.scale)
                 /\ type.kind \notin Timestamps \union {"decimal"} => c = Whole(n, 1)
         /\ ~WireCell(type, n).ok => type.kind \in Timestamps /\ ~MomentCell(n).ok
<1>1. CASE type.kind \in Timestamps
  <2>1. WireCell(type, n) = MomentCell(n) /\ type.kind # "decimal"
    BY <1>1 DEF WireCell, Timestamps
  <2>. QED
    BY <1>1, <2>1, MomentIs
<1>2. CASE type.kind = "decimal"
  <2>1. type.kind \notin Timestamps /\ 10^type.scale \in Nat \ {0}
    BY <1>2, Constants DEF KnownType, Inferable, Timestamps
  <2>2. WireCell(type, n) = Some(Whole(n, 10^type.scale))
    BY <1>2, <2>1 DEF WireCell
  <2>3. Whole(n, 10^type.scale) \in Cells
    BY <2>1, WholeIs
  <2>. QED
    BY <1>2, <2>1, <2>2, <2>3 DEF Some
<1>3. CASE type.kind \notin Timestamps \union {"decimal"}
  <2>1. WireCell(type, n) = Some(Whole(n, 1))
    BY <1>3 DEF WireCell
  <2>2. Whole(n, 1) \in Cells
    BY WholeIs
  <2>. QED
    BY <1>3, <2>1, <2>2 DEF Some
<1>. QED
  BY <1>1, <1>2, <1>3

\* Equal numbers and equal moments, at any rates.
Measure(c) == c.day * c.rate + c.part

LEMMA SameIs ==
  ASSUME NEW a \in Cells, NEW b \in Cells
  PROVE  Same(Some(a), Some(b)) <=> Measure(a) * b.rate = Measure(b) * a.rate
BY DEF Same, Some, Measure

LEMMA SameTurns == ASSUME NEW a, NEW b, Same(a, b) PROVE Same(b, a)
BY DEF Same

LEMMA SameSelf == ASSUME NEW a \in Cells PROVE Same(Some(a), Some(a))
BY DEF Same, Some

\* Two cells that each equal a third are equal: rates cancel.
LEMMA SameOn ==
  ASSUME NEW a \in Options(Cells), NEW b \in Options(Cells), NEW c \in Options(Cells),
         Same(a, b), Same(b, c)
  PROVE  Same(a, c)
<1>1. a.ok /\ b.ok /\ c.ok
  BY DEF Same
<1>2. /\ a.value \in Cells /\ b.value \in Cells /\ c.value \in Cells
      /\ a = Some(a.value) /\ b = Some(b.value) /\ c = Some(c.value)
  BY <1>1, OptionIs
<1> DEFINE x == Measure(a.value)
           y == Measure(b.value)
           z == Measure(c.value)
           p == a.value.rate
           q == b.value.rate
           r == c.value.rate
<1>3. x \in Int /\ y \in Int /\ z \in Int /\ p \in Nat \ {0} /\ q \in Nat \ {0} /\ r \in Nat \ {0}
  BY <1>2 DEF Measure, Cells
<1>4. x * q = y * p /\ y * r = z * q
  BY <1>1 DEF Same, Measure
<1>5. (Same(a, c) <=> x * r = z * p)
  BY <1>1 DEF Same, Measure
<1> HIDE DEF x, y, z, p, q, r
<1>6. (x * r) * q = (z * p) * q
  <2>1. (x * r) * q = (x * q) * r
    BY <1>3
  <2>2. (y * p) * r = (y * r) * p
    BY <1>3
  <2>3. (z * q) * p = (z * p) * q
    BY <1>3
  <2>. QED
    BY <1>4, <2>1, <2>2, <2>3
<1>7. x * r \in Int /\ z * p \in Int
  BY <1>3
<1>8. x * r = z * p
  <2> DEFINE u == x * r
             v == z * p
  <2>1. u \in Int /\ v \in Int /\ u * q = v * q
    BY <1>6, <1>7
  <2> HIDE DEF u, v
  <2>2. u = v
    BY <1>3, <2>1, Cancelled
  <2>. QED
    BY <2>2 DEF u, v
<1>. QED
  BY <1>5, <1>8

\* The wire changes nothing: the cell is the value.
LEMMA WireExact ==
  ASSUME NEW type, KnownType(type), NEW n \in Int, WireCell(type, n).ok
  PROVE  Same(WireCell(type, n), Some(Exact(type, n)))
<1> DEFINE c == WireCell(type, n).value
           e == Exact(type, n)
<1>1. c \in Cells /\ WireCell(type, n) = Some(c) /\ e \in Cells
  BY WireIs, ExactIs
<1>2. CASE type.kind \in Timestamps
  <2>1. c.rate = UnitsPerDay /\ Measure(c) = n + EpochDay * UnitsPerDay
    BY <1>2, WireIs DEF Measure
  <2>2. e.rate = UnitsPerDay /\ Measure(e) = 0 * UnitsPerDay + (n + EpochDay * UnitsPerDay)
    BY <1>2, ExactIs DEF Measure
  <2>3. Measure(e) = n + EpochDay * UnitsPerDay
    BY <2>2, Rates, Constants
  <2> HIDE DEF c, e
  <2>4. Same(Some(c), Some(e))
    BY <1>1, <2>1, <2>2, <2>3, SameIs
  <2>. QED
    BY <1>1, <2>4 DEF e
<1>3. CASE type.kind \notin Timestamps
  <2>1. c = e
    BY <1>3, WireIs, ExactIs
  <2>. QED
    BY <1>1, <2>1, SameSelf
<1>. QED
  BY <1>2, <1>3

\* The conversion each column type does, on the server and on the wire.
Room(cell, column) == column.max_length = -1 \/ 2 * Length(cell.part) <= column.max_length
Digitized(cell, column) == (cell.part * 10^column.scale + cell.rate \div 2) \div cell.rate
Ticked(cell) == RoundedTo(cell, SecondsPerDay * TicksPerSecond)
Scaled(cell, column) == RoundedTo(cell, SecondsPerDay * 10^column.scale)

\* What the server makes of a cell, by the type of the column.
LEMMA StoredBy ==
  ASSUME NEW cell, NEW column
  PROVE  /\ column.type \in Integers4 =>
              Stored(cell, column) = When(cell.part \in IntegerRange(column.type), cell)
         /\ column.type = "nvarchar" => Stored(cell, column) = When(Room(cell, column), cell)
         /\ column.type \in {"decimal", "numeric"} =>
              Stored(cell, column) = When(Length(Digitized(cell, column)) < 10^column.precision,
                                          Whole(Digitized(cell, column), 10^column.scale))
         /\ column.type = "datetime" =>
              Stored(cell, column) = When(Ticked(cell).day \in FirstDatetimeDay .. LastDay,
                                          Ticked(cell))
         /\ column.type = "datetime2" /\ cell.rate > SecondsPerDay * 10^column.scale =>
              Stored(cell, column) = When(Scaled(cell, column).day <= LastDay,
                                          Scaled(cell, column))
         /\ column.type = "datetime2" /\ ~(cell.rate > SecondsPerDay * 10^column.scale) =>
              Stored(cell, column) = Some(cell)
         /\ column.type \in {"float", "bit"} => Stored(cell, column) = Some(cell)
<1>1. CASE column.type \in Integers4
  BY <1>1 DEF Stored, Integers4
<1>2. CASE column.type = "nvarchar"
  BY <1>2 DEF Stored, Room, Integers4
<1>3. CASE column.type \in {"decimal", "numeric"}
  BY <1>3 DEF Stored, Digitized, Integers4
<1>4. CASE column.type = "datetime"
  BY <1>4 DEF Stored, Ticked, Integers4
<1>5. CASE column.type = "datetime2"
  <2>1. CASE cell.rate > SecondsPerDay * 10^column.scale
    BY <1>5, <2>1 DEF Stored, Scaled, Integers4
  <2>2. CASE ~(cell.rate > SecondsPerDay * 10^column.scale)
    BY <1>5, <2>2 DEF Stored, Integers4
  <2>. QED
    BY <1>5, <2>1, <2>2 DEF Integers4
<1>6. CASE column.type \in {"float", "bit"}
  BY <1>6 DEF Stored, Integers4
<1>. QED
  BY <1>1, <1>2, <1>3, <1>4, <1>5, <1>6

\* What the program makes of a cell, by the type of the column.
LEMMA AdaptedBy ==
  ASSUME NEW cell, NEW column
  PROVE  /\ column.type \in {"int", "smallint", "tinyint"} =>
              Adapted(cell, column) = When(cell.part \in IntegerRange(column.type), cell)
         /\ column.type = "datetime" =>
              Adapted(cell, column) = When(Ticked(cell).day \in FirstDatetimeDay .. LastDay,
                                           Ticked(cell))
         /\ column.type = "datetime2" /\ column.scale < UnitDigits =>
              Adapted(cell, column) = When(Scaled(cell, column).day <= LastDay,
                                           Scaled(cell, column))
         /\ column.type = "datetime2" /\ ~(column.scale < UnitDigits) =>
              Adapted(cell, column) = Some(cell)
         /\ column.type \in {"bigint", "decimal", "numeric", "float", "bit", "nvarchar"} =>
              Adapted(cell, column) = Some(cell)
<1>1. CASE column.type \in {"int", "smallint", "tinyint"}
  BY <1>1 DEF Adapted
<1>2. CASE column.type = "datetime"
  BY <1>2 DEF Adapted, Ticked
<1>3. CASE column.type = "datetime2"
  <2>1. CASE column.scale < UnitDigits
    BY <1>3, <2>1 DEF Adapted, Scaled
  <2>2. CASE ~(column.scale < UnitDigits)
    BY <1>3, <2>2 DEF Adapted
  <2>. QED
    BY <1>3, <2>1, <2>2
<1>4. CASE column.type \in {"bigint", "decimal", "numeric", "float", "bit", "nvarchar"}
  BY <1>4 DEF Adapted
<1>. QED
  BY <1>1, <1>2, <1>3, <1>4

LEMMA WhenOk ==
  ASSUME NEW c, NEW x, When(c, x).ok PROVE c /\ When(c, x) = Some(x) /\ When(c, x).value = x
BY DEF When, Some, None

\* A moment and its rounding are at most half a tick apart.
LEMMA RoundedApart ==
  ASSUME NEW cell \in Cells, NEW exact \in Cells, NEW rate \in Nat \ {0},
         cell.rate = exact.rate, Measure(cell) = Measure(exact)
  PROVE  TwiceApart(RoundedTo(cell, rate), exact) <= cell.rate
<1> DEFINE rounded == RoundedTo(cell, rate)
           ticks == (cell.part * rate + cell.rate \div 2) \div cell.rate
           U == cell.rate
           x == rounded.day * rate + rounded.part
           y == exact.day * exact.rate + exact.part
<1>1. /\ rounded.rate = rate /\ ticks \in Int
      /\ x = cell.day * rate + ticks
      /\ 2 * (ticks * U - cell.part * rate) <= U
      /\ -2 * (ticks * U - cell.part * rate) <= U
  BY RoundedIs
<1>2. cell.day \in Int /\ cell.part \in Int /\ U \in Nat \ {0}
  BY DEF Cells
<1>3. y = cell.day * U + cell.part
  BY DEF Measure
<1>4. TwiceApart(rounded, exact)
        = LET d == x * U - y * rate IN IF d < 0 THEN -2 * d ELSE 2 * d
  BY <1>1 DEF TwiceApart
<1> HIDE DEF rounded, ticks, U, x, y
<1>5. (cell.day * rate + ticks) * U - (cell.day * U + cell.part) * rate
        = ticks * U - cell.part * rate
  <2>1. (cell.day * rate + ticks) * U = cell.day * rate * U + ticks * U
    BY <1>1, <1>2
  <2>2. (cell.day * U + cell.part) * rate = cell.day * U * rate + cell.part * rate
    BY <1>1, <1>2
  <2>3. cell.day * rate * U = cell.day * U * rate /\ cell.day * rate * U \in Int
    BY <1>2
  <2>4. ticks * U \in Int /\ cell.part * rate \in Int
    BY <1>1, <1>2
  <2>. QED
    BY <2>1, <2>2, <2>3, <2>4
<1>6. x * U - y * rate = ticks * U - cell.part * rate
  BY <1>1, <1>3, <1>5
<1> DEFINE d == ticks * U - cell.part * rate
<1>7. d \in Int /\ 2 * d <= U /\ -2 * d <= U
  BY <1>1, <1>2
<1>8. TwiceApart(rounded, exact) = IF d < 0 THEN -2 * d ELSE 2 * d
  BY <1>4, <1>6
<1> HIDE DEF d
<1>. QED
  BY <1>7, <1>8 DEF rounded, U

\* What the server stores of a value in a column of the Accept Family is the
\* value, or its rounding where the job signed for it.
LEMMA StoredIs ==
  ASSUME NEW type, KnownType(type), NEW column, column.scale \in 0 .. MaxPrecision,
         NEW rounding, Accepted(type, column, rounding),
         NEW n \in Int, NEW c, WireCell(type, n) = Some(c), Stored(c, column).ok
  PROVE  LET s == Stored(c, column).value
         IN /\ s \in Cells /\ Stored(c, column) = Some(s)
            /\ ~Rounds(column) => Same(Some(s), Some(Exact(type, n)))
            /\ Rounds(column) =>
                 rounding /\ TwiceApart(s, Exact(type, n)) <= UnitsPerDay
<1> DEFINE e == Exact(type, n)
           s == Stored(c, column).value
<1>1. WireCell(type, n).ok /\ WireCell(type, n).value = c
  BY DEF Some
<1>2. c \in Cells /\ e \in Cells /\ Same(Some(c), Some(e))
  BY <1>1, WireIs, WireExact, ExactIs
<1>3. ASSUME s = c, Stored(c, column) = Some(s), ~Rounds(column)
      PROVE  /\ s \in Cells /\ Stored(c, column) = Some(s)
             /\ ~Rounds(column) => Same(Some(s), Some(e))
             /\ Rounds(column) => rounding /\ TwiceApart(s, e) <= UnitsPerDay
  BY <1>2, <1>3
<1>4. CASE type.kind = "int64" /\ column.type \in Integers4
  <2>1. ~Rounds(column)
    BY <1>4 DEF Rounds, Integers4
  <2>2. s = c /\ Stored(c, column) = Some(s)
    BY <1>4, StoredBy, WhenOk
  <2>. QED
    BY <1>3, <2>1, <2>2
<1>5. CASE /\ type.kind = "decimal" /\ column.type \in {"decimal", "numeric"}
           /\ column.scale = type.scale
  <2>1. ~Rounds(column)
    BY <1>5 DEF Rounds
  <2>2. c = Whole(n, 10^column.scale) /\ 10^column.scale \in Nat \ {0}
    BY <1>1, <1>5, WireIs, Constants
  <2>3. Digitized(c, column) = n
    <3> DEFINE w == 10^column.scale
    <3>1. Digitized(c, column) = (n * w + w \div 2) \div w
      BY <2>2 DEF Digitized, Whole
    <3> HIDE DEF w
    <3>. QED
      BY <2>2, <3>1, HalfIsLost DEF w
  <2>4. s = c /\ Stored(c, column) = Some(s)
    BY <1>5, <2>2, <2>3, StoredBy, WhenOk
  <2>. QED
    BY <1>3, <2>1, <2>4
<1>6. CASE type.kind \in {"float64", "boolean"} /\ column.type \in {"float", "bit"}
  <2>1. ~Rounds(column)
    BY <1>6 DEF Rounds
  <2>2. s = c /\ Stored(c, column) = Some(s)
    BY <1>6, StoredBy DEF Some
  <2>. QED
    BY <1>3, <2>1, <2>2
<1>7. CASE type.kind = "utf8" /\ column.type = "nvarchar"
  <2>1. ~Rounds(column)
    BY <1>7 DEF Rounds
  <2>2. s = c /\ Stored(c, column) = Some(s)
    BY <1>7, StoredBy, WhenOk
  <2>. QED
    BY <1>3, <2>1, <2>2
<1>8. CASE type.kind \in Timestamps
  <2>1. c.rate = UnitsPerDay /\ e.rate = UnitsPerDay /\ Measure(c) = Measure(e)
    <3>1. c.rate = UnitsPerDay /\ Measure(c) = n + EpochDay * UnitsPerDay
      BY <1>1, <1>8, WireIs DEF Measure
    <3>2. e.rate = UnitsPerDay /\ Measure(e) = 0 * UnitsPerDay + (n + EpochDay * UnitsPerDay)
      BY <1>8, ExactIs DEF Measure
    <3>. QED
      BY <3>1, <3>2, Rates, Constants
  <2>2. ASSUME NEW rate \in Nat \ {0}
        PROVE  /\ RoundedTo(c, rate) \in Cells
               /\ TwiceApart(RoundedTo(c, rate), e) <= UnitsPerDay
    <3> HIDE DEF e
    <3>1. c \in Cells /\ e \in Cells
      BY <1>2
    <3>2. RoundedTo(c, rate) \in Cells
      BY <3>1, RoundedStays
    <3>3. c.rate = e.rate /\ Measure(c) = Measure(e)
      BY <2>1
    <3>4. TwiceApart(RoundedTo(c, rate), e) <= c.rate
      BY <3>1, <3>3, RoundedApart
    <3>. QED
      BY <2>1, <3>2, <3>4
  <2>3. /\ column.type \in {"datetime", "datetime2"}
        /\ Rounds(column) => rounding
    BY <1>8, AcceptedIs DEF Timestamps
  <2>4. CASE column.type = "datetime"
    <3>1. s = Ticked(c) /\ Stored(c, column) = Some(s) /\ Rounds(column)
      BY <2>4, StoredBy, WhenOk DEF Rounds
    <3>. QED
      BY <2>2, <2>3, <3>1, Rates DEF Ticked
  <2>5. CASE column.type = "datetime2" /\ column.scale < UnitDigits
    <3>1. c.rate > SecondsPerDay * 10^column.scale
      BY <2>1, <2>5, Rates
    <3>2. s = Scaled(c, column) /\ Stored(c, column) = Some(s) /\ Rounds(column)
      BY <2>5, <3>1, StoredBy, WhenOk DEF Rounds
    <3>. QED
      BY <2>2, <2>3, <3>2, Rates DEF Scaled
  <2>6. CASE column.type = "datetime2" /\ ~(column.scale < UnitDigits)
    <3>1. ~(c.rate > SecondsPerDay * 10^column.scale) /\ ~Rounds(column)
      BY <2>1, <2>6, Rates, Constants DEF Rounds
    <3>2. s = c /\ Stored(c, column) = Some(s)
      BY <2>6, <3>1, StoredBy DEF Some
    <3>. QED
      BY <1>3, <3>1, <3>2
  <2>. QED
    BY <2>3, <2>4, <2>5, <2>6
<1>. QED
  BY <1>4, <1>5, <1>6, <1>7, <1>8, AcceptedIs

\* The server makes of what was adapted on the wire what it makes of the value.
LEMMA StoredAdapted ==
  ASSUME NEW type, KnownType(type), NEW column, column.scale \in 0 .. MaxPrecision,
         NEW rounding, Accepted(type, column, rounding),
         NEW n \in Int, NEW c, WireCell(type, n) = Some(c), Adapted(c, column).ok
  PROVE  LET a == Adapted(c, column).value
         IN a \in Cells /\ Adapted(c, column) = Some(a) /\ Stored(a, column) = Stored(c, column)
<1> DEFINE a == Adapted(c, column).value
<1>1. WireCell(type, n).ok /\ WireCell(type, n).value = c
  BY DEF Some
<1>2. c \in Cells
  BY <1>1, WireIs
<1>3. CASE column.type \in {"int", "smallint", "tinyint"}
  <2>1. a = c /\ Adapted(c, column) = Some(a)
    BY <1>3, AdaptedBy, WhenOk
  <2>. QED
    BY <1>2, <2>1
<1>4. CASE column.type \in {"bigint", "decimal", "numeric", "float", "bit", "nvarchar"}
  <2>1. a = c /\ Adapted(c, column) = Some(a)
    BY <1>4, AdaptedBy DEF Some
  <2>. QED
    BY <1>2, <2>1
<1>5. CASE column.type = "datetime"
  <2> DEFINE rate == SecondsPerDay * TicksPerSecond
  <2>1. a = Ticked(c) /\ Adapted(c, column) = Some(a) /\ Ticked(c).day \in FirstDatetimeDay .. LastDay
    <3>1. Adapted(c, column) = When(Ticked(c).day \in FirstDatetimeDay .. LastDay, Ticked(c))
      BY <1>5, AdaptedBy
    <3>2. Ticked(c).day \in FirstDatetimeDay .. LastDay
      BY <3>1 DEF When, None
    <3>. QED
      BY <3>1, <3>2 DEF When, Some
  <2>2. rate \in Nat \ {0}
    BY Rates
  <2>3. a \in Cells /\ a.rate = rate /\ a.part \in 0 .. a.rate - 1
    <3> HIDE DEF rate
    <3>1. /\ RoundedTo(c, rate) \in Cells /\ RoundedTo(c, rate).rate = rate
          /\ RoundedTo(c, rate).part \in 0 .. rate - 1
      BY <1>2, <2>2, RoundedStays
    <3>. QED
      BY <2>1, <3>1 DEF Ticked, rate
  <2>4. Ticked(a) = a
    BY <2>3, RoundedTwice DEF Ticked
  <2>5. Stored(a, column) = When(Ticked(a).day \in FirstDatetimeDay .. LastDay, Ticked(a))
    BY <1>5, StoredBy
  <2>6. Stored(c, column) = When(Ticked(c).day \in FirstDatetimeDay .. LastDay, Ticked(c))
    BY <1>5, StoredBy
  <2>. QED
    BY <2>1, <2>3, <2>4, <2>5, <2>6
<1>6. CASE column.type = "datetime2" /\ column.scale < UnitDigits
  <2> DEFINE rate == SecondsPerDay * 10^column.scale
  <2>1. a = Scaled(c, column) /\ Adapted(c, column) = Some(a) /\ Scaled(c, column).day <= LastDay
    <3>1. Adapted(c, column) = When(Scaled(c, column).day <= LastDay, Scaled(c, column))
      BY <1>6, AdaptedBy
    <3>2. Scaled(c, column).day <= LastDay
      BY <3>1 DEF When, None
    <3>. QED
      BY <3>1, <3>2 DEF When, Some
  <2>2. rate \in Nat \ {0}
    BY Rates
  <2>3. a \in Cells /\ a.rate = rate
    <3> HIDE DEF rate
    <3>1. RoundedTo(c, rate) \in Cells /\ RoundedTo(c, rate).rate = rate
      BY <1>2, <2>2, RoundedStays
    <3>. QED
      BY <2>1, <3>1 DEF Scaled, rate
  <2>4. ~(a.rate > rate)
    BY <2>2, <2>3
  <2>5. Stored(a, column) = Some(a)
    BY <1>6, <2>4, StoredBy
  <2>6. type.kind \in Timestamps
    BY <1>6, AcceptedIs DEF Integers4
  <2>7. c.rate > rate
    BY <1>1, <1>6, <2>6, WireIs, Rates
  <2>8. Stored(c, column) = Some(Scaled(c, column))
    <3>1. Stored(c, column) = When(Scaled(c, column).day <= LastDay, Scaled(c, column))
      BY <1>6, <2>7, StoredBy
    <3>. QED
      BY <2>1, <3>1 DEF When
  <2>. QED
    BY <2>1, <2>3, <2>5, <2>8
<1>7. CASE column.type = "datetime2" /\ ~(column.scale < UnitDigits)
  <2>1. a = c /\ Adapted(c, column) = Some(a)
    BY <1>7, AdaptedBy DEF Some
  <2>. QED
    BY <1>2, <2>1
<1>. QED
  BY <1>3, <1>4, <1>5, <1>6, <1>7, AcceptedIs DEF Integers4

-----------------------------------------------------------------------------
(* Columns by their names, and the plan.                                   *)

\* A name some column has leads to a column of that name.
LEMMA PositionIs ==
  ASSUME NEW columns, Listed(columns), NEW name, Has(columns, name)
  PROVE  /\ Position(columns, name) \in DOMAIN columns
         /\ columns[Position(columns, name)].name = name
<1> DEFINE T == { i \in DOMAIN columns : columns[i].name = name }
           First(i) == columns[i].name = name /\ \A k \in 1 .. i - 1 : columns[k].name # name
<1>1. DOMAIN columns = 1 .. Len(columns) /\ Len(columns) \in Nat
  BY ListedIs
<1>2. T \in SUBSET Nat /\ T # {}
  BY <1>1 DEF Has
<1>3. PICK n \in T : \A m \in T : n <= m
  BY <1>2, LeastNumber
<1>4. n \in DOMAIN columns /\ First(n)
  BY <1>1, <1>3
<1> HIDE DEF T, First
<1>5. \E i \in DOMAIN columns : First(i)
  BY <1>4
<1>6. Position(columns, name) = CHOOSE i \in DOMAIN columns : First(i)
  BY DEF Position, First
<1>7. Position(columns, name) \in DOMAIN columns /\ First(Position(columns, name))
  BY <1>5, <1>6
<1>. QED
  BY <1>7 DEF First

\* Where no name repeats, the name of a column leads to that column.
LEMMA PositionOf ==
  ASSUME NEW columns, Listed(columns), IsInjective(Names(columns)), NEW i \in DOMAIN columns
  PROVE  Position(columns, columns[i].name) = i
<1> DEFINE k == Position(columns, columns[i].name)
<1>1. Has(columns, columns[i].name)
  BY DEF Has
<1>2. k \in DOMAIN columns /\ columns[k].name = columns[i].name
  BY <1>1, PositionIs
<1> HIDE DEF k
<1>3. Names(columns)[k] = Names(columns)[i] /\ DOMAIN Names(columns) = DOMAIN columns
  BY <1>2 DEF Names
<1>. QED
  BY <1>2, <1>3 DEF IsInjective, k

\* A table a job may write to.
Fitting(columns, j) == Catalogued(columns) /\ Validates(columns, j)

\* The column a field goes to, and what validation found of it.
LEMMA FieldIs ==
  ASSUME NEW j, WellFormed(j), NEW columns, Fitting(columns, j), NEW i \in DOMAIN j.fields
  PROVE  LET name == j.fields[i].name
             column == columns[Position(columns, name)]
         IN /\ Position(columns, name) \in DOMAIN columns /\ column.name = name
            /\ column.scale \in 0 .. MaxPrecision
            /\ KnownType(j.fields[i].type)
            /\ Accepted(j.fields[i].type, column, j.rounding)
            /\ j.fields[i].nullable => column.nullable
            /\ column.identity => name \in KeysOf(j)
            /\ column.has_default /\ j.fields[i].nullable => j.mode = "merge"
<1>1. FieldAccepted(j.fields[i], columns, j) /\ KnownType(j.fields[i].type) /\ Listed(columns)
  BY DEF Fitting, Validates, WellFormed, Catalogued
<1>2. Has(columns, j.fields[i].name)
  BY <1>1 DEF FieldAccepted
<1>3. Position(columns, j.fields[i].name) \in DOMAIN columns
      /\ columns[Position(columns, j.fields[i].name)].name = j.fields[i].name
  BY <1>1, <1>2, PositionIs
<1>4. columns[Position(columns, j.fields[i].name)].scale \in 0 .. MaxPrecision
  BY <1>3 DEF Fitting, Catalogued
<1>. QED
  BY <1>1, <1>3, <1>4 DEF FieldAccepted

\* The column a full refresh creates for a field.
LEMMA CreatedColumnIs ==
  ASSUME NEW field, KnownType(field.type), NEW rounding
  PROVE  LET column == CreatedColumn(field)
         IN /\ column.name = field.name /\ column.type # NoType
            /\ column.scale \in 0 .. MaxPrecision
            /\ Accepted(field.type, column, rounding)
            /\ column.nullable = field.nullable
            /\ column.identity = FALSE /\ column.has_default = FALSE
            /\ column.max_length = -1
            /\ field.type.kind = "int64" => column.type = "bigint"
            /\ field.type.kind = "utf8" => column.type = "nvarchar"
            /\ field.type.kind = "decimal" =>
                 /\ column.type = "decimal" /\ column.scale = field.type.scale
                 /\ column.precision = field.type.precision
            /\ field.type.kind \in Timestamps =>
                 column.type = "datetime2" /\ column.scale = UnitDigits
            /\ field.type.kind \in {"float64", "boolean"} => column.type \in {"float", "bit"}
<1> DEFINE type == field.type
           created == CreatedType(type)
           column == CreatedColumn(field)
<1>1. /\ column.name = field.name /\ column.type = created.type
      /\ column.precision = created.precision /\ column.scale = created.scale
      /\ column.max_length = -1 /\ column.nullable = field.nullable
      /\ column.identity = FALSE /\ column.has_default = FALSE
  BY DEF CreatedColumn, Declared
<1>2. UnitDigits \in 0 .. MaxPrecision /\ 0 \in 0 .. MaxPrecision /\ UnitDigits \in Nat
  BY Constants
<1> HIDE DEF column
<1>3. CASE type.kind = "int64"
  <2>1. created = [type |-> "bigint", precision |-> 0, scale |-> 0]
    BY <1>3 DEF CreatedType
  <2>2. Accepted(type, column, rounding)
    BY <1>1, <1>3, <2>1 DEF Accepted, Timestamps
  <2>. QED
    BY <1>1, <1>2, <1>3, <2>1, <2>2 DEF NoType, Timestamps, column
<1>4. CASE type.kind = "float64"
  <2>1. created = [type |-> "float", precision |-> 53, scale |-> 0]
    BY <1>4 DEF CreatedType
  <2>2. Accepted(type, column, rounding)
    BY <1>1, <1>4, <2>1 DEF Accepted, Timestamps
  <2>. QED
    BY <1>1, <1>2, <1>4, <2>1, <2>2 DEF NoType, Timestamps, column
<1>5. CASE type.kind = "boolean"
  <2>1. created = [type |-> "bit", precision |-> 0, scale |-> 0]
    BY <1>5 DEF CreatedType
  <2>2. Accepted(type, column, rounding)
    BY <1>1, <1>5, <2>1 DEF Accepted, Timestamps
  <2>. QED
    BY <1>1, <1>2, <1>5, <2>1, <2>2 DEF NoType, Timestamps, column
<1>6. CASE type.kind = "utf8"
  <2>1. created = [type |-> "nvarchar", precision |-> 0, scale |-> 0]
    BY <1>6 DEF CreatedType
  <2>2. Accepted(type, column, rounding)
    BY <1>1, <1>6, <2>1 DEF Accepted, Timestamps
  <2>. QED
    BY <1>1, <1>2, <1>6, <2>1, <2>2 DEF NoType, Timestamps, column
<1>7. CASE type.kind = "decimal"
  <2>1. created = [type |-> "decimal", precision |-> type.precision, scale |-> type.scale]
    BY <1>7 DEF CreatedType
  <2>2. type.scale \in 0 .. MaxPrecision
    BY <1>7, Constants DEF KnownType, Inferable
  <2>3. Accepted(type, column, rounding)
    BY <1>1, <1>7, <2>1 DEF Accepted, Timestamps
  <2>. QED
    BY <1>1, <1>7, <2>1, <2>2, <2>3 DEF NoType, Timestamps, column
<1>8. CASE type.kind \in Timestamps
  <2>1. created = [type |-> "datetime2", precision |-> 0, scale |-> UnitDigits]
    BY <1>8 DEF CreatedType, Timestamps
  <2>2. Accepted(type, column, rounding)
    BY <1>1, <1>2, <1>8, <2>1 DEF Accepted, Timestamps
  <2>. QED
    BY <1>1, <1>2, <1>8, <2>1, <2>2 DEF NoType, Timestamps, column
<1>. QED
  BY <1>3, <1>4, <1>5, <1>6, <1>7, <1>8 DEF KnownType, Inferable, Timestamps

\* The table a full refresh creates is one the job may write to.
LEMMA CreatedIs ==
  ASSUME NEW j, WellFormed(j), Plannable(j.fields)
  PROVE  /\ Fitting(Created(j.fields), j) /\ Readable(Created(j.fields))
         /\ DOMAIN Created(j.fields) = DOMAIN j.fields
         /\ \A i \in DOMAIN j.fields :
              /\ Created(j.fields)[i] = CreatedColumn(j.fields[i])
              /\ Position(Created(j.fields), j.fields[i].name) = i
<1> DEFINE columns == Created(j.fields)
<1>1. /\ DOMAIN columns = DOMAIN j.fields
      /\ \A i \in DOMAIN j.fields : columns[i] = CreatedColumn(j.fields[i])
      /\ columns = [i \in DOMAIN j.fields |-> columns[i]]
  BY DEF Created
<1> HIDE DEF columns
<1>2. Listed(j.fields) /\ DOMAIN j.fields = 1 .. Len(j.fields) /\ Len(j.fields) \in Nat
  BY ListedIs DEF WellFormed
<1>3. Listed(columns)
  BY <1>1, <1>2, FunctionListed
<1>4. \A i \in DOMAIN j.fields : KnownType(j.fields[i].type)
  BY DEF WellFormed
<1>5. \A i \in DOMAIN j.fields : columns[i].name = j.fields[i].name
  BY <1>1, <1>4, CreatedColumnIs
<1>6. IsInjective(Names(columns))
  <2>1. Names(columns) = Names(j.fields)
    BY <1>1, <1>5 DEF Names
  <2>. QED
    BY <2>1 DEF Plannable
<1>7. Catalogued(columns) /\ Readable(columns)
  <2>1. ASSUME NEW i \in DOMAIN columns
        PROVE  columns[i].scale \in 0 .. MaxPrecision /\ columns[i].type # NoType
    BY <1>1, <1>4, CreatedColumnIs
  <2>. QED
    BY <1>3, <1>6, <2>1 DEF Catalogued, Readable
<1>8. \A i \in DOMAIN j.fields : Position(columns, j.fields[i].name) = i
  BY <1>1, <1>3, <1>5, <1>6, PositionOf
<1>9. ASSUME NEW i \in DOMAIN j.fields PROVE FieldAccepted(j.fields[i], columns, j)
  <2>1. Has(columns, j.fields[i].name)
    BY <1>1, <1>5, <1>9 DEF Has
  <2>2. columns[Position(columns, j.fields[i].name)] = CreatedColumn(j.fields[i])
    BY <1>1, <1>8
  <2>. QED
    BY <1>4, <2>1, <2>2, CreatedColumnIs DEF FieldAccepted
<1>10. ASSUME NEW i \in DOMAIN columns PROVE ExtraAccepted(columns[i], j.fields)
  BY <1>1, <1>5, <1>10 DEF ExtraAccepted, Has
<1>11. Validates(columns, j)
  BY <1>9, <1>10 DEF Validates
<1>. QED
  BY <1>1, <1>7, <1>8, <1>11 DEF Fitting, columns

Met(t, j) == t = None \/ (t = Some(t.value) /\ Fitting(t.value, j))
Written(t, j) == IF t.ok THEN t.value ELSE Created(j.fields)

\* The table a load writes to, found or created, is in the Accept Family.
LEMMA WrittenFits ==
  ASSUME NEW j, WellFormed(j), Plannable(j.fields), NEW t, Met(t, j)
  PROVE  Fitting(Written(t, j), j)
<1>1. CASE t = None
  BY <1>1, CreatedIs DEF Written, None
<1>2. CASE t = Some(t.value) /\ Fitting(t.value, j)
  BY <1>2 DEF Written, Some
<1>. QED
  BY <1>1, <1>2 DEF Met

\* Every field has its entry, and an entry its field; what is adapted is
\* adapted to the column of that name.
LEMMA PlanIs ==
  ASSUME NEW j, WellFormed(j), Plannable(j.fields), NEW t, Met(t, j)
  PROVE  LET plan == PlanOf(t, j)
             columns == Written(t, j)
         IN /\ Listed(plan)
            /\ \A e \in DOMAIN plan :
                 /\ plan[e].field \in DOMAIN j.fields
                 /\ plan[e].name = j.fields[plan[e].field].name
                 /\ \/ plan[e].wire = None
                    \/ /\ plan[e].wire = Some(columns[Position(columns, plan[e].name)])
                       /\ j.mode # "merge"
            /\ \A i \in DOMAIN j.fields : Has(plan, j.fields[i].name)
<1> DEFINE fields == j.fields
           plan == PlanOf(t, j)
           columns == Written(t, j)
<1>1. /\ Listed(fields) /\ IsInjective(Names(fields))
      /\ DOMAIN fields = 1 .. Len(fields) /\ Len(fields) \in Nat
  BY ListedIs DEF WellFormed, Plannable
<1>2. CASE j.mode = "merge" \/ ~t.ok
  <2>1. plan = [i \in DOMAIN fields |-> Planned(fields[i].name, fields, None)]
    BY <1>2 DEF PlanOf
  <2> HIDE DEF plan
  <2>2. /\ DOMAIN plan = DOMAIN fields
        /\ \A i \in DOMAIN fields :
             plan[i] = [name |-> fields[i].name, field |-> Position(fields, fields[i].name),
                        wire |-> None]
    BY <2>1 DEF Planned
  <2>3. \A i \in DOMAIN fields : Position(fields, fields[i].name) = i
    BY <1>1, PositionOf
  <2>4. Listed(plan)
    <3>1. plan = [i \in DOMAIN fields |-> plan[i]]
      BY <2>1
    <3>. QED
      BY <1>1, <2>2, <3>1, FunctionListed
  <2> HIDE DEF fields, columns
  <2>5. ASSUME NEW i \in DOMAIN fields PROVE Has(plan, fields[i].name)
    <3>1. i \in DOMAIN plan /\ plan[i].name = fields[i].name
      BY <2>2
    <3>. QED
      BY <3>1 DEF Has
  <2>6. ASSUME NEW e \in DOMAIN plan
        PROVE  /\ plan[e].field \in DOMAIN fields
               /\ plan[e].name = fields[plan[e].field].name
               /\ plan[e].wire = None
    BY <2>2, <2>3
  <2>. QED
    BY <2>4, <2>5, <2>6 DEF plan, columns, fields
<1>3. CASE ~(j.mode = "merge" \/ ~t.ok)
  <2> DEFINE shared == { i \in DOMAIN t.value : Has(fields, t.value[i].name) }
             mapped == Picked(t.value, shared)
  <2>1. t = Some(t.value) /\ Fitting(t.value, j) /\ columns = t.value
    BY <1>3 DEF Met, None, Written
  <2>2. plan = [i \in DOMAIN mapped |-> Planned(mapped[i].name, fields, Some(mapped[i]))]
    BY <1>3 DEF PlanOf
  <2>3. Listed(columns) /\ IsInjective(Names(columns))
    BY <2>1 DEF Fitting, Catalogued
  <2>4. /\ Listed(mapped)
        /\ \A n \in DOMAIN mapped : \E k \in shared : mapped[n] = columns[k]
        /\ \A k \in shared : \E n \in DOMAIN mapped : mapped[n] = columns[k]
    <3>1. shared \in SUBSET DOMAIN t.value
      OBVIOUS
    <3> HIDE DEF shared
    <3>. QED
      BY <2>1, <2>3, <3>1, PickedIs
  <2>5. shared = { i \in DOMAIN columns : Has(fields, columns[i].name) }
    BY <2>1
  <2> HIDE DEF plan, columns, shared, mapped
  <2>6. DOMAIN plan = DOMAIN mapped
        /\ \A e \in DOMAIN plan :
             plan[e] = [name |-> mapped[e].name, field |-> Position(fields, mapped[e].name),
                        wire |-> Some(mapped[e])]
    BY <2>2 DEF Planned
  <2>7. Listed(plan)
    <3>1. DOMAIN mapped = 1 .. Len(mapped) /\ Len(mapped) \in Nat
      BY <2>4, ListedIs
    <3>2. plan = [i \in DOMAIN mapped |-> plan[i]]
      BY <2>2
    <3>. QED
      BY <2>6, <3>1, <3>2, FunctionListed
  <2>8. ASSUME NEW e \in DOMAIN plan
        PROVE  /\ plan[e].field \in DOMAIN fields
               /\ plan[e].name = fields[plan[e].field].name
               /\ plan[e].wire = Some(columns[Position(columns, plan[e].name)])
    <3>1. PICK k \in shared : mapped[e] = columns[k]
      BY <2>4, <2>6
    <3>2. k \in DOMAIN columns /\ Has(fields, columns[k].name)
      BY <2>5
    <3>3. Position(columns, columns[k].name) = k
      BY <2>3, <3>2, PositionOf
    <3>4. /\ Position(fields, columns[k].name) \in DOMAIN fields
          /\ fields[Position(fields, columns[k].name)].name = columns[k].name
      BY <1>1, <3>2, PositionIs
    <3>. QED
      BY <2>6, <3>1, <3>3, <3>4
  <2>9. ASSUME NEW i \in DOMAIN fields PROVE Has(plan, fields[i].name)
    <3> DEFINE k == Position(columns, fields[i].name)
    <3>1. k \in DOMAIN columns /\ columns[k].name = fields[i].name
      BY <2>1, <2>9, FieldIs DEF columns
    <3>2. k \in shared
      BY <2>5, <2>9, <3>1 DEF Has
    <3>3. PICK n \in DOMAIN mapped : mapped[n] = columns[k]
      BY <2>4, <3>2
    <3>. QED
      BY <2>6, <3>1, <3>3 DEF Has
  <2>. QED
    BY <1>3, <2>7, <2>8, <2>9 DEF plan, columns
<1>. QED
  BY <1>2, <1>3

\* The plan has an entry for each field, and none for another name.
LEMMA EntryIs ==
  ASSUME NEW j, WellFormed(j), Plannable(j.fields), NEW t, Met(t, j)
  PROVE  LET plan == PlanOf(t, j)
         IN /\ \A i \in DOMAIN j.fields :
                 LET at == EntryFor(plan, j.fields[i].name)
                 IN /\ at \in DOMAIN plan /\ at # 0
                    /\ plan[at].name = j.fields[i].name /\ plan[at].field = i
            /\ \A name : EntryFor(plan, name) # 0 =>
                 \E i \in DOMAIN j.fields : j.fields[i].name = name
<1> DEFINE plan == PlanOf(t, j)
<1>1. /\ Listed(plan)
      /\ \A e \in DOMAIN plan :
           plan[e].field \in DOMAIN j.fields /\ plan[e].name = j.fields[plan[e].field].name
      /\ \A i \in DOMAIN j.fields : Has(plan, j.fields[i].name)
  BY PlanIs
<1>2. DOMAIN plan = 1 .. Len(plan) /\ Len(plan) \in Nat
  BY <1>1, ListedIs
<1> HIDE DEF plan
<1>3. ASSUME NEW i \in DOMAIN j.fields
      PROVE  LET at == EntryFor(plan, j.fields[i].name)
             IN /\ at \in DOMAIN plan /\ at # 0
                /\ plan[at].name = j.fields[i].name /\ plan[at].field = i
  <2> DEFINE at == EntryFor(plan, j.fields[i].name)
  <2>1. at \in DOMAIN plan /\ plan[at].name = j.fields[i].name
    BY <1>1, PositionIs DEF EntryFor
  <2>2. at # 0
    BY <1>2, <2>1
  <2> HIDE DEF at
  <2>3. plan[at].field \in DOMAIN j.fields /\ j.fields[plan[at].field].name = j.fields[i].name
    BY <1>1, <2>1
  <2>4. plan[at].field = i
    BY <2>3, PositionOf DEF WellFormed, Plannable
  <2>. QED
    BY <2>1, <2>2, <2>4 DEF at
<1>4. ASSUME NEW name, EntryFor(plan, name) # 0
      PROVE  \E i \in DOMAIN j.fields : j.fields[i].name = name
  <2>1. Has(plan, name)
    BY <1>4 DEF EntryFor
  <2>. QED
    BY <1>1, <2>1 DEF Has
<1>. QED
  BY <1>3, <1>4 DEF plan

-----------------------------------------------------------------------------
(* A record on the wire, and the row it lands as.                          *)

\* A record's value is NULL, where its field allows it, or one its type admits.
LEMMA ValueIs ==
  ASSUME NEW j, WellFormed(j), NEW r \in DOMAIN j.records, NEW i \in DOMAIN j.fields
  PROVE  LET value == j.records[r][i]
         IN /\ value.ok \in BOOLEAN
            /\ ~value.ok => j.fields[i].nullable /\ j.fields[i].name \notin j.keys
            /\ value.ok => value.value \in Int /\ Admits(j.fields[i].type, value.value)
<1> DEFINE value == j.records[r][i]
<1>1. \/ value = None /\ j.fields[i].nullable /\ j.fields[i].name \notin j.keys
      \/ value = Some(value.value) /\ Admits(j.fields[i].type, value.value)
  BY DEF WellFormed
<1> HIDE DEF value
<1>2. CASE value = None /\ j.fields[i].nullable /\ j.fields[i].name \notin j.keys
  BY <1>2 DEF None, value
<1>3. CASE value = Some(value.value) /\ Admits(j.fields[i].type, value.value)
  <2>1. value.ok = TRUE
    BY <1>3 DEF Some
  <2>2. value.value \in Int
    BY <1>3 DEF Admits
  <2>. QED
    BY <1>3, <2>1, <2>2 DEF value
<1>. QED
  BY <1>1, <1>2, <1>3

\* What a job sends of a value to a column: nothing the server would not make
\* of the value itself.
Staged(j, cell, type, value, column) ==
  /\ ~value.ok => cell = None
  /\ value.ok => LET wire == WireCell(type, value.value)
                 IN /\ wire.ok /\ cell.ok /\ cell \in Options(Cells)
                    /\ Stored(cell.value, column) = Stored(wire.value, column)
                    /\ j.mode = "merge" => cell = wire

StagedRow(j, columns, plan, cells, record) ==
  \A i \in DOMAIN j.fields :
    LET name == j.fields[i].name
    IN Staged(j, cells[EntryFor(plan, name)], j.fields[i].type, record[i],
              columns[Position(columns, name)])

\* A record that is sent is staged.
LEMMA RowIs ==
  ASSUME NEW j, WellFormed(j), Plannable(j.fields), NEW t, Met(t, j),
         NEW r \in DOMAIN j.records,
         WireRow(PlanOf(t, j), j.records[r], j.fields).ok
  PROVE  StagedRow(j, Written(t, j), PlanOf(t, j),
                   WireRow(PlanOf(t, j), j.records[r], j.fields).value, j.records[r])
<1> DEFINE plan == PlanOf(t, j)
           columns == Written(t, j)
           record == j.records[r]
           wires == [e \in DOMAIN plan |-> Wire(plan[e], record, j.fields)]
           cells == WireRow(plan, record, j.fields).value
<1>1. WireRow(plan, record, j.fields)
        = When(\A e \in DOMAIN wires : wires[e].ok, [e \in DOMAIN wires |-> wires[e].value])
  BY DEF WireRow
<1>2. /\ \A e \in DOMAIN wires : wires[e].ok
      /\ cells = [e \in DOMAIN wires |-> wires[e].value]
  <2>1. WireRow(plan, record, j.fields).ok
    OBVIOUS
  <2> HIDE DEF wires, record, plan
  <2>2. \A e \in DOMAIN wires : wires[e].ok
    BY <1>1, <2>1 DEF When, None
  <2>. QED
    BY <1>1, <2>2 DEF When, Some
<1>3. \A e \in DOMAIN plan : /\ Wire(plan[e], record, j.fields).ok
                             /\ cells[e] = Wire(plan[e], record, j.fields).value
  <2> HIDE DEF plan, cells
  <2>. QED
    BY <1>2
<1> SUFFICES ASSUME NEW i \in DOMAIN j.fields
             PROVE  LET name == j.fields[i].name
                    IN Staged(j, cells[EntryFor(plan, name)], j.fields[i].type, record[i],
                              columns[Position(columns, name)])
  BY DEF StagedRow
<1> DEFINE name == j.fields[i].name
           at == EntryFor(plan, name)
           type == j.fields[i].type
           column == columns[Position(columns, name)]
           value == record[i]
           wire == WireCell(type, value.value)
           wired == IF plan[at].wire.ok THEN Adapted(wire.value, plan[at].wire.value)
                    ELSE Some(wire.value)
<1>4. at \in DOMAIN plan /\ plan[at].name = name /\ plan[at].field = i
  BY EntryIs
<1>5. \/ plan[at].wire = None
      \/ plan[at].wire = Some(column) /\ j.mode # "merge"
  BY <1>4, PlanIs
<1>6. /\ column.scale \in 0 .. MaxPrecision /\ KnownType(type)
      /\ Accepted(type, column, j.rounding)
  BY FieldIs, WrittenFits
<1>7. value.ok \in BOOLEAN /\ (value.ok => value.value \in Int)
  BY ValueIs
<1>8. Wire(plan[at], record, j.fields)
        = IF ~value.ok THEN Some(None)
          ELSE IF wire.ok /\ wired.ok THEN Some(Some(wired.value)) ELSE None
  BY <1>4 DEF Wire
<1>9. Wire(plan[at], record, j.fields).ok /\ cells[at] = Wire(plan[at], record, j.fields).value
  BY <1>3, <1>4
<1> HIDE DEF plan, columns, record, wires, cells, name, at, type, column, value, wire
<1>10. ~value.ok => cells[at] = None
  BY <1>8, <1>9 DEF Some
<1>11. ASSUME value.ok
       PROVE  /\ wire.ok /\ cells[at].ok /\ cells[at] \in Options(Cells)
              /\ Stored(cells[at].value, column) = Stored(wire.value, column)
              /\ j.mode = "merge" => cells[at] = wire
  <2>1. wire.ok /\ wired.ok /\ cells[at] = Some(wired.value)
    <3> HIDE DEF wired
    <3>. QED
      BY <1>8, <1>9, <1>11 DEF Some, None
  <2>2. wire = Some(wire.value) /\ wire.value \in Cells
    BY <1>6, <1>7, <1>11, <2>1, WireIs DEF wire
  <2>3. CASE plan[at].wire = None
    <3>1. wired.value = wire.value
      BY <2>3 DEF None, Some
    <3>. QED
      BY <2>1, <2>2, <3>1 DEF Options, Some
  <2>4. CASE plan[at].wire = Some(column) /\ j.mode # "merge"
    <3>1. wired = Adapted(wire.value, column)
      BY <2>4 DEF Some
    <3>2. WireCell(type, value.value) = Some(wire.value)
      BY <2>2 DEF wire
    <3>3. /\ Adapted(wire.value, column).value \in Cells
          /\ Stored(Adapted(wire.value, column).value, column) = Stored(wire.value, column)
      BY <1>6, <1>7, <1>11, <2>1, <3>1, <3>2, StoredAdapted
    <3>4. /\ wired.value \in Cells
          /\ Stored(wired.value, column) = Stored(wire.value, column)
      BY <3>1, <3>3
    <3> HIDE DEF wired
    <3>. QED
      BY <2>1, <2>4, <3>4, OptionOf
  <2>. QED
    BY <1>5, <2>3, <2>4
<1>12. Staged(j, cells[at], type, value, column)
  BY <1>10, <1>11 DEF Staged, wire
<1>. QED
  BY <1>12 DEF plan, columns, record, cells, name, at, type, column, value

\* What a column keeps of a value: what the server makes of it.
Kept(cell, type, value, column) ==
  /\ ~value.ok => cell = None
  /\ value.ok => LET wire == WireCell(type, value.value)
                 IN /\ wire.ok /\ Stored(wire.value, column).ok
                    /\ cell = Some(Stored(wire.value, column).value)

KeptRow(columns, fields, row, record) ==
  \A i \in DOMAIN fields :
    LET at == Position(columns, fields[i].name)
    IN Kept(row[at], fields[i].type, record[i], columns[at])

\* A staged cell that the server takes is kept.
LEMMA StoredKept ==
  ASSUME NEW j, NEW cell, NEW type, NEW value, value.ok \in BOOLEAN, NEW column,
         Staged(j, cell, type, value, column), StoredOption(cell, column).ok
  PROVE  Kept(StoredOption(cell, column).value, type, value, column)
<1>1. CASE ~value.ok
  <2>1. StoredOption(None, column) = IF column.nullable THEN Some(None) ELSE None
    BY DEF StoredOption, None
  <2>2. cell = None /\ StoredOption(None, column).ok
    BY <1>1 DEF Staged
  <2>3. StoredOption(None, column) = Some(None)
    BY <2>1, <2>2 DEF None
  <2>4. StoredOption(cell, column).value = None
    BY <2>2, <2>3 DEF Some
  <2>. QED
    BY <1>1, <2>4 DEF Kept
<1>2. CASE value.ok
  <2> DEFINE wire == WireCell(type, value.value)
             stored == Stored(cell.value, column)
  <2>1. wire.ok /\ cell.ok /\ stored = Stored(wire.value, column)
    BY <1>2 DEF Staged
  <2>2. StoredOption(cell, column) = IF stored.ok THEN Some(Some(stored.value)) ELSE None
    BY <2>1 DEF StoredOption
  <2> HIDE DEF stored, wire
  <2>3. stored.ok /\ StoredOption(cell, column).value = Some(stored.value)
    BY <2>2 DEF Some, None
  <2>. QED
    BY <1>2, <2>1, <2>3 DEF Kept, wire
<1>. QED
  BY <1>1, <1>2

\* What is kept of a value is a cell, and in a column that does not round it
\* is the value.
LEMMA KeptIs ==
  ASSUME NEW type, KnownType(type), NEW column, column.scale \in 0 .. MaxPrecision,
         NEW rounding, Accepted(type, column, rounding),
         NEW value, value.ok \in BOOLEAN, value.ok => value.value \in Int,
         NEW cell, Kept(cell, type, value, column)
  PROVE  /\ cell \in Options(Cells) /\ (cell.ok <=> value.ok)
         /\ value.ok =>
              /\ ~Rounds(column) => Same(cell, Some(Exact(type, value.value)))
              /\ Rounds(column) =>
                   /\ rounding
                   /\ TwiceApart(cell.value, Exact(type, value.value)) <= UnitsPerDay
<1>1. CASE ~value.ok
  BY <1>1 DEF Kept, Options, None
<1>2. CASE value.ok
  <2> DEFINE wire == WireCell(type, value.value)
             s == Stored(wire.value, column).value
  <2>1. wire.ok /\ Stored(wire.value, column).ok /\ cell = Some(s) /\ value.value \in Int
    BY <1>2 DEF Kept
  <2>2. wire = Some(wire.value)
    BY <2>1, WireIs
  <2>3. /\ s \in Cells
        /\ ~Rounds(column) => Same(Some(s), Some(Exact(type, value.value)))
        /\ Rounds(column) => rounding /\ TwiceApart(s, Exact(type, value.value)) <= UnitsPerDay
    <3> HIDE DEF s
    <3>1. \A c : WireCell(type, value.value) = Some(c) /\ Stored(c, column).ok =>
            /\ Stored(c, column).value \in Cells
            /\ ~Rounds(column) => Same(Some(Stored(c, column).value), Some(Exact(type, value.value)))
            /\ Rounds(column) =>
                 rounding /\ TwiceApart(Stored(c, column).value, Exact(type, value.value)) <= UnitsPerDay
      BY <2>1, StoredIs
    <3>. QED
      BY <2>1, <2>2, <3>1 DEF s
  <2> HIDE DEF s, wire
  <2>4. cell \in Options(Cells) /\ cell.ok /\ cell.value = s
    BY <2>1, <2>3 DEF Options, Some
  <2>. QED
    BY <1>2, <2>1, <2>3, <2>4
<1>. QED
  BY <1>1, <1>2

RowOK(columns, row) == row \in [DOMAIN columns -> Options(Cells)]

\* What is kept of a value carries it, in a column that was accepted for it.
LEMMA KeptCarries ==
  ASSUME WellFormed(job), NEW columns, Fitting(columns, job), NEW r \in DOMAIN job.records,
         NEW row, NEW i \in DOMAIN job.fields,
         Kept(row[Position(columns, job.fields[i].name)], job.fields[i].type,
              job.records[r][i], columns[Position(columns, job.fields[i].name)])
  PROVE  LET at == Position(columns, job.fields[i].name)
         IN /\ Carries(row[at], job.fields[i].type, job.records[r][i], columns[at], job.rounding)
            /\ row[at] \in Options(Cells)
<1> DEFINE at == Position(columns, job.fields[i].name)
           column == columns[at]
           type == job.fields[i].type
           value == job.records[r][i]
           cell == row[at]
<1>1. KnownType(type) /\ column.scale \in 0 .. MaxPrecision /\ Accepted(type, column, job.rounding)
  BY FieldIs
<1>2. value.ok \in BOOLEAN /\ (value.ok => value.value \in Int)
  BY ValueIs
<1>3. Kept(cell, type, value, column)
  OBVIOUS
<1> HIDE DEF at, column, type, value, cell
<1>4. /\ cell \in Options(Cells) /\ (cell.ok <=> value.ok)
      /\ value.ok =>
           /\ ~Rounds(column) => Same(cell, Some(Exact(type, value.value)))
           /\ Rounds(column) =>
                /\ job.rounding
                /\ TwiceApart(cell.value, Exact(type, value.value)) <= UnitsPerDay
  BY <1>1, <1>2, <1>3, KeptIs
<1>5. Carries(cell, type, value, column, job.rounding)
  BY <1>4 DEF Carries
<1>. QED
  BY <1>4, <1>5 DEF at, column, type, value, cell

\* A row that keeps a record carries it.
LEMMA KeptHolds ==
  ASSUME WellFormed(job), NEW columns, Fitting(columns, job), NEW r \in DOMAIN job.records,
         NEW row, KeptRow(columns, job.fields, row, job.records[r])
  PROVE  RowCarries(job, columns, row, job.records[r])
<1> SUFFICES ASSUME NEW i \in DOMAIN job.fields
             PROVE  LET at == Position(columns, job.fields[i].name)
                    IN Carries(row[at], job.fields[i].type, job.records[r][i], columns[at], job.rounding)
  BY DEF RowCarries
<1>1. Kept(row[Position(columns, job.fields[i].name)], job.fields[i].type,
           job.records[r][i], columns[Position(columns, job.fields[i].name)])
  BY DEF KeptRow
<1>. QED
  BY <1>1, KeptCarries

\* A row is stored when every cell is.
LEMMA SettledIs ==
  ASSUME NEW cells, Settled(cells).ok
  PROVE  /\ \A i \in DOMAIN cells : cells[i].ok
         /\ Settled(cells).value = [i \in DOMAIN cells |-> cells[i].value]
         /\ Settled(cells) = Some(Settled(cells).value)
<1>1. \A i \in DOMAIN cells : cells[i].ok
  BY DEF Settled, When, None
<1>2. Settled(cells) = Some([i \in DOMAIN cells |-> cells[i].value])
  BY <1>1 DEF Settled, When
<1>. QED
  BY <1>1, <1>2 DEF Some

\* A column the plan has an entry for is the column of a field.
LEMMA ColumnIs ==
  ASSUME NEW j, WellFormed(j), Plannable(j.fields), NEW t, Met(t, j),
         NEW i \in DOMAIN Written(t, j),
         EntryFor(PlanOf(t, j), Written(t, j)[i].name) # 0
  PROVE  \E f \in DOMAIN j.fields : /\ j.fields[f].name = Written(t, j)[i].name
                                    /\ Position(Written(t, j), j.fields[f].name) = i
<1> DEFINE columns == Written(t, j)
<1>1. Listed(columns) /\ IsInjective(Names(columns))
  BY WrittenFits DEF Fitting, Catalogued
<1>2. PICK f \in DOMAIN j.fields : j.fields[f].name = columns[i].name
  BY EntryIs
<1> HIDE DEF columns
<1>3. i \in DOMAIN columns
  BY DEF columns
<1>4. Position(columns, columns[i].name) = i
  BY <1>1, <1>3, PositionOf
<1>. QED
  BY <1>2, <1>4 DEF columns

\* The cell a column takes from a staged row keeps the value of the column's field.
LEMMA CellLands ==
  ASSUME WellFormed(job), Plannable(job.fields), NEW t, Met(t, job),
         NEW r \in DOMAIN job.records, NEW cells,
         StagedRow(job, Written(t, job), PlanOf(t, job), cells, job.records[r]),
         NEW i \in DOMAIN Written(t, job),
         EntryFor(PlanOf(t, job), Written(t, job)[i].name) # 0,
         StoredOption(cells[EntryFor(PlanOf(t, job), Written(t, job)[i].name)],
                      Written(t, job)[i]).ok
  PROVE  LET column == Written(t, job)[i]
             landed == StoredOption(cells[EntryFor(PlanOf(t, job), column.name)], column).value
         IN /\ landed \in Options(Cells)
            /\ \A f \in DOMAIN job.fields :
                 Position(Written(t, job), job.fields[f].name) = i =>
                   Kept(landed, job.fields[f].type, job.records[r][f], column)
<1> DEFINE columns == Written(t, job)
           plan == PlanOf(t, job)
           column == columns[i]
           option == StoredOption(cells[EntryFor(plan, column.name)], column)
           record == job.records[r]
<1>1. Fitting(columns, job)
  BY WrittenFits
<1>2. ASSUME NEW f \in DOMAIN job.fields, Position(columns, job.fields[f].name) = i
      PROVE  Kept(option.value, job.fields[f].type, record[f], column)
             /\ option.value \in Options(Cells)
  <2>1. column.name = job.fields[f].name
    BY <1>1, <1>2, FieldIs
  <2>2. record[f].ok \in BOOLEAN /\ (record[f].ok => record[f].value \in Int)
    BY ValueIs
  <2>3. Staged(job, cells[EntryFor(plan, column.name)], job.fields[f].type, record[f], column)
    BY <1>2, <2>1 DEF StagedRow
  <2>4. option.ok
    OBVIOUS
  <2>5. /\ KnownType(job.fields[f].type) /\ column.scale \in 0 .. MaxPrecision
        /\ Accepted(job.fields[f].type, column, job.rounding)
    BY <1>1, <1>2, FieldIs
  <2> HIDE DEF columns, plan, column, record
  <2>6. Kept(option.value, job.fields[f].type, record[f], column)
    BY <2>2, <2>3, <2>4, StoredKept
  <2> HIDE DEF option
  <2>. QED
    BY <2>2, <2>5, <2>6, KeptIs
<1>3. \E f \in DOMAIN job.fields : Position(columns, job.fields[f].name) = i
  BY ColumnIs
<1> HIDE DEF columns, plan, column, option, record
<1>4. /\ option.value \in Options(Cells)
      /\ \A f \in DOMAIN job.fields : Position(columns, job.fields[f].name) = i =>
           Kept(option.value, job.fields[f].type, record[f], column)
  BY <1>2, <1>3
<1>. QED
  BY <1>4 DEF columns, plan, column, option, record

LEMMA SuppliedIs ==
  ASSUME NEW column, NEW n \in Int, Supplied(column, n).ok
  PROVE  Supplied(column, n).value \in Options(Cells)
<1>1. Whole(n, 1) \in Cells /\ Default \in Cells
  BY WholeIs DEF Default
<1>2. Supplied(column, n) \in {Some(Some(Whole(n, 1))), Some(Some(Default)), Some(None), None}
  BY DEF Supplied
<1>3. ASSUME NEW x, Supplied(column, n) = Some(x), x \in Options(Cells)
      PROVE  Supplied(column, n).value \in Options(Cells)
  BY <1>3 DEF Some
<1>4. /\ Some(Whole(n, 1)) \in Options(Cells) /\ Some(Default) \in Options(Cells)
      /\ None \in Options(Cells)
  BY <1>1, OptionOf DEF Options
<1>5. Supplied(column, n) # None
  BY DEF None
<1>. QED
  BY <1>2, <1>3, <1>4, <1>5

\* A row that bulk load stores keeps its record, for all the server supplies.
LEMMA BulkRowIs ==
  ASSUME WellFormed(job), Plannable(job.fields), NEW t, Met(t, job), job.mode # "merge",
         NEW r \in DOMAIN job.records, NEW cells, NEW n \in Int,
         StagedRow(job, Written(t, job), PlanOf(t, job), cells, job.records[r]),
         Settled([i \in DOMAIN Written(t, job) |->
                    BulkCell(Written(t, job)[i], PlanOf(t, job), cells, n)]).ok
  PROVE  LET columns == Written(t, job)
             row == Settled([i \in DOMAIN columns |->
                               BulkCell(columns[i], PlanOf(t, job), cells, n)]).value
         IN RowOK(columns, row) /\ KeptRow(columns, job.fields, row, job.records[r])
<1> DEFINE columns == Written(t, job)
           plan == PlanOf(t, job)
           landed == [i \in DOMAIN columns |-> BulkCell(columns[i], plan, cells, n)]
           row == Settled(landed).value
           record == job.records[r]
           at(i) == EntryFor(plan, columns[i].name)
           column(f) == columns[Position(columns, job.fields[f].name)]
<1>1. Settled(landed).ok
  OBVIOUS
<1>2. /\ \A i \in DOMAIN columns : BulkCell(columns[i], plan, cells, n).ok
      /\ row = [i \in DOMAIN columns |-> BulkCell(columns[i], plan, cells, n).value]
  <2> HIDE DEF columns, plan
  <2>. QED
    BY <1>1, SettledIs
<1>3. Fitting(columns, job)
  BY WrittenFits
<1>4. ASSUME NEW f \in DOMAIN job.fields
      PROVE  LET i == Position(columns, job.fields[f].name)
             IN /\ i \in DOMAIN columns
                /\ BulkCell(columns[i], plan, cells, n) = StoredOption(cells[at(i)], columns[i])
                /\ at(i) # 0
  <2> DEFINE i == Position(columns, job.fields[f].name)
  <2>1. /\ i \in DOMAIN columns /\ columns[i].name = job.fields[f].name
        /\ columns[i].identity => job.fields[f].name \in KeysOf(job)
        /\ columns[i].has_default /\ job.fields[f].nullable => job.mode = "merge"
    BY <1>3, FieldIs
  <2>2. ~columns[i].identity
    BY <2>1 DEF KeysOf
  <2>3. at(i) # 0
    BY <2>1, EntryIs
  <2>4. Staged(job, cells[at(i)], job.fields[f].type, record[f], columns[i])
    BY <2>1 DEF StagedRow
  <2>5. /\ record[f].ok \in BOOLEAN
        /\ ~record[f].ok => job.fields[f].nullable
    BY ValueIs
  <2> HIDE DEF i, columns, record, plan
  <2>6. ~(columns[i].has_default /\ ~cells[at(i)].ok)
    BY <2>1, <2>4, <2>5 DEF Staged
  <2>7. BulkCell(columns[i], plan, cells, n) = StoredOption(cells[at(i)], columns[i])
    BY <2>2, <2>3, <2>6 DEF BulkCell
  <2>. QED
    BY <2>1, <2>3, <2>7 DEF i
<1>5. ASSUME NEW i \in DOMAIN columns, at(i) # 0
      PROVE  BulkCell(columns[i], plan, cells, n) = StoredOption(cells[at(i)], columns[i])
  <2>1. PICK f \in DOMAIN job.fields : Position(columns, job.fields[f].name) = i
    BY <1>5, ColumnIs
  <2> HIDE DEF columns, plan, at
  <2>. QED
    BY <1>4, <2>1
<1>6. ASSUME NEW i \in DOMAIN columns, at(i) # 0
      PROVE  /\ row[i] \in Options(Cells)
             /\ \A f \in DOMAIN job.fields : Position(columns, job.fields[f].name) = i =>
                  Kept(row[i], job.fields[f].type, record[f], columns[i])
  <2>1. StoredOption(cells[at(i)], columns[i]).ok
        /\ row[i] = StoredOption(cells[at(i)], columns[i]).value
    <3> HIDE DEF columns, plan, row, at
    <3>. QED
      BY <1>2, <1>5, <1>6
  <2> HIDE DEF row, landed
  <2>. QED
    BY <1>6, <2>1, CellLands
<1>7. ASSUME NEW i \in DOMAIN columns, at(i) = 0
      PROVE  row[i] \in Options(Cells)
  <2>1. BulkCell(columns[i], plan, cells, n) = Supplied(columns[i], n)
    BY <1>7 DEF BulkCell
  <2> HIDE DEF columns, plan, row
  <2>. QED
    BY <1>2, <2>1, SuppliedIs
<1> HIDE DEF columns, plan, landed, row, record, at
<1>8. RowOK(columns, row)
  BY <1>2, <1>6, <1>7 DEF RowOK
<1>9. KeptRow(columns, job.fields, row, record)
  BY <1>4, <1>6 DEF KeptRow
<1>. QED
  BY <1>8, <1>9 DEF columns, plan, landed, row, record

\* A row that MERGE inserts keeps its record.
LEMMA InsertRowIs ==
  ASSUME WellFormed(job), Plannable(job.fields), NEW t, Met(t, job),
         NEW r \in DOMAIN job.records, NEW cells, NEW n \in Int,
         StagedRow(job, Written(t, job), PlanOf(t, job), cells, job.records[r]),
         Settled([i \in DOMAIN Written(t, job) |->
                    InsertCell(Written(t, job)[i], PlanOf(t, job), cells, n)]).ok
  PROVE  LET columns == Written(t, job)
             row == Settled([i \in DOMAIN columns |->
                               InsertCell(columns[i], PlanOf(t, job), cells, n)]).value
         IN RowOK(columns, row) /\ KeptRow(columns, job.fields, row, job.records[r])
<1> DEFINE columns == Written(t, job)
           plan == PlanOf(t, job)
           landed == [i \in DOMAIN columns |-> InsertCell(columns[i], plan, cells, n)]
           row == Settled(landed).value
           record == job.records[r]
           at(i) == EntryFor(plan, columns[i].name)
<1>1. Settled(landed).ok
  OBVIOUS
<1>2. /\ \A i \in DOMAIN columns : InsertCell(columns[i], plan, cells, n).ok
      /\ row = [i \in DOMAIN columns |-> InsertCell(columns[i], plan, cells, n).value]
  <2> HIDE DEF columns, plan
  <2>. QED
    BY <1>1, SettledIs
<1>3. Fitting(columns, job)
  BY WrittenFits
<1>4. ASSUME NEW f \in DOMAIN job.fields
      PROVE  LET i == Position(columns, job.fields[f].name)
             IN i \in DOMAIN columns /\ at(i) # 0
  <2> DEFINE i == Position(columns, job.fields[f].name)
  <2>1. i \in DOMAIN columns /\ columns[i].name = job.fields[f].name
    BY <1>3, FieldIs
  <2>2. at(i) # 0
    BY <2>1, EntryIs
  <2>. QED
    BY <2>1, <2>2
<1>5. ASSUME NEW i \in DOMAIN columns, at(i) # 0
      PROVE  /\ row[i] \in Options(Cells)
             /\ \A f \in DOMAIN job.fields : Position(columns, job.fields[f].name) = i =>
                  Kept(row[i], job.fields[f].type, record[f], columns[i])
  <2>1. InsertCell(columns[i], plan, cells, n) = StoredOption(cells[at(i)], columns[i])
    BY <1>5 DEF InsertCell
  <2>2. StoredOption(cells[at(i)], columns[i]).ok
        /\ row[i] = StoredOption(cells[at(i)], columns[i]).value
    <3> HIDE DEF columns, plan, row, at
    <3>. QED
      BY <1>2, <2>1
  <2> HIDE DEF row, landed
  <2>. QED
    BY <1>5, <2>2, CellLands
<1>6. ASSUME NEW i \in DOMAIN columns, at(i) = 0
      PROVE  row[i] \in Options(Cells)
  <2>1. InsertCell(columns[i], plan, cells, n) = Supplied(columns[i], n)
    BY <1>6 DEF InsertCell
  <2> HIDE DEF columns, plan, row
  <2>. QED
    BY <1>2, <2>1, SuppliedIs
<1> HIDE DEF columns, plan, landed, row, record, at
<1>7. RowOK(columns, row)
  BY <1>2, <1>5, <1>6 DEF RowOK
<1>8. KeptRow(columns, job.fields, row, record)
  BY <1>4, <1>5 DEF KeptRow
<1>. QED
  BY <1>7, <1>8 DEF columns, plan, landed, row, record

\* Who picks every element of a list has the list.
LEMMA PickedAll ==
  ASSUME NEW list, Listed(list)
  PROVE  /\ DOMAIN Picked(list, DOMAIN list) = DOMAIN list
         /\ \A k \in DOMAIN list : Picked(list, DOMAIN list)[k] = list[k]
<1>0. ASSUME NEW n \in Nat PROVE Cardinality(1 .. n) = n
  BY FS_Interval
<1>1. DOMAIN list = 1 .. Len(list) /\ Len(list) \in Nat
  BY ListedIs
<1>2. Cardinality(DOMAIN list) = Len(list)
  BY <1>0, <1>1, Zenon
<1>3. ASSUME NEW k \in DOMAIN list PROVE RankIn(DOMAIN list, k) = k
  <2>1. { i \in DOMAIN list : i <= k } = 1 .. k /\ k \in Nat
    BY <1>1
  <2>2. Cardinality(1 .. k) = k
    BY <1>0, <2>1
  <2>. QED
    BY <2>1, <2>2 DEF RankIn
<1>4. /\ DOMAIN Picked(list, DOMAIN list) = 1 .. Cardinality(DOMAIN list)
      /\ \A k \in DOMAIN list :
           Picked(list, DOMAIN list)[RankIn(DOMAIN list, k)] = list[k]
  BY PickedAt
<1>. QED
  BY <1>1, <1>2, <1>3, <1>4

-----------------------------------------------------------------------------
(* What a load makes of the rows there are.                                *)

\* A merge key is a field.
LEMMA KeyIs ==
  ASSUME WellFormed(job), NEW key \in job.keys
  PROVE  \E f \in DOMAIN job.fields : job.fields[f].name = key
<1>1. key \in Range(Names(job.fields))
  BY DEF WellFormed
<1>. QED
  BY <1>1 DEF Range, Names

\* A row that MERGE updates carries the record that matched it: its keys were the
\* same, and its other columns are taken from the record.
LEMMA UpdateRowIs ==
  ASSUME WellFormed(job), Plannable(job.fields), NEW t, Met(t, job), job.mode = "merge",
         NEW r \in DOMAIN job.records, NEW cells, NEW old, RowOK(Written(t, job), old),
         StagedRow(job, Written(t, job), PlanOf(t, job), cells, job.records[r]),
         Matches(Written(t, job), PlanOf(t, job), cells, old, job.keys),
         Settled([i \in DOMAIN Written(t, job) |->
                    UpdateCell(Written(t, job)[i], PlanOf(t, job), cells, old[i], job.keys)]).ok
  PROVE  LET columns == Written(t, job)
             row == Settled([i \in DOMAIN columns |->
                       UpdateCell(columns[i], PlanOf(t, job), cells, old[i], job.keys)]).value
         IN RowOK(columns, row) /\ RowCarries(job, columns, row, job.records[r])
<1> DEFINE columns == Written(t, job)
           plan == PlanOf(t, job)
           landed == [i \in DOMAIN columns |->
                        UpdateCell(columns[i], plan, cells, old[i], job.keys)]
           row == Settled(landed).value
           record == job.records[r]
           at(i) == EntryFor(plan, columns[i].name)
           Keeps(i) == at(i) = 0 \/ columns[i].name \in job.keys
<1>1. Settled(landed).ok
  OBVIOUS
<1>2. /\ \A i \in DOMAIN columns : UpdateCell(columns[i], plan, cells, old[i], job.keys).ok
      /\ row = [i \in DOMAIN columns |->
                  UpdateCell(columns[i], plan, cells, old[i], job.keys).value]
  <2> HIDE DEF columns, plan
  <2>. QED
    BY <1>1, SettledIs
<1>3. Fitting(columns, job)
  BY WrittenFits
<1>4. \A i \in DOMAIN columns : old[i] \in Options(Cells)
  BY DEF RowOK
<1>5. ASSUME NEW i \in DOMAIN columns, Keeps(i) PROVE row[i] = old[i]
  <2>1. UpdateCell(columns[i], plan, cells, old[i], job.keys) = Some(old[i])
    BY <1>5 DEF UpdateCell
  <2> HIDE DEF columns, plan, row
  <2>. QED
    BY <1>2, <2>1 DEF Some
<1>6. ASSUME NEW i \in DOMAIN columns, ~Keeps(i)
      PROVE  /\ row[i] \in Options(Cells)
             /\ \A f \in DOMAIN job.fields : Position(columns, job.fields[f].name) = i =>
                  Kept(row[i], job.fields[f].type, record[f], columns[i])
  <2>1. UpdateCell(columns[i], plan, cells, old[i], job.keys)
          = IF columns[i].identity THEN None ELSE StoredOption(cells[at(i)], columns[i])
    BY <1>6 DEF UpdateCell
  <2>2. at(i) # 0
    BY <1>6
  <2>3. StoredOption(cells[at(i)], columns[i]).ok
        /\ row[i] = StoredOption(cells[at(i)], columns[i]).value
    <3> HIDE DEF columns, plan, row, at
    <3>. QED
      BY <1>2, <2>1 DEF None
  <2> HIDE DEF row, landed
  <2>. QED
    BY <2>2, <2>3, CellLands
<1>7. ASSUME NEW f \in DOMAIN job.fields
      PROVE  LET i == Position(columns, job.fields[f].name)
             IN Carries(row[i], job.fields[f].type, record[f], columns[i], job.rounding)
  <2> DEFINE i == Position(columns, job.fields[f].name)
             value == record[f]
             type == job.fields[f].type
  <2>1. i \in DOMAIN columns /\ columns[i].name = job.fields[f].name /\ KnownType(type)
    BY <1>3, FieldIs
  <2>2. at(i) # 0
    BY <2>1, EntryIs
  <2>3. CASE columns[i].name \in job.keys
    <3>1. row[i] = old[i] /\ old[i] \in Options(Cells)
      BY <1>4, <1>5, <2>1, <2>3
    <3>2. Same(old[i], cells[at(i)])
      BY <2>1, <2>3 DEF Matches
    <3>3. Staged(job, cells[at(i)], type, value, columns[i])
      BY <2>1 DEF StagedRow
    <3>4. value.ok \in BOOLEAN /\ (value.ok => value.value \in Int)
      BY ValueIs
    <3> HIDE DEF columns, plan, row, record, i, value, type, at
    <3>5. value.ok
      BY <3>2, <3>3, <3>4 DEF Same, Staged, None
    <3>6. /\ WireCell(type, value.value).ok /\ cells[at(i)] = WireCell(type, value.value)
          /\ cells[at(i)] \in Options(Cells)
      BY <3>3, <3>5 DEF Staged
    <3>7. Same(cells[at(i)], Some(Exact(type, value.value)))
      BY <2>1, <3>4, <3>5, <3>6, WireExact
    <3>8. Some(Exact(type, value.value)) \in Options(Cells)
      BY <2>1, <3>4, <3>5, ExactIs, OptionOf
    <3>9. Same(row[i], Some(Exact(type, value.value)))
      BY <3>1, <3>2, <3>6, <3>7, <3>8, SameOn
    <3>10. row[i].ok
      BY <3>9 DEF Same
    <3>11. Carries(row[i], type, value, columns[i], job.rounding)
      BY <3>5, <3>9, <3>10 DEF Carries
    <3>. QED
      BY <3>11 DEF i, value, type
  <2>4. CASE columns[i].name \notin job.keys
    <3>1. ~Keeps(i)
      BY <2>2, <2>4
    <3>2. Kept(row[i], type, value, columns[i])
      BY <1>6, <2>1, <3>1
    <3> HIDE DEF columns, row
    <3>. QED
      BY <1>3, <3>2, KeptCarries
  <2>. QED
    BY <2>3, <2>4
<1> HIDE DEF columns, plan, landed, row, record, at
<1>8. \A i \in DOMAIN columns : row[i] \in Options(Cells)
  BY <1>4, <1>5, <1>6
<1>9. RowOK(columns, row)
  BY <1>2, <1>8 DEF RowOK
<1>10. RowCarries(job, columns, row, record)
  BY <1>7 DEF RowCarries
<1>. QED
  BY <1>9, <1>10 DEF columns, plan, landed, row, record

\* Two staged records that match one row have the same keys.
LEMMA OneMatch ==
  ASSUME WellFormed(job), Plannable(job.fields), NEW t, Met(t, job), job.mode = "merge",
         NEW staged, Listed(staged), DOMAIN staged = DOMAIN job.records,
         \A r \in DOMAIN staged :
           StagedRow(job, Written(t, job), PlanOf(t, job), staged[r], job.records[r]),
         ~DuplicateKeys(PlanOf(t, job), staged, job.keys),
         NEW old, RowOK(Written(t, job), old),
         NEW r \in DOMAIN staged, Matches(Written(t, job), PlanOf(t, job), staged[r], old, job.keys),
         NEW s \in DOMAIN staged, Matches(Written(t, job), PlanOf(t, job), staged[s], old, job.keys)
  PROVE  r = s
<1> DEFINE columns == Written(t, job)
           plan == PlanOf(t, job)
<1>1. ASSUME NEW key \in job.keys
      PROVE  LET at == EntryFor(plan, key)
             IN Same(staged[r][at], staged[s][at]) /\ Same(staged[s][at], staged[r][at])
  <2> DEFINE at == EntryFor(plan, key)
             i == Position(columns, key)
  <2>1. PICK f \in DOMAIN job.fields : job.fields[f].name = key
    BY KeyIs
  <2>2. i \in DOMAIN columns
    BY <2>1, FieldIs, WrittenFits
  <2>3. old[i] \in Options(Cells)
    BY <2>2 DEF RowOK
  <2>4. Same(old[i], staged[r][at]) /\ Same(old[i], staged[s][at])
    BY DEF Matches
  <2>5. /\ Staged(job, staged[r][at], job.fields[f].type, job.records[r][f], columns[i])
        /\ Staged(job, staged[s][at], job.fields[f].type, job.records[s][f], columns[i])
    BY <2>1 DEF StagedRow
  <2>6. job.records[r][f].ok \in BOOLEAN /\ job.records[s][f].ok \in BOOLEAN
    BY ValueIs
  <2> HIDE DEF columns, plan, at, i
  <2>7. staged[r][at] \in Options(Cells) /\ staged[s][at] \in Options(Cells)
    BY <2>5, <2>6 DEF Staged, Options
  <2>8. Same(staged[r][at], old[i]) /\ Same(staged[s][at], old[i])
    BY <2>4, SameTurns
  <2>9. Same(staged[r][at], staged[s][at]) /\ Same(staged[s][at], staged[r][at])
    BY <2>3, <2>4, <2>7, <2>8, SameOn
  <2>. QED
    BY <2>9 DEF at
<1>2. r \in Int /\ s \in Int
  BY ListedIs
<1> HIDE DEF plan
<1>3. ~(r < s) /\ ~(s < r)
  BY <1>1 DEF DuplicateKeys, plan
<1>. QED
  BY <1>2, <1>3

\* What a load has sent when it lands, and the rows it finds.
SentAll(t) ==
  /\ Listed(sent) /\ DOMAIN sent = DOMAIN job.records
  /\ \A r \in DOMAIN sent :
       StagedRow(job, Written(t, job), PlanOf(t, job), sent[r], job.records[r])

RowsOK(columns, base) == Listed(base) /\ \A k \in DOMAIN base : RowOK(columns, base[k])

\* Bulk load stores a row for each record, in their order.
LEMMA InsertedIs ==
  ASSUME WellFormed(job), Plannable(job.fields), NEW t, Met(t, job), job.mode # "merge",
         SentAll(t), NEW base, Listed(base)
  PROVE  LET columns == Written(t, job)
             inserted == BulkInserted(columns, PlanOf(t, job), sent, base)
         IN /\ Listed(inserted) /\ DOMAIN inserted = DOMAIN sent /\ Len(inserted) = Len(sent)
            /\ \A r \in DOMAIN sent : inserted[r].ok =>
                 /\ RowOK(columns, inserted[r].value)
                 /\ KeptRow(columns, job.fields, inserted[r].value, job.records[r])
<1> DEFINE columns == Written(t, job)
           plan == PlanOf(t, job)
           inserted == BulkInserted(columns, plan, sent, base)
           Row(r) == Settled([i \in DOMAIN columns |->
                                BulkCell(columns[i], plan, sent[r], Len(base) + r)])
<1>1. DOMAIN sent = 1 .. Len(sent) /\ Len(sent) \in Nat /\ Len(base) \in Nat
  BY ListedIs DEF SentAll
<1>2. inserted = [r \in DOMAIN sent |-> Row(r)]
  BY DEF BulkInserted
<1>3. ASSUME NEW r \in DOMAIN sent, Row(r).ok
      PROVE  /\ RowOK(columns, Row(r).value)
             /\ KeptRow(columns, job.fields, Row(r).value, job.records[r])
  <2>1. Len(base) + r \in Int /\ r \in DOMAIN job.records
    BY <1>1 DEF SentAll
  <2>2. StagedRow(job, columns, plan, sent[r], job.records[r])
    BY DEF SentAll
  <2>. QED
    BY <1>3, <2>1, <2>2, BulkRowIs
<1> HIDE DEF columns, plan, inserted, Row
<1>4. DOMAIN inserted = DOMAIN sent /\ \A r \in DOMAIN sent : inserted[r] = Row(r)
  BY <1>2
<1>5. inserted = [r \in 1 .. Len(sent) |-> inserted[r]]
  BY <1>1, <1>2
<1>6. Listed(inserted) /\ Len(inserted) = Len(sent)
  BY <1>1, <1>4, <1>5, FunctionListed
<1>. QED
  BY <1>3, <1>4, <1>6 DEF columns, plan, inserted

\* MERGE leaves each row as it was or carrying the one record that matches it.
LEMMA UpdatedIs ==
  ASSUME WellFormed(job), Plannable(job.fields), NEW t, Met(t, job), job.mode = "merge",
         SentAll(t), ~DuplicateKeys(PlanOf(t, job), sent, job.keys),
         NEW base, RowsOK(Written(t, job), base)
  PROVE  LET columns == Written(t, job)
             plan == PlanOf(t, job)
             updated == MergeUpdated(columns, plan, sent, base, job.keys)
         IN /\ Listed(updated) /\ DOMAIN updated = DOMAIN base /\ Len(updated) = Len(base)
            /\ \A k \in DOMAIN base : updated[k].ok =>
                 /\ RowOK(columns, updated[k].value)
                 /\ \/ updated[k].value = base[k]
                    \/ \E r \in DOMAIN job.records : RowCarries(job, columns, updated[k].value, job.records[r])
                 /\ \A r \in DOMAIN sent : Matches(columns, plan, sent[r], base[k], job.keys) =>
                      RowCarries(job, columns, updated[k].value, job.records[r])
<1> DEFINE columns == Written(t, job)
           plan == PlanOf(t, job)
           keys == job.keys
           updated == MergeUpdated(columns, plan, sent, base, keys)
           matching(k) == { s \in DOMAIN sent : Matches(columns, plan, sent[s], base[k], keys) }
           found(k) == CHOOSE s \in matching(k) : TRUE
           Row(k, s) == Settled([i \in DOMAIN columns |->
                                   UpdateCell(columns[i], plan, sent[s], base[k][i], keys)])
<1>1. DOMAIN base = 1 .. Len(base) /\ Len(base) \in Nat
  BY ListedIs DEF RowsOK
<1>2. updated = [k \in DOMAIN base |-> IF matching(k) = {} THEN Some(base[k]) ELSE Row(k, found(k))]
  BY DEF MergeUpdated
<1>3. ASSUME NEW k \in DOMAIN base, NEW s \in matching(k), Row(k, s).ok
      PROVE  /\ RowOK(columns, Row(k, s).value)
             /\ RowCarries(job, columns, Row(k, s).value, job.records[s])
  <2>1. s \in DOMAIN job.records /\ Matches(columns, plan, sent[s], base[k], keys)
    BY DEF SentAll
  <2>2. StagedRow(job, columns, plan, sent[s], job.records[s]) /\ RowOK(columns, base[k])
    BY DEF SentAll, RowsOK
  <2>. QED
    BY <1>3, <2>1, <2>2, UpdateRowIs
<1>4. ASSUME NEW k \in DOMAIN base, NEW r \in matching(k), NEW s \in matching(k) PROVE r = s
  <2>1. RowOK(columns, base[k])
    BY DEF RowsOK
  <2>. QED
    BY <2>1, OneMatch DEF SentAll
<1>5. \A k \in DOMAIN base : RowOK(columns, base[k])
  BY DEF RowsOK
<1>6. \A k, s : s \in matching(k) <=>
        s \in DOMAIN sent /\ Matches(columns, plan, sent[s], base[k], keys)
  OBVIOUS
<1>7. DOMAIN sent = DOMAIN job.records
  BY DEF SentAll
<1> HIDE DEF columns, plan, updated, matching, Row
<1>8. DOMAIN updated = DOMAIN base
      /\ \A k \in DOMAIN base :
           updated[k] = IF matching(k) = {} THEN Some(base[k]) ELSE Row(k, found(k))
  BY <1>2
<1>9. updated = [k \in 1 .. Len(base) |-> updated[k]]
  BY <1>1, <1>2
<1>10. Listed(updated) /\ Len(updated) = Len(base)
  BY <1>1, <1>8, <1>9, FunctionListed
<1>11. ASSUME NEW k \in DOMAIN base, updated[k].ok
       PROVE  /\ RowOK(columns, updated[k].value)
              /\ \/ updated[k].value = base[k]
                 \/ \E r \in DOMAIN job.records : RowCarries(job, columns, updated[k].value, job.records[r])
              /\ \A r \in DOMAIN sent : Matches(columns, plan, sent[r], base[k], keys) =>
                   RowCarries(job, columns, updated[k].value, job.records[r])
  <2>1. CASE matching(k) = {}
    <3>1. updated[k].value = base[k]
      BY <1>8, <2>1 DEF Some
    <3>. QED
      BY <1>5, <1>6, <2>1, <3>1
  <2>2. CASE matching(k) # {}
    <3>1. found(k) \in matching(k)
      BY <2>2
    <3>2. updated[k] = Row(k, found(k))
      BY <1>8, <2>2
    <3> HIDE DEF found
    <3>3. /\ RowOK(columns, updated[k].value)
          /\ RowCarries(job, columns, updated[k].value, job.records[found(k)])
      BY <1>3, <1>11, <3>1, <3>2
    <3>4. found(k) \in DOMAIN job.records
      BY <1>6, <1>7, <3>1
    <3>5. \A r \in matching(k) : r = found(k)
      BY <1>4, <3>1
    <3>. QED
      BY <1>6, <3>3, <3>4, <3>5
  <2>. QED
    BY <2>1, <2>2
<1>. QED
  BY <1>8, <1>10, <1>11 DEF columns, plan, updated

\* A record that matches no row is inserted; into an empty table, all are.
LEMMA MergedInIs ==
  ASSUME WellFormed(job), Plannable(job.fields), NEW t, Met(t, job), job.mode = "merge",
         SentAll(t), NEW base, Listed(base)
  PROVE  LET columns == Written(t, job)
             plan == PlanOf(t, job)
             new == MergeInserted(columns, plan, sent, base, job.keys)
         IN /\ Listed(new)
            /\ \A n \in DOMAIN new : new[n].ok => RowOK(columns, new[n].value)
            /\ \A r \in DOMAIN sent :
                 \/ \E k \in DOMAIN base : Matches(columns, plan, sent[r], base[k], job.keys)
                 \/ \E n \in DOMAIN new : new[n].ok =>
                      KeptRow(columns, job.fields, new[n].value, job.records[r])
            /\ base = <<>> =>
                 /\ DOMAIN new = DOMAIN sent
                 /\ \A r \in DOMAIN sent : new[r].ok =>
                      KeptRow(columns, job.fields, new[r].value, job.records[r])
<1> DEFINE columns == Written(t, job)
           plan == PlanOf(t, job)
           keys == job.keys
           alone == { s \in DOMAIN sent :
                        \A k \in DOMAIN base : ~Matches(columns, plan, sent[s], base[k], keys) }
           picked == Unmatched(columns, plan, sent, base, keys)
           new == MergeInserted(columns, plan, sent, base, keys)
           Row(n) == Settled([i \in DOMAIN columns |->
                                InsertCell(columns[i], plan, picked[n], Len(base) + n)])
<1>1. /\ Len(base) \in Nat /\ Listed(sent) /\ DOMAIN sent = DOMAIN job.records
      /\ DOMAIN sent = 1 .. Len(sent) /\ Len(sent) \in Nat
  BY ListedIs DEF SentAll
<1>2. new = [n \in DOMAIN picked |-> Row(n)]
  BY DEF MergeInserted
<1>3. picked = Picked(sent, alone)
  BY DEF Unmatched
<1>4. ASSUME NEW n \in Int, NEW s \in DOMAIN sent, picked[n] = sent[s], Row(n).ok
      PROVE  /\ RowOK(columns, Row(n).value)
             /\ KeptRow(columns, job.fields, Row(n).value, job.records[s])
  <2>1. s \in DOMAIN job.records /\ Len(base) + n \in Int
    BY <1>1
  <2>2. StagedRow(job, columns, plan, picked[n], job.records[s])
    BY <1>4 DEF SentAll
  <2> HIDE DEF picked
  <2>. QED
    BY <1>4, <2>1, <2>2, InsertRowIs
<1>5. alone \subseteq DOMAIN sent
      /\ \A s \in DOMAIN sent : s \notin alone =>
           \E k \in DOMAIN base : Matches(columns, plan, sent[s], base[k], keys)
  OBVIOUS
<1>6. base = <<>> => alone = DOMAIN sent
  <2>1. base = <<>> => DOMAIN base = {}
    OBVIOUS
  <2>. QED
    BY <2>1
<1> HIDE DEF columns, plan, alone, picked, new, Row
<1>7. /\ Listed(picked)
      /\ \A n \in DOMAIN picked : \E s \in alone : picked[n] = sent[s]
      /\ \A s \in alone : \E n \in DOMAIN picked : picked[n] = sent[s]
  BY <1>1, <1>3, <1>5, PickedIs
<1>8. DOMAIN picked = 1 .. Len(picked) /\ Len(picked) \in Nat
  BY <1>7, ListedIs
<1>9. DOMAIN new = DOMAIN picked /\ \A n \in DOMAIN picked : new[n] = Row(n)
  BY <1>2
<1>10. Listed(new)
  <2>1. new = [n \in 1 .. Len(picked) |-> new[n]]
    BY <1>2, <1>8
  <2>. QED
    BY <1>8, <1>9, <2>1, FunctionListed
<1>11. ASSUME NEW n \in DOMAIN new, new[n].ok PROVE RowOK(columns, new[n].value)
  BY <1>4, <1>5, <1>7, <1>8, <1>9, <1>11
<1>12. ASSUME NEW r \in DOMAIN sent, r \in alone
       PROVE  \E n \in DOMAIN new : new[n].ok =>
                KeptRow(columns, job.fields, new[n].value, job.records[r])
  BY <1>4, <1>7, <1>8, <1>9, <1>12
<1>13. ASSUME base = <<>>
       PROVE  /\ DOMAIN new = DOMAIN sent
              /\ \A r \in DOMAIN sent : new[r].ok =>
                   KeptRow(columns, job.fields, new[r].value, job.records[r])
  <2>1. alone = DOMAIN sent
    BY <1>6, <1>13
  <2>2. DOMAIN picked = DOMAIN sent /\ \A r \in DOMAIN sent : picked[r] = sent[r]
    BY <1>1, <1>3, <2>1, PickedAll
  <2>. QED
    BY <1>1, <1>4, <1>9, <2>2
<1>. QED
  BY <1>5, <1>10, <1>11, <1>12, <1>13 DEF columns, plan, new


-----------------------------------------------------------------------------
(* What a load leaves in the table.                                        *)

Base == IF job.mode = "full_refresh" THEN <<>> ELSE rows
Landed == [r \in DOMAIN Outcome |-> Outcome[r].value]

LEMMA NoRows == Listed(<<>>) /\ Len(<<>>) = 0 /\ DOMAIN <<>> = {}
<1>1. <<>> \in Seq(Int)
  OBVIOUS
<1>2. Len(<<>>) = 0 /\ DOMAIN <<>> = {}
  OBVIOUS
<1>. QED
  BY <1>1, <1>2, ListedIs, Zenon

\* A list of no elements is the empty list.
LEMMA NoneListed ==
  ASSUME NEW list, Listed(list), DOMAIN list = {} \/ Len(list) = 0
  PROVE  list = <<>>
<1>1. Len(list) \in Nat /\ DOMAIN list = 1 .. Len(list)
      /\ list = [k \in 1 .. Len(list) |-> list[k]]
  BY ListedIs
<1>2. Len(list) = 0
  BY <1>1
<1>3. list \in Seq(Range(list))
  BY DEF Listed
<1> DEFINE R == Range(list)
<1> HIDE DEF R
<1>. QED
  BY <1>2, <1>3 DEF R

\* Lists that agree are one.
LEMMA ListsAgree ==
  ASSUME NEW s, NEW u, Listed(s), Listed(u), Len(s) = Len(u),
         \A k \in DOMAIN s : s[k] = u[k]
  PROVE  s = u
<1>1. /\ DOMAIN s = 1 .. Len(s) /\ s = [k \in 1 .. Len(s) |-> s[k]]
      /\ DOMAIN u = 1 .. Len(u) /\ u = [k \in 1 .. Len(u) |-> u[k]]
  BY ListedIs
<1> DEFINE n == Len(s)
<1>2. s = [k \in 1 .. n |-> s[k]] /\ u = [k \in 1 .. n |-> u[k]]
      /\ \A k \in 1 .. n : s[k] = u[k]
  BY <1>1
<1> HIDE DEF n
<1>3. [k \in 1 .. n |-> s[k]] = [k \in 1 .. n |-> u[k]]
  BY <1>2
<1>. QED
  BY <1>2, <1>3

Joined(s, u, all) ==
  /\ Listed(s) /\ Listed(u) /\ Listed(all) /\ Len(all) = Len(s) + Len(u)
  /\ \A k \in 1 .. Len(s) : all[k] = s[k]
  /\ \A k \in 1 .. Len(u) : all[Len(s) + k] = u[k]

Valued(landed, all) ==
  /\ Listed(landed) /\ DOMAIN landed = DOMAIN all
  /\ \A r \in DOMAIN all : all[r].ok /\ landed[r] = all[r].value

\* What two lists of outcomes leave.
LEMMA ConcatLanded ==
  ASSUME NEW s, NEW u, NEW all, Joined(s, u, all), NEW landed, Valued(landed, all)
  PROVE  /\ Listed(landed) /\ Len(landed) = Len(s) + Len(u)
         /\ \A k \in DOMAIN s : s[k].ok /\ landed[k] = s[k].value
         /\ \A k \in DOMAIN u : u[k].ok /\ landed[Len(s) + k] = u[k].value
         /\ \A k \in DOMAIN landed :
              \/ k \in DOMAIN s
              \/ \E n \in DOMAIN u : k = Len(s) + n
<1>1. /\ Listed(s) /\ Listed(u) /\ Listed(all) /\ Len(all) = Len(s) + Len(u)
      /\ \A k \in 1 .. Len(s) : all[k] = s[k]
      /\ \A k \in 1 .. Len(u) : all[Len(s) + k] = u[k]
      /\ Listed(landed) /\ DOMAIN landed = DOMAIN all
      /\ \A r \in DOMAIN all : all[r].ok /\ landed[r] = all[r].value
  BY DEF Joined, Valued
<1>2. /\ Len(s) \in Nat /\ Len(u) \in Nat /\ Len(all) \in Nat
      /\ DOMAIN s = 1 .. Len(s) /\ DOMAIN u = 1 .. Len(u) /\ DOMAIN all = 1 .. Len(all)
  BY <1>1, ListedIs
<1>3. \A k \in 1 .. Len(all) : all[k].ok /\ landed[k] = all[k].value
  BY <1>1, <1>2
<1> DEFINE a == Len(s)
           b == Len(u)
           n == Len(all)
<1>4. /\ a \in Nat /\ b \in Nat /\ n = a + b
      /\ \A k \in 1 .. a : all[k] = s[k]
      /\ \A k \in 1 .. b : all[a + k] = u[k]
      /\ \A k \in 1 .. n : all[k].ok /\ landed[k] = all[k].value
      /\ DOMAIN s = 1 .. a /\ DOMAIN u = 1 .. b
  BY <1>1, <1>2, <1>3
<1> HIDE DEF a, b, n
<1>5. Len(landed) = n /\ DOMAIN landed = 1 .. n
  <2>1. DOMAIN landed = 1 .. n /\ n \in Nat
    BY <1>1, <1>2 DEF n
  <2>2. DOMAIN landed = 1 .. Len(landed) /\ Len(landed) \in Nat
    BY <1>1, ListedIs
  <2> DEFINE m == Len(landed)
  <2>3. 1 .. m = 1 .. n /\ m \in Nat
    BY <2>1, <2>2
  <2> HIDE DEF m
  <2>4. m = n
    BY <2>1, <2>3
  <2>. QED
    BY <2>1, <2>4 DEF m
<1>6. ASSUME NEW k \in DOMAIN s PROVE s[k].ok /\ landed[k] = s[k].value
  BY <1>4
<1>7. ASSUME NEW k \in DOMAIN u PROVE u[k].ok /\ landed[a + k] = u[k].value
  <2>1. a + k \in 1 .. n /\ k \in 1 .. b
    BY <1>4
  <2>. QED
    BY <1>4, <2>1
<1>8. ASSUME NEW k \in DOMAIN landed
      PROVE  k \in DOMAIN s \/ \E m \in DOMAIN u : k = a + m
  <2>1. CASE k <= a
    BY <1>4, <1>5, <2>1
  <2>2. CASE k > a
    <3>1. k - a \in 1 .. b /\ k = a + (k - a)
      BY <1>4, <1>5, <2>2
    <3>. QED
      BY <1>4, <3>1
  <2>. QED
    BY <1>4, <1>5, <2>1, <2>2
<1>. QED
  BY <1>1, <1>4, <1>5, <1>6, <1>7, <1>8 DEF a, b, n

LEMMA Joining ==
  ASSUME NEW s, NEW u, Listed(s), Listed(u)
  PROVE  Joined(s, u, s \o u)
BY ConcatListed DEF Joined

\* What lands is what the statements return, row by row.
LEMMA OutcomeLands ==
  ASSUME Listed(Outcome), \A r \in DOMAIN Outcome : Outcome[r].ok
  PROVE  Valued(Landed, Outcome)
<1> DEFINE out == Outcome
<1>1. Landed = [r \in DOMAIN out |-> Landed[r]] /\ DOMAIN Landed = DOMAIN out
      /\ \A r \in DOMAIN out : out[r].ok /\ Landed[r] = out[r].value
  BY DEF Landed
<1> HIDE DEF out
<1>2. DOMAIN out = 1 .. Len(out) /\ Len(out) \in Nat
  BY ListedIs DEF out
<1>3. Landed = [r \in 1 .. Len(out) |-> Landed[r]]
  BY <1>1, <1>2
<1>4. Listed(Landed)
  BY <1>1, <1>2, <1>3, FunctionListed
<1>5. Valued(Landed, out)
  BY <1>1, <1>4 DEF Valued
<1>. QED
  BY <1>5 DEF out

\* Out of a load that does not merge: the rows it keeps, and its records.
LEMMA PlainLands ==
  ASSUME WellFormed(job), Plannable(job.fields), Met(table, job), job.mode # "merge",
         SentAll(table), RowsOK(Columns, rows), \A r \in DOMAIN Outcome : Outcome[r].ok
  PROVE  /\ RowsOK(Columns, Landed) /\ RowsOK(Columns, Base)
         /\ Len(Landed) = Len(Base) + Len(job.records)
         /\ Len(Base) \in Nat /\ Len(job.records) \in Nat
         /\ \A k \in DOMAIN Base : Landed[k] = Base[k]
         /\ \A r \in DOMAIN job.records :
              KeptRow(Columns, job.fields, Landed[Len(Base) + r], job.records[r])
<1> DEFINE kept == [r \in DOMAIN Base |-> Some(Base[r])]
           inserted == BulkInserted(Columns, Plan, sent, Base)
<1>1. Columns = Written(table, job) /\ Plan = PlanOf(table, job)
  BY DEF Columns, Written, Plan
<1>2. RowsOK(Columns, Base)
  BY NoRows DEF Base, RowsOK
<1>3. Listed(Base) /\ \A k \in DOMAIN Base : RowOK(Columns, Base[k])
  BY <1>2 DEF RowsOK
<1>4. DOMAIN Base = 1 .. Len(Base) /\ Len(Base) \in Nat
  BY <1>3, ListedIs
<1>5. /\ Listed(sent) /\ DOMAIN sent = DOMAIN job.records
      /\ Listed(job.records)
  BY DEF SentAll, WellFormed
<1>6. Len(sent) = Len(job.records) /\ Len(job.records) \in Nat
  <2>1. /\ Len(sent) \in Nat /\ DOMAIN sent = 1 .. Len(sent)
        /\ Len(job.records) \in Nat /\ DOMAIN job.records = 1 .. Len(job.records)
    BY <1>5, ListedIs
  <2> DEFINE m == Len(sent)
             n == Len(job.records)
  <2>2. m \in Nat /\ n \in Nat /\ 1 .. m = 1 .. n
    BY <1>5, <2>1
  <2> HIDE DEF m, n
  <2>3. m = n
    BY <2>2
  <2>. QED
    BY <2>1, <2>3 DEF m, n
<1>7. /\ Listed(inserted) /\ DOMAIN inserted = DOMAIN sent /\ Len(inserted) = Len(sent)
      /\ \A r \in DOMAIN sent : inserted[r].ok =>
           /\ RowOK(Columns, inserted[r].value)
           /\ KeptRow(Columns, job.fields, inserted[r].value, job.records[r])
  BY <1>1, <1>3, InsertedIs
<1>8. /\ DOMAIN kept = DOMAIN Base
      /\ \A k \in DOMAIN Base : kept[k].value = Base[k]
  BY DEF Some
<1>9. Listed(kept) /\ Len(kept) = Len(Base)
  <2>1. kept = [k \in 1 .. Len(Base) |-> kept[k]]
    BY <1>4
  <2> HIDE DEF kept
  <2>. QED
    BY <1>4, <1>8, <2>1, FunctionListed
<1>10. Outcome = kept \o inserted
  BY DEF Outcome, Base
<1> HIDE DEF kept, inserted
<1>11. /\ Listed(Landed) /\ Len(Landed) = Len(kept) + Len(inserted)
       /\ \A k \in DOMAIN kept : kept[k].ok /\ Landed[k] = kept[k].value
       /\ \A k \in DOMAIN inserted :
            inserted[k].ok /\ Landed[Len(kept) + k] = inserted[k].value
       /\ \A k \in DOMAIN Landed :
            k \in DOMAIN kept \/ \E n \in DOMAIN inserted : k = Len(kept) + n
  <2>1. Joined(kept, inserted, kept \o inserted)
    BY <1>7, <1>9, Joining
  <2>2. Joined(kept, inserted, Outcome)
    BY <2>1, <1>10, Zenon
  <2>3. Listed(Outcome)
    BY <2>2 DEF Joined
  <2>4. Valued(Landed, Outcome)
    BY <2>3, OutcomeLands
  <2>. QED
    BY <2>2, <2>4, ConcatLanded
<1>12. ASSUME NEW k \in DOMAIN Landed PROVE RowOK(Columns, Landed[k])
  BY <1>3, <1>7, <1>8, <1>11
<1>13. RowsOK(Columns, Landed)
  BY <1>11, <1>12 DEF RowsOK
<1>14. \A r \in DOMAIN job.records :
         KeptRow(Columns, job.fields, Landed[Len(Base) + r], job.records[r])
  BY <1>5, <1>7, <1>9, <1>11
<1>. QED
  BY <1>2, <1>4, <1>6, <1>7, <1>8, <1>9, <1>11, <1>13, <1>14

\* Out of a merge: every record in a row, and the rows no record matches.
LEMMA MergeLands ==
  ASSUME WellFormed(job), Plannable(job.fields), Met(table, job), job.mode = "merge",
         SentAll(table), RowsOK(Columns, rows), \A r \in DOMAIN Outcome : Outcome[r].ok,
         ~DuplicateKeys(Plan, sent, job.keys)
  PROVE  /\ RowsOK(Columns, Landed)
         /\ \A r \in DOMAIN job.records :
              \E k \in DOMAIN Landed : RowCarries(job, Columns, Landed[k], job.records[r])
         /\ \A k \in DOMAIN rows :
              \/ Landed[k] = rows[k]
              \/ \E r \in DOMAIN job.records : RowCarries(job, Columns, Landed[k], job.records[r])
         /\ rows = <<>> =>
              /\ DOMAIN Landed = DOMAIN job.records
              /\ \A r \in DOMAIN job.records :
                   KeptRow(Columns, job.fields, Landed[r], job.records[r])
<1> DEFINE updated == MergeUpdated(Columns, Plan, sent, rows, job.keys)
           new == MergeInserted(Columns, Plan, sent, rows, job.keys)
<1>1. Columns = Written(table, job) /\ Plan = PlanOf(table, job) /\ Fitting(Columns, job)
  BY WrittenFits DEF Columns, Written, Plan
<1>2. Listed(rows) /\ \A k \in DOMAIN rows : RowOK(Columns, rows[k])
  BY DEF RowsOK
<1>3. DOMAIN rows = 1 .. Len(rows) /\ Len(rows) \in Nat
  BY <1>2, ListedIs
<1>4. DOMAIN sent = DOMAIN job.records
  BY DEF SentAll
<1>5. /\ Listed(updated) /\ DOMAIN updated = DOMAIN rows /\ Len(updated) = Len(rows)
      /\ \A k \in DOMAIN rows : updated[k].ok =>
           /\ RowOK(Columns, updated[k].value)
           /\ \/ updated[k].value = rows[k]
              \/ \E r \in DOMAIN job.records : RowCarries(job, Columns, updated[k].value, job.records[r])
           /\ \A r \in DOMAIN sent : Matches(Columns, Plan, sent[r], rows[k], job.keys) =>
                RowCarries(job, Columns, updated[k].value, job.records[r])
  BY <1>1, UpdatedIs
<1>6. /\ Listed(new)
      /\ \A n \in DOMAIN new : new[n].ok => RowOK(Columns, new[n].value)
      /\ \A r \in DOMAIN sent :
           \/ \E k \in DOMAIN rows : Matches(Columns, Plan, sent[r], rows[k], job.keys)
           \/ \E n \in DOMAIN new : new[n].ok =>
                KeptRow(Columns, job.fields, new[n].value, job.records[r])
      /\ rows = <<>> =>
           /\ DOMAIN new = DOMAIN sent
           /\ \A r \in DOMAIN sent : new[r].ok =>
                KeptRow(Columns, job.fields, new[r].value, job.records[r])
  BY <1>1, <1>2, MergedInIs
<1>7. Outcome = updated \o new
  BY DEF Outcome, KeysOf
<1> HIDE DEF updated, new
<1>8. /\ Listed(Landed) /\ Len(Landed) = Len(updated) + Len(new)
      /\ \A k \in DOMAIN updated : updated[k].ok /\ Landed[k] = updated[k].value
      /\ \A k \in DOMAIN new : new[k].ok /\ Landed[Len(updated) + k] = new[k].value
      /\ \A k \in DOMAIN Landed :
           k \in DOMAIN updated \/ \E n \in DOMAIN new : k = Len(updated) + n
  <2>1. Joined(updated, new, updated \o new)
    BY <1>5, <1>6, Joining
  <2>2. Joined(updated, new, Outcome)
    BY <2>1, <1>7, Zenon
  <2>3. Listed(Outcome)
    BY <2>2 DEF Joined
  <2>4. Valued(Landed, Outcome)
    BY <2>3, OutcomeLands
  <2>. QED
    BY <2>2, <2>4, ConcatLanded
<1>9. /\ DOMAIN Landed = 1 .. Len(Landed) /\ Len(Landed) \in Nat
      /\ DOMAIN new = 1 .. Len(new) /\ Len(new) \in Nat
  BY <1>6, <1>8, ListedIs
<1>10. RowsOK(Columns, Landed)
  <2>1. ASSUME NEW k \in DOMAIN Landed PROVE RowOK(Columns, Landed[k])
    BY <1>5, <1>6, <1>8
  <2>. QED
    BY <1>8, <2>1 DEF RowsOK
<1>11. DOMAIN rows \subseteq DOMAIN Landed
       /\ \A n \in DOMAIN new : Len(rows) + n \in DOMAIN Landed
  <2> DEFINE a == Len(rows)
             b == Len(new)
             n == Len(Landed)
  <2>1. a \in Nat /\ b \in Nat /\ n = a + b /\ DOMAIN rows = 1 .. a /\ DOMAIN new = 1 .. b
        /\ DOMAIN Landed = 1 .. n
    BY <1>3, <1>5, <1>8, <1>9
  <2> HIDE DEF a, b, n
  <2>2. 1 .. a \subseteq 1 .. n /\ \A m \in 1 .. b : a + m \in 1 .. n
    BY <2>1
  <2>. QED
    BY <2>1, <2>2 DEF a
<1>12. ASSUME NEW r \in DOMAIN job.records
       PROVE  \E k \in DOMAIN Landed : RowCarries(job, Columns, Landed[k], job.records[r])
  <2>1. CASE \E k \in DOMAIN rows : Matches(Columns, Plan, sent[r], rows[k], job.keys)
    BY <1>4, <1>5, <1>8, <1>11, <2>1
  <2>2. CASE \E n \in DOMAIN new : new[n].ok =>
               KeptRow(Columns, job.fields, new[n].value, job.records[r])
    <3>1. PICK n \in DOMAIN new : KeptRow(Columns, job.fields, new[n].value, job.records[r])
      BY <1>8, <2>2
    <3>2. RowCarries(job, Columns, new[n].value, job.records[r])
      BY <1>1, <3>1, KeptHolds
    <3>3. Len(rows) + n \in DOMAIN Landed /\ Landed[Len(rows) + n] = new[n].value
      BY <1>5, <1>8, <1>11
    <3>. QED
      BY <3>2, <3>3
  <2>. QED
    BY <1>4, <1>6, <2>1, <2>2
<1>13. ASSUME NEW k \in DOMAIN rows
       PROVE  \/ Landed[k] = rows[k]
              \/ \E r \in DOMAIN job.records : RowCarries(job, Columns, Landed[k], job.records[r])
  BY <1>5, <1>8
<1>14. ASSUME rows = <<>>
       PROVE  /\ DOMAIN Landed = DOMAIN job.records
              /\ \A r \in DOMAIN job.records :
                   KeptRow(Columns, job.fields, Landed[r], job.records[r])
  <2>1. Len(updated) = 0 /\ \A n \in DOMAIN new : 0 + n = n
    BY <1>5, <1>9, <1>14, NoRows
  <2>2. DOMAIN new = DOMAIN job.records
    BY <1>4, <1>6, <1>14
  <2>3. \A n \in DOMAIN new : Landed[n] = new[n].value /\ new[n].ok
    BY <1>8, <2>1
  <2>4. DOMAIN Landed = DOMAIN new
    <3>1. Len(Landed) = Len(new)
      BY <1>8, <1>9, <2>1
    <3>. QED
      BY <1>9, <3>1
  <2>. QED
    BY <1>4, <1>6, <1>14, <2>2, <2>3, <2>4
<1>. QED
  BY <1>10, <1>12, <1>13, <1>14

\* A merge of records that are in the table, in the rows of their order, leaves
\* the table as it is, unless it keeps rounded keys.
LEMMA MergeAgain ==
  ASSUME WellFormed(job), Plannable(job.fields), Met(table, job), job.mode = "merge",
         SentAll(table), RowsOK(Columns, rows), \A r \in DOMAIN Outcome : Outcome[r].ok,
         ~DuplicateKeys(Plan, sent, job.keys),
         DOMAIN rows = DOMAIN job.records,
         \A k \in DOMAIN rows : KeptRow(Columns, job.fields, rows[k], job.records[k]),
         \A key \in job.keys : ~Rounds(Columns[Position(Columns, key)])
  PROVE  Landed = rows
<1> DEFINE keys == job.keys
           updated == MergeUpdated(Columns, Plan, sent, rows, keys)
           new == MergeInserted(Columns, Plan, sent, rows, keys)
           alone == { s \in DOMAIN sent :
                        \A k \in DOMAIN rows : ~Matches(Columns, Plan, sent[s], rows[k], keys) }
           matching(k) == { s \in DOMAIN sent : Matches(Columns, Plan, sent[s], rows[k], keys) }
           found(k) == CHOOSE s \in matching(k) : TRUE
           cells(k) == [i \in DOMAIN Columns |->
                          UpdateCell(Columns[i], Plan, sent[k], rows[k][i], keys)]
<1>1. Columns = Written(table, job) /\ Plan = PlanOf(table, job) /\ Fitting(Columns, job)
  BY WrittenFits DEF Columns, Written, Plan
<1>2. Listed(rows) /\ \A k \in DOMAIN rows : RowOK(Columns, rows[k])
  BY DEF RowsOK
<1>3. Listed(sent) /\ DOMAIN sent = DOMAIN rows
      /\ \A k \in DOMAIN rows : StagedRow(job, Columns, Plan, sent[k], job.records[k])
  BY <1>1 DEF SentAll
<1>4. ASSUME NEW k \in DOMAIN rows PROVE Matches(Columns, Plan, sent[k], rows[k], keys)
  <2> SUFFICES ASSUME NEW key \in keys
               PROVE  Same(rows[k][Position(Columns, key)], sent[k][EntryFor(Plan, key)])
    BY DEF Matches
  <2> DEFINE i == Position(Columns, key)
             at == EntryFor(Plan, key)
             old == rows[k][i]
             cell == sent[k][at]
  <2>1. PICK f \in DOMAIN job.fields : job.fields[f].name = key
    BY KeyIs
  <2> DEFINE type == job.fields[f].type
             value == job.records[k][f]
             column == Columns[i]
  <2>2. /\ value.ok \in BOOLEAN /\ (value.ok => value.value \in Int)
    BY <2>1, ValueIs
  <2>13. value.ok
    BY <2>1, ValueIs
  <2>3. /\ KnownType(type) /\ column.scale \in 0 .. MaxPrecision
        /\ Accepted(type, column, job.rounding)
    BY <1>1, <2>1, FieldIs
  <2>4. Kept(old, type, value, column)
    BY <2>1 DEF KeptRow
  <2>5. Staged(job, cell, type, value, column)
    BY <1>3, <2>1 DEF StagedRow
  <2>6. ~Rounds(column)
    OBVIOUS
  <2> HIDE DEF i, at, old, cell, type, value, column
  <2>7. old \in Options(Cells) /\ Same(old, Some(Exact(type, value.value)))
    <3> DEFINE rounding == job.rounding
    <3>1. Accepted(type, column, rounding)
      BY <2>3
    <3> HIDE DEF rounding
    <3>2. /\ old \in Options(Cells) /\ (old.ok <=> value.ok)
          /\ value.ok =>
               /\ ~Rounds(column) => Same(old, Some(Exact(type, value.value)))
               /\ Rounds(column) =>
                    /\ rounding
                    /\ TwiceApart(old.value, Exact(type, value.value)) <= UnitsPerDay
      BY <2>2, <2>3, <2>4, <3>1, KeptIs
    <3>. QED
      BY <2>6, <2>13, <3>2
  <2>8. cell = WireCell(type, value.value) /\ WireCell(type, value.value).ok
        /\ cell \in Options(Cells)
    BY <2>13, <2>2, <2>5 DEF Staged
  <2>9. Same(cell, Some(Exact(type, value.value)))
    BY <2>13, <2>2, <2>3, <2>8, WireExact
  <2>10. Same(Some(Exact(type, value.value)), cell)
    BY <2>9, SameTurns
  <2>11. Some(Exact(type, value.value)) \in Options(Cells)
    BY <2>13, <2>2, <2>3, ExactIs, OptionOf
  <2>12. Same(old, cell)
    BY <2>7, <2>8, <2>10, <2>11, SameOn
  <2>. QED
    BY <2>12 DEF old, cell, i, at
<1>5. ASSUME NEW k \in DOMAIN rows PROVE found(k) = k
  <2>1. k \in matching(k)
    BY <1>3, <1>4
  <2>2. found(k) \in matching(k)
    BY <2>1
  <2> DEFINE s == found(k)
  <2> HIDE DEF found
  <2>3. s \in DOMAIN sent /\ Matches(Columns, Plan, sent[s], rows[k], keys)
    BY <2>2
  <2>4. RowOK(Columns, rows[k]) /\ k \in DOMAIN sent /\ DOMAIN sent = DOMAIN job.records
    BY <1>2, <1>3
  <2> HIDE DEF s
  <2>5. s = k
    BY <1>1, <1>3, <1>4, <2>3, <2>4, OneMatch
  <2>. QED
    BY <2>5 DEF s
<1>6. updated = [k \in DOMAIN rows |->
                   IF matching(k) = {} THEN Some(rows[k])
                   ELSE Settled([i \in DOMAIN Columns |->
                          UpdateCell(Columns[i], Plan, sent[found(k)], rows[k][i], keys)])]
  BY DEF MergeUpdated
<1>7. /\ DOMAIN updated = DOMAIN rows
      /\ \A k \in DOMAIN rows : updated[k] = Settled(cells(k))
  <2>1. \A k \in DOMAIN rows : k \in matching(k)
    BY <1>3, <1>4
  <2> HIDE DEF matching, found, updated
  <2>2. \A k \in DOMAIN rows : matching(k) # {}
    BY <2>1
  <2>. QED
    BY <1>5, <1>6, <2>2
<1>8. ASSUME NEW k \in DOMAIN rows, Settled(cells(k)).ok
      PROVE  Settled(cells(k)).value = rows[k]
  <2>1. /\ \A i \in DOMAIN Columns : cells(k)[i].ok
        /\ Settled(cells(k)).value = [i \in DOMAIN Columns |-> cells(k)[i].value]
    <3> DEFINE cs == cells(k)
    <3>1. DOMAIN cs = DOMAIN Columns
      OBVIOUS
    <3> HIDE DEF cs
    <3>2. /\ \A i \in DOMAIN cs : cs[i].ok
          /\ Settled(cs).value = [i \in DOMAIN cs |-> cs[i].value]
      <4>1. Settled(cs).ok
        BY <1>8 DEF cs
      <4>. QED
        BY <4>1, SettledIs
    <3>. QED
      BY <3>1, <3>2 DEF cs
  <2>2. \A i \in DOMAIN Columns :
          cells(k)[i] = UpdateCell(Columns[i], Plan, sent[k], rows[k][i], keys)
    OBVIOUS
  <2> HIDE DEF cells
  <2>3. ASSUME NEW i \in DOMAIN Columns PROVE cells(k)[i].value = rows[k][i]
    <3> DEFINE column == Columns[i]
               at == EntryFor(Plan, column.name)
               cell == sent[k][at]
               old == rows[k][i]
    <3>1. cells(k)[i] = (IF at = 0 \/ column.name \in keys THEN Some(old)
                         ELSE IF column.identity THEN None ELSE StoredOption(cell, column))
      BY <2>2 DEF UpdateCell
    <3>2. CASE at = 0 \/ column.name \in keys
      <4>1. cells(k)[i] = Some(old)
        BY <3>1, <3>2
      <4>. QED
        BY <4>1 DEF Some
    <3>3. CASE at # 0 /\ column.name \notin keys
      <4>1. PICK f \in DOMAIN job.fields :
              job.fields[f].name = column.name /\ Position(Columns, job.fields[f].name) = i
        BY <1>1, <3>3, ColumnIs
      <4> DEFINE type == job.fields[f].type
                 value == job.records[k][f]
      <4>2. value.ok \in BOOLEAN
        BY ValueIs
      <4>3. Kept(old, type, value, column)
        BY <4>1 DEF KeptRow
      <4>4. Staged(job, cell, type, value, column)
        BY <1>3, <4>1 DEF StagedRow
      <4>5. cells(k)[i].ok
        BY <2>1
      <4>6. cells(k)[i] = IF column.identity THEN None ELSE StoredOption(cell, column)
        BY <3>1, <3>3
      <4> HIDE DEF column, at, cell, old, type, value
      <4>7. cells(k)[i] = StoredOption(cell, column) /\ StoredOption(cell, column).ok
        BY <4>5, <4>6 DEF None
      <4>8. Kept(StoredOption(cell, column).value, type, value, column)
        BY <4>2, <4>4, <4>7, StoredKept
      <4>9. StoredOption(cell, column).value = old
        BY <4>2, <4>3, <4>8 DEF Kept
      <4>. QED
        BY <4>7, <4>9 DEF old
    <3>. QED
      BY <3>2, <3>3
  <2>4. rows[k] = [i \in DOMAIN Columns |-> rows[k][i]]
    BY <1>2 DEF RowOK
  <2>5. [i \in DOMAIN Columns |-> cells(k)[i].value] = [i \in DOMAIN Columns |-> rows[k][i]]
    BY <2>3
  <2>. QED
    BY <2>1, <2>4, <2>5
<1>9. Listed(updated) /\ Len(updated) = Len(rows)
  BY <1>1, UpdatedIs
<1>10. new = <<>>
  <2>1. alone = {}
    BY <1>3, <1>4
  <2>2. Unmatched(Columns, Plan, sent, rows, keys) = Picked(sent, alone)
    BY DEF Unmatched
  <2>3. DOMAIN Picked(sent, {}) = {}
    <3>1. {} \in SUBSET DOMAIN sent
      OBVIOUS
    <3>2. DOMAIN Picked(sent, {}) = 1 .. Cardinality({})
      BY <1>3, <3>1, PickedAt
    <3>3. Cardinality({}) = 0
      BY FS_EmptySet
    <3>. QED
      BY <3>2, <3>3
  <2>4. DOMAIN Unmatched(Columns, Plan, sent, rows, keys) = {}
    <3> HIDE DEF alone
    <3>. QED
      BY <2>1, <2>2, <2>3, Zenon
  <2>5. DOMAIN new = {}
    BY <2>4 DEF MergeInserted
  <2>6. Listed(new)
    BY <1>1, <1>2, MergedInIs
  <2> HIDE DEF new
  <2>. QED
    BY <2>5, <2>6, NoneListed
<1>11. Outcome = updated \o new
  BY DEF Outcome, KeysOf
<1> HIDE DEF updated, new, cells
<1>12. /\ Listed(Landed) /\ Len(Landed) = Len(updated) + Len(new)
       /\ \A k \in DOMAIN updated : updated[k].ok /\ Landed[k] = updated[k].value
  <2>1. Joined(updated, new, updated \o new)
    BY <1>9, <1>10, NoRows, Joining
  <2>2. Joined(updated, new, Outcome)
    BY <1>11, <2>1, Zenon
  <2>3. Listed(Outcome)
    BY <2>2 DEF Joined
  <2>4. Valued(Landed, Outcome)
    BY <2>3, OutcomeLands
  <2>. QED
    BY <2>2, <2>4, ConcatLanded
<1>13. \A k \in DOMAIN rows : Landed[k] = rows[k]
  BY <1>7, <1>8, <1>12
<1>14. Len(Landed) = Len(rows)
  <2>1. Len(rows) \in Nat /\ Len(new) = 0
    BY <1>2, <1>10, NoRows, ListedIs
  <2>. QED
    BY <1>9, <1>12, <2>1
<1>. QED
  BY <1>2, <1>12, <1>13, <1>14, ListsAgree

-----------------------------------------------------------------------------
(* What a created table takes.                                             *)

Unsendable(type, value) ==
  /\ value.ok
  /\ \/ type.kind = "utf8" /\ Length(value.value) > TextMax
     \/ type.kind \in Timestamps /\ ~MomentCell(value.value).ok

\* The wire refuses nothing on the way to a created column but what the calendar
\* does not hold.
LEMMA CreatedWire ==
  ASSUME WellFormed(job), NEW r \in DOMAIN job.records, NEW i \in DOMAIN job.fields,
         ~Unsendable(job.fields[i].type, job.records[r][i]),
         NEW entry, entry.field = i,
         entry.wire = None \/ entry.wire = Some(CreatedColumn(job.fields[i]))
  PROVE  LET wired == Wire(entry, job.records[r], job.fields)
             value == job.records[r][i]
         IN /\ wired.ok
            /\ value.ok => /\ wired.value.ok
                           /\ wired.value.value = WireCell(job.fields[i].type, value.value).value
            /\ ~value.ok => ~wired.value.ok
<1> DEFINE value == job.records[r][i]
           field == job.fields[i]
           type == field.type
           column == CreatedColumn(field)
           cell == WireCell(type, value.value)
           adapted == IF entry.wire.ok THEN Adapted(cell.value, entry.wire.value)
                      ELSE Some(cell.value)
           wired == Wire(entry, job.records[r], job.fields)
<1>1. value.ok \in BOOLEAN /\ (value.ok => value.value \in Int)
  BY ValueIs
<1>2. KnownType(type)
  BY DEF WellFormed
<1>3. wired = IF ~value.ok THEN Some(None)
              ELSE IF cell.ok /\ adapted.ok THEN Some(Some(adapted.value)) ELSE None
  BY DEF Wire
<1>4. ~Unsendable(type, value)
  OBVIOUS
<1> HIDE DEF wired, value, cell, adapted, column
<1>5. CASE ~value.ok
  <2>1. wired = Some(None)
    BY <1>3, <1>5
  <2>2. wired.ok /\ ~wired.value.ok
    BY <2>1 DEF Some, None
  <2>. QED
    BY <1>5, <2>2 DEF wired, value
<1>6. CASE value.ok
  <2>1. cell.ok
    BY <1>1, <1>2, <1>4, <1>6, WireIs DEF Unsendable, cell
  <2>2. Adapted(cell.value, column) = Some(cell.value)
    <3>1. /\ Accepted(type, column, TRUE) /\ column.scale \in 0 .. MaxPrecision
          /\ type.kind = "int64" => column.type = "bigint"
          /\ type.kind \in Timestamps =>
               column.type = "datetime2" /\ column.scale = UnitDigits
      BY <1>2, CreatedColumnIs DEF column
    <3>2. \/ column.type \in {"bigint", "decimal", "numeric", "float", "bit", "nvarchar"}
          \/ column.type = "datetime2" /\ ~(column.scale < UnitDigits)
      <4> HIDE DEF type
      <4>1. UnitDigits \in Nat
        BY Constants
      <4>2. \/ type.kind = "int64"
            \/ type.kind = "decimal" /\ column.type \in {"decimal", "numeric"}
            \/ type.kind \in Timestamps
            \/ type.kind = "float64" /\ column.type = "float"
            \/ type.kind = "boolean" /\ column.type = "bit"
            \/ type.kind = "utf8" /\ column.type = "nvarchar"
        BY <1>2, <3>1, AcceptedIs
      <4>. QED
        BY <3>1, <4>1, <4>2
    <3> DEFINE c == cell.value
    <3> HIDE DEF c
    <3>3. Adapted(c, column) = Some(c)
      BY <3>2, AdaptedBy
    <3>. QED
      BY <3>3 DEF c
  <2>3. adapted = Some(cell.value)
    <3>1. CASE entry.wire = None
      BY <3>1 DEF None, adapted
    <3>2. CASE entry.wire = Some(column)
      <4>1. entry.wire.ok /\ entry.wire.value = column
        BY <3>2 DEF Some
      <4>. QED
        BY <2>2, <4>1 DEF adapted
    <3>. QED
      BY <3>1, <3>2 DEF column
  <2>4. adapted.ok /\ adapted.value = cell.value
    BY <2>3 DEF Some
  <2>5. wired = Some(Some(cell.value))
    BY <1>3, <1>6, <2>1, <2>4
  <2>6. wired.ok /\ wired.value.ok /\ wired.value.value = cell.value
    BY <2>5 DEF Some
  <2>. QED
    BY <1>6, <2>6 DEF wired, value, cell
<1>. QED
  BY <1>1, <1>5, <1>6

\* What a job can send of a record of its own shape, it does.
LEMMA CreatedSends ==
  ASSUME WellFormed(job), Plannable(job.fields), table = Some(Created(job.fields)),
         NEW r \in DOMAIN job.records,
         \A i \in DOMAIN job.fields : ~Unsendable(job.fields[i].type, job.records[r][i])
  PROVE  LET row == WireRow(Plan, job.records[r], job.fields)
         IN row.ok /\ ~TooLong(row.value)
<1> DEFINE row == WireRow(Plan, job.records[r], job.fields)
           wired(e) == Wire(Plan[e], job.records[r], job.fields)
<1>1. Met(table, job) /\ Plan = PlanOf(table, job) /\ Written(table, job) = Created(job.fields)
  <2>1. table.ok /\ table.value = Created(job.fields)
    BY DEF Some
  <2>. QED
    BY <2>1, CreatedIs DEF Met, Plan, Written
<1>2. ASSUME NEW e \in DOMAIN Plan
      PROVE  LET i == Plan[e].field
             IN /\ i \in DOMAIN job.fields
                /\ Plan[e].wire = None \/ Plan[e].wire = Some(CreatedColumn(job.fields[i]))
  <2>1. /\ Plan[e].field \in DOMAIN job.fields
        /\ Plan[e].name = job.fields[Plan[e].field].name
        /\ \/ Plan[e].wire = None
           \/ Plan[e].wire = Some(Created(job.fields)[Position(Created(job.fields), Plan[e].name)])
    BY <1>1, PlanIs
  <2>2. Created(job.fields)[Position(Created(job.fields), Plan[e].name)]
          = CreatedColumn(job.fields[Plan[e].field])
    BY <2>1, CreatedIs
  <2>. QED
    BY <2>1, <2>2
<1>3. ASSUME NEW e \in DOMAIN Plan
      PROVE  LET i == Plan[e].field
                 value == job.records[r][i]
             IN /\ i \in DOMAIN job.fields /\ wired(e).ok
                /\ value.ok => /\ wired(e).value.ok
                               /\ wired(e).value.value
                                    = WireCell(job.fields[i].type, value.value).value
                /\ ~value.ok => ~wired(e).value.ok
  BY <1>2, CreatedWire
<1>4. row = When(\A e \in DOMAIN Plan : wired(e).ok, [e \in DOMAIN Plan |-> wired(e).value])
  BY DEF WireRow
<1>5. row.ok /\ row.value = [e \in DOMAIN Plan |-> wired(e).value]
  <2> HIDE DEF wired
  <2>1. \A e \in DOMAIN Plan : wired(e).ok
    BY <1>3
  <2>. QED
    BY <1>4, <2>1, WhenIs
<1>6. ~TooLong(row.value)
  <2> HIDE DEF wired, row
  <2> SUFFICES ASSUME NEW e \in DOMAIN Plan, wired(e).value.ok,
                      job.fields[Plan[e].field].type.kind = "utf8",
                      Length(wired(e).value.value.part) > TextMax
               PROVE  FALSE
    BY <1>5 DEF TooLong
  <2> DEFINE i == Plan[e].field
             value == job.records[r][i]
             type == job.fields[i].type
  <2>1. /\ i \in DOMAIN job.fields /\ value.ok
        /\ wired(e).value.value = WireCell(type, value.value).value
    <3>1. i \in DOMAIN job.fields /\ value.ok \in BOOLEAN
      BY <1>3, ValueIs
    <3>. QED
      BY <1>3, <3>1
  <2>2. value.value \in Int /\ KnownType(type)
    <3>1. KnownType(type)
      BY <2>1, ZenonT(60) DEF WellFormed
    <3>2. value.value \in Int
      BY <2>1, ValueIs
    <3>. QED
      BY <3>1, <3>2
  <2>3. type.kind = "utf8" /\ ~Unsendable(type, value)
    BY <2>1
  <2> HIDE DEF i, value, type
  <2>4. WireCell(type, value.value).ok
    BY <2>2, <2>3, WireIs DEF Timestamps
  <2>5. WireCell(type, value.value).value = Whole(value.value, 1)
    BY <2>2, <2>3, <2>4, WireIs DEF Timestamps
  <2>6. WireCell(type, value.value).value.part = value.value
    BY <2>5 DEF Whole
  <2>7. Length(value.value) > TextMax
    BY <2>1, <2>6
  <2>. QED
    BY <2>1, <2>3, <2>7 DEF Unsendable
<1>. QED
  BY <1>5, <1>6

\* A created column stores whatever a field of its own holds.
LEMMA CreatedStores ==
  ASSUME NEW j, NEW field, KnownType(field.type), NEW value, value.ok \in BOOLEAN,
         ~value.ok => field.nullable,
         value.ok => value.value \in Int /\ Admits(field.type, value.value),
         NEW cell, Staged(j, cell, field.type, value, CreatedColumn(field))
  PROVE  StoredOption(cell, CreatedColumn(field)).ok
<1> DEFINE column == CreatedColumn(field)
           type == field.type
           n == value.value
           c == WireCell(type, n).value
<1>1. /\ Accepted(type, column, TRUE) /\ column.scale \in 0 .. MaxPrecision
      /\ column.nullable = field.nullable
      /\ column.max_length = -1
      /\ type.kind = "int64" => column.type = "bigint"
      /\ type.kind = "decimal" => column.scale = type.scale /\ column.precision = type.precision
      /\ type.kind \in Timestamps => column.type = "datetime2" /\ column.scale = UnitDigits
  BY CreatedColumnIs
<1>2. KnownType(type) /\ Staged(j, cell, type, value, column)
  OBVIOUS
<1> HIDE DEF column, type
<1>3. CASE ~value.ok
  <2>1. cell = None
    BY <1>2, <1>3 DEF Staged
  <2>2. StoredOption(cell, column) = IF column.nullable THEN Some(None) ELSE None
    BY <2>1 DEF StoredOption, None
  <2>3. StoredOption(cell, column) = Some(None)
    BY <1>1, <1>3, <2>2
  <2>. QED
    BY <2>3 DEF Some, column
<1>4. CASE value.ok
  <2>1. n \in Int /\ Admits(type, n)
    BY <1>4 DEF type
  <2>2. WireCell(type, n).ok /\ cell.ok /\ Stored(cell.value, column) = Stored(c, column)
    BY <1>2, <1>4 DEF Staged
  <2>3. /\ c \in Cells
        /\ type.kind \in Timestamps => c.rate = UnitsPerDay
        /\ type.kind = "decimal" => c = Whole(n, 10^type.scale)
        /\ type.kind \notin Timestamps \union {"decimal"} => c = Whole(n, 1)
    BY <1>2, <2>1, <2>2, WireIs
  <2>4. \/ type.kind = "int64" /\ column.type \in Integers4
        \/ /\ type.kind = "decimal" /\ column.type \in {"decimal", "numeric"}
           /\ type.precision \in 1 .. MaxPrecision /\ type.scale \in 0 .. MaxPrecision
        \/ type.kind \in Timestamps
        \/ type.kind = "float64" /\ column.type = "float"
        \/ type.kind = "boolean" /\ column.type = "bit"
        \/ type.kind = "utf8" /\ column.type = "nvarchar"
    BY <1>1, <1>2, AcceptedIs
  <2> HIDE DEF n, c
  <2>5. Stored(c, column).ok
    <3>1. CASE type.kind = "int64"
      <4>1. column.type = "bigint" /\ column.type \in Integers4 /\ c = Whole(n, 1)
        BY <1>1, <2>3, <3>1 DEF Integers4, Timestamps
      <4>2. c.part = n
        BY <4>1 DEF Whole
      <4>3. n \in -MaxInt - 1 .. MaxInt
        BY <2>1, <3>1 DEF Admits
      <4>4. IntegerRange(column.type) = -MaxInt - 1 .. MaxInt
        BY <4>1 DEF IntegerRange
      <4>5. Stored(c, column) = When(c.part \in IntegerRange(column.type), c)
        BY <4>1, StoredBy
      <4>6. c.part \in IntegerRange(column.type)
        BY <4>2, <4>3, <4>4
      <4>. QED
        BY <4>5, <4>6 DEF When, Some
    <3>2. CASE type.kind = "decimal"
      <4>1. /\ column.type \in {"decimal", "numeric"} /\ c = Whole(n, 10^type.scale)
            /\ type.scale \in 0 .. MaxPrecision
        BY <2>3, <2>4, <3>2 DEF Timestamps
      <4> DEFINE s == 10^type.scale
      <4>2. column.scale = type.scale /\ column.precision = type.precision
        BY <1>1, <3>2
      <4>3. s \in Nat \ {0}
        BY <4>1, Constants
      <4> HIDE DEF s
      <4>4. c.part = n /\ c.rate = s
        BY <4>1 DEF Whole, s
      <4>5. Digitized(c, column) = (n * s + s \div 2) \div s
        BY <4>2, <4>4 DEF Digitized, s
      <4>6. Digitized(c, column) = n
        BY <2>1, <4>3, <4>5, HalfIsLost
      <4>7. Length(Digitized(c, column)) < 10^column.precision
        BY <2>1, <3>2, <4>2, <4>6 DEF Admits
      <4>8. Stored(c, column) = When(Length(Digitized(c, column)) < 10^column.precision,
                                     Whole(Digitized(c, column), 10^column.scale))
        BY <4>1, StoredBy
      <4>. QED
        BY <4>7, <4>8 DEF When, Some
    <3>3. CASE type.kind \in Timestamps
      <4>1. column.type = "datetime2" /\ column.scale = UnitDigits /\ c.rate = UnitsPerDay
        BY <1>1, <2>3, <3>3
      <4>2. ~(c.rate > SecondsPerDay * 10^column.scale)
        BY <1>1, <4>1, Constants, Rates
      <4>. QED
        BY <4>1, <4>2, StoredBy DEF Some
    <3>4. CASE type.kind = "utf8"
      <4>1. column.type = "nvarchar"
        BY <2>4, <3>4 DEF Timestamps
      <4>2. Stored(c, column) = When(Room(c, column), c) /\ Room(c, column)
        BY <1>1, <4>1, StoredBy DEF Room
      <4>. QED
        BY <4>2 DEF When, Some
    <3>5. CASE type.kind \in {"float64", "boolean"}
      <4>1. column.type \in {"float", "bit"}
        BY <2>4, <3>5 DEF Timestamps
      <4>. QED
        BY <4>1, StoredBy DEF Some
    <3>. QED
      BY <2>4, <3>1, <3>2, <3>3, <3>4, <3>5
  <2> DEFINE stored == Stored(cell.value, column)
  <2>6. stored.ok
    BY <2>2, <2>5
  <2>7. StoredOption(cell, column) = IF stored.ok THEN Some(Some(stored.value)) ELSE None
    BY <2>2 DEF StoredOption
  <2> HIDE DEF stored
  <2>. QED
    BY <2>6, <2>7 DEF Some, column
<1>. QED
  BY <1>3, <1>4

LEMMA SettledOk ==
  ASSUME NEW cells, \A i \in DOMAIN cells : cells[i].ok
  PROVE  Settled(cells).ok
BY WhenIs DEF Settled

\* Lists without a failure make a list without one.
LEMMA JoinedOk ==
  ASSUME NEW s, NEW u, NEW all, Joined(s, u, all),
         \A k \in DOMAIN s : s[k].ok, \A k \in DOMAIN u : u[k].ok
  PROVE  \A r \in DOMAIN all : all[r].ok
<1> DEFINE a == Len(s)
           b == Len(u)
           n == Len(all)
<1>1. /\ a \in Nat /\ b \in Nat /\ n = a + b
      /\ DOMAIN s = 1 .. a /\ DOMAIN u = 1 .. b /\ DOMAIN all = 1 .. n
      /\ \A k \in 1 .. a : all[k] = s[k]
      /\ \A k \in 1 .. b : all[a + k] = u[k]
  BY ListedIs DEF Joined
<1> HIDE DEF a, b, n
<1>2. ASSUME NEW r \in 1 .. n PROVE all[r].ok
  <2>1. CASE r <= a
    BY <1>1, <2>1
  <2>2. CASE r > a
    <3>1. r - a \in 1 .. b /\ a + (r - a) = r
      BY <1>1, <2>2
    <3>2. all[a + (r - a)] = u[r - a]
      BY <1>1, <3>1
    <3>. QED
      BY <1>1, <3>1, <3>2
  <2>. QED
    BY <1>1, <2>1, <2>2
<1>. QED
  BY <1>1, <1>2

\* A load of the fields a table was created for has no row refused.
LEMMA CreatedLands ==
  ASSUME WellFormed(job), Plannable(job.fields), table = Some(Created(job.fields)),
         SentAll(table), Listed(rows)
  PROVE  \A r \in DOMAIN Outcome : Outcome[r].ok
<1>1. /\ Met(table, job) /\ Plan = PlanOf(table, job) /\ Columns = Created(job.fields)
      /\ Written(table, job) = Columns
  <2>1. table.ok /\ table.value = Created(job.fields)
    BY DEF Some
  <2>. QED
    BY <2>1, CreatedIs DEF Met, Plan, Written, Columns
<1>2. ASSUME NEW s \in DOMAIN sent, NEW i \in DOMAIN Columns
      PROVE  /\ EntryFor(Plan, Columns[i].name) # 0
             /\ ~Columns[i].identity /\ ~Columns[i].has_default
             /\ StoredOption(sent[s][EntryFor(Plan, Columns[i].name)], Columns[i]).ok
  <2> DEFINE field == job.fields[i]
             at == EntryFor(Plan, field.name)
             value == job.records[s][i]
  <2>1. i \in DOMAIN job.fields /\ Columns[i] = CreatedColumn(field)
        /\ Position(Columns, field.name) = i
    BY <1>1, CreatedIs
  <2>2. KnownType(field.type)
    BY <2>1 DEF WellFormed
  <2>3. Columns[i].name = field.name /\ Columns[i].identity = FALSE /\ Columns[i].has_default = FALSE
    BY <2>1, <2>2, CreatedColumnIs
  <2>4. at # 0
    BY <1>1, <2>1, EntryIs
  <2>5. Staged(job, sent[s][at], field.type, value, CreatedColumn(field))
    BY <1>1, <2>1 DEF SentAll, StagedRow
  <2>6. s \in DOMAIN job.records
    BY DEF SentAll
  <2>7. /\ value.ok \in BOOLEAN
        /\ ~value.ok => field.nullable
        /\ value.ok => value.value \in Int /\ Admits(field.type, value.value)
    BY <2>1, <2>6, ValueIs
  <2>8. StoredOption(sent[s][at], CreatedColumn(field)).ok
    <3> HIDE DEF field, at, value
    <3>. QED
      BY <2>2, <2>5, <2>7, CreatedStores
  <2>. QED
    BY <2>1, <2>3, <2>4, <2>8
<1>3. CASE job.mode = "merge"
  <2> DEFINE keys == job.keys
             updated == MergeUpdated(Columns, Plan, sent, rows, keys)
             new == MergeInserted(Columns, Plan, sent, rows, keys)
             matching(k) == { s \in DOMAIN sent : Matches(Columns, Plan, sent[s], rows[k], keys) }
             found(k) == CHOOSE s \in matching(k) : TRUE
             Row(k, s) == [i \in DOMAIN Columns |->
                             UpdateCell(Columns[i], Plan, sent[s], rows[k][i], keys)]
             picked == Unmatched(Columns, Plan, sent, rows, keys)
             Fresh(n) == [i \in DOMAIN Columns |->
                            InsertCell(Columns[i], Plan, picked[n], Len(rows) + n)]
  <2>1. updated = [k \in DOMAIN rows |-> IF matching(k) = {} THEN Some(rows[k])
                                         ELSE Settled(Row(k, found(k)))]
    BY DEF MergeUpdated
  <2>2. ASSUME NEW k \in DOMAIN rows, NEW s \in DOMAIN sent PROVE Settled(Row(k, s)).ok
    <3>1. ASSUME NEW i \in DOMAIN Columns
          PROVE  UpdateCell(Columns[i], Plan, sent[s], rows[k][i], keys).ok
      BY <1>2 DEF UpdateCell, Some
    <3>2. \A i \in DOMAIN Row(k, s) : Row(k, s)[i].ok
      BY <3>1
    <3> DEFINE cs == Row(k, s)
    <3> HIDE DEF Row, cs
    <3>3. Settled(cs).ok
      BY <3>2, SettledOk DEF cs
    <3>. QED
      BY <3>3 DEF cs
  <2>3. ASSUME NEW k \in DOMAIN updated PROVE updated[k].ok
    <3>1. \A m : matching(m) # {} => found(m) \in DOMAIN sent
      OBVIOUS
    <3> HIDE DEF matching, found, Row
    <3>2. CASE matching(k) = {}
      <4>1. updated[k] = Some(rows[k])
        BY <2>1, <3>2
      <4>. QED
        BY <4>1 DEF Some
    <3>3. CASE matching(k) # {}
      BY <2>1, <2>2, <3>1, <3>3
    <3>. QED
      BY <3>2, <3>3
  <2>4. Listed(updated)
    <3>1. DOMAIN rows = 1 .. Len(rows) /\ Len(rows) \in Nat
      BY ListedIs
    <3>2. updated = [k \in 1 .. Len(rows) |-> updated[k]] /\ DOMAIN updated = 1 .. Len(rows)
      BY <2>1, <3>1
    <3> HIDE DEF updated
    <3>. QED
      BY <3>1, <3>2, FunctionListed
  <2>5. Listed(picked) /\ \A n \in DOMAIN picked : \E s \in DOMAIN sent : picked[n] = sent[s]
    <3> DEFINE alone == { s \in DOMAIN sent :
                            \A k \in DOMAIN rows : ~Matches(Columns, Plan, sent[s], rows[k], keys) }
    <3>1. picked = Picked(sent, alone) /\ alone \in SUBSET DOMAIN sent /\ Listed(sent)
      BY DEF Unmatched, SentAll
    <3> HIDE DEF picked, alone
    <3>. QED
      BY <3>1, PickedIs
  <2>6. new = [n \in DOMAIN picked |-> Settled(Fresh(n))]
    BY DEF MergeInserted
  <2>7. ASSUME NEW n \in DOMAIN picked PROVE Settled(Fresh(n)).ok
    <3>1. PICK s \in DOMAIN sent : picked[n] = sent[s]
      BY <2>5
    <3> HIDE DEF picked
    <3>2. ASSUME NEW i \in DOMAIN Columns
          PROVE  InsertCell(Columns[i], Plan, picked[n], Len(rows) + n).ok
      BY <1>2, <3>1 DEF InsertCell
    <3>3. \A i \in DOMAIN Fresh(n) : Fresh(n)[i].ok
      BY <3>2
    <3> DEFINE cs == Fresh(n)
    <3> HIDE DEF Fresh, cs
    <3>4. Settled(cs).ok
      BY <3>3, SettledOk DEF cs
    <3>. QED
      BY <3>4 DEF cs
  <2> HIDE DEF picked, Fresh
  <2>8. DOMAIN new = DOMAIN picked /\ \A n \in DOMAIN new : new[n].ok
    BY <2>6, <2>7
  <2>9. Listed(new)
    <3>1. DOMAIN picked = 1 .. Len(picked) /\ Len(picked) \in Nat
      BY <2>5, ListedIs
    <3>2. new = [n \in 1 .. Len(picked) |-> new[n]] /\ DOMAIN new = 1 .. Len(picked)
      BY <2>6, <3>1
    <3> HIDE DEF new
    <3>. QED
      BY <3>1, <3>2, FunctionListed
  <2>10. Outcome = updated \o new
    BY <1>3 DEF Outcome, KeysOf
  <2> HIDE DEF updated, new
  <2>11. Joined(updated, new, Outcome)
    <3>1. Joined(updated, new, updated \o new)
      BY <2>4, <2>9, Joining
    <3>. QED
      BY <2>10, <3>1, Zenon
  <2>. QED
    BY <2>3, <2>8, <2>11, JoinedOk
<1>4. CASE job.mode # "merge"
  <2> DEFINE kept == [r \in DOMAIN Base |-> Some(Base[r])]
             inserted == BulkInserted(Columns, Plan, sent, Base)
             Fresh(n) == [i \in DOMAIN Columns |->
                            BulkCell(Columns[i], Plan, sent[n], Len(Base) + n)]
  <2>1. Listed(Base)
    BY NoRows DEF Base
  <2>2. DOMAIN Base = 1 .. Len(Base) /\ Len(Base) \in Nat
    BY <2>1, ListedIs
  <2>3. Listed(kept) /\ \A r \in DOMAIN kept : kept[r].ok
    <3>1. kept = [k \in 1 .. Len(Base) |-> kept[k]] /\ DOMAIN kept = 1 .. Len(Base)
          /\ \A r \in DOMAIN kept : kept[r].ok
      BY <2>2 DEF Some
    <3> HIDE DEF kept
    <3>. QED
      BY <2>2, <3>1, FunctionListed
  <2>4. inserted = [n \in DOMAIN sent |-> Settled(Fresh(n))]
    BY DEF BulkInserted
  <2>5. ASSUME NEW n \in DOMAIN sent PROVE Settled(Fresh(n)).ok
    <3>1. ASSUME NEW i \in DOMAIN Columns
          PROVE  BulkCell(Columns[i], Plan, sent[n], Len(Base) + n).ok
      BY <1>2 DEF BulkCell
    <3>2. \A i \in DOMAIN Fresh(n) : Fresh(n)[i].ok
      BY <3>1
    <3> DEFINE cs == Fresh(n)
    <3> HIDE DEF Fresh, cs
    <3>3. Settled(cs).ok
      BY <3>2, SettledOk DEF cs
    <3>. QED
      BY <3>3 DEF cs
  <2>6. Listed(sent) /\ DOMAIN sent = 1 .. Len(sent) /\ Len(sent) \in Nat
    BY ListedIs DEF SentAll
  <2> HIDE DEF Fresh
  <2>7. Listed(inserted) /\ \A r \in DOMAIN inserted : inserted[r].ok
    <3>1. inserted = [k \in 1 .. Len(sent) |-> inserted[k]] /\ DOMAIN inserted = 1 .. Len(sent)
          /\ \A r \in DOMAIN inserted : inserted[r].ok
      BY <2>4, <2>5, <2>6
    <3> HIDE DEF inserted
    <3>. QED
      BY <2>6, <3>1, FunctionListed
  <2>8. Outcome = kept \o inserted
    BY <1>4 DEF Outcome, Base
  <2> HIDE DEF kept, inserted
  <2>9. Joined(kept, inserted, Outcome)
    <3>1. Joined(kept, inserted, kept \o inserted)
      BY <2>3, <2>7, Joining
    <3>. QED
      BY <2>8, <3>1, Zenon
  <2>. QED
    BY <2>3, <2>7, <2>9, JoinedOk
<1>. QED
  BY <1>3, <1>4

\* One more element leaves a list a list.
LEMMA AppendListed ==
  ASSUME NEW s, Listed(s), NEW e
  PROVE  /\ Listed(Append(s, e)) /\ Len(Append(s, e)) = Len(s) + 1
         /\ DOMAIN Append(s, e) = 1 .. Len(s) + 1
         /\ \A k \in DOMAIN s : Append(s, e)[k] = s[k]
         /\ Append(s, e)[Len(s) + 1] = e
<1> DEFINE S == Range(s) \union {e}
<1>1. s \in Seq(S) /\ e \in S
  <2> DEFINE A == Range(s)
  <2>1. s \in Seq(A) /\ A \subseteq S
    BY DEF Listed
  <2> HIDE DEF A, S
  <2>2. s \in Seq(S)
    BY <2>1
  <2>. QED
    BY <2>2 DEF S
<1> HIDE DEF S
<1>2. Append(s, e) \in Seq(S)
  BY <1>1
<1>3. Listed(Append(s, e))
  BY <1>2, ListedIs
<1>. QED
  BY <1>1, <1>3

LEMMA PrefixOf ==
  ASSUME NEW s, NEW u, Listed(s), Listed(u), NEW n \in Nat, Len(u) = Len(s) + n,
         \A k \in DOMAIN s : u[k] = s[k]
  PROVE  IsPrefix(s, u)
<1> DEFINE S == Range(s) \union Range(u)
<1>1. s \in Seq(S) /\ u \in Seq(S)
  <2> DEFINE A == Range(s)
             B == Range(u)
  <2>1. s \in Seq(A) /\ u \in Seq(B) /\ A \subseteq S /\ B \subseteq S
    BY DEF Listed
  <2> HIDE DEF A, B, S
  <2>. QED
    BY <2>1
<1> HIDE DEF S
<1>2. Len(s) \in Nat /\ Len(s) <= Len(u) /\ \A k \in 1 .. Len(s) : u[k] = s[k]
  BY <1>1
<1>3. SubSeq(u, 1, Len(s)) = SubSeq(s, 1, Len(s))
  BY <1>1, <1>2
<1>. QED
  BY <1>2, <1>3 DEF IsPrefix

-----------------------------------------------------------------------------
(* The inductive invariant.                                                *)

Shape == /\ WellFormed(job)
         /\ table = None \/ (table = Some(table.value) /\ Catalogued(table.value))

Ready == PrepareVerdict = "ok" /\ (job.mode = "full_refresh" \/ table.ok)

\* What has been sent is what the rows' conversion makes of the records.
SentOK ==
  /\ Listed(sent) /\ Len(sent) <= Len(job.records)
  /\ \A r \in DOMAIN sent :
       LET row == WireRow(Plan, job.records[r], job.fields)
       IN row.ok /\ sent[r] = row.value

Progress ==
  /\ pc \in {"begin", "prepare", "send", "over"}
  /\ pc # "over" => code = "ok"
  /\ pc \in {"begin", "prepare"} => sent = <<>>
  /\ pc = "prepare" => job.mode = "full_refresh" \/ table.ok
  /\ pc = "send" => Ready /\ SentOK

\* The records, in their order, and nothing else.
AllIn(in) ==
  /\ table.ok /\ Listed(in) /\ DOMAIN in = DOMAIN job.records
  /\ \A k \in DOMAIN in : KeptRow(table.value, job.fields, in[k], job.records[k])

Content ==
  /\ Listed(rows) /\ Listed(before)
  /\ rows # <<>> => table.ok /\ RowsOK(table.value, rows)
  /\ ~Succeeded => rows = before
  /\ first = NotRun => IF Succeeded THEN AllIn(rows) ELSE rows = <<>>
  /\ first # NotRun => AllIn(before)

IInv == Shape /\ Progress /\ Content /\ ValueSurvives /\ CreatedTakesAll /\ MergeConverges

LEMMA InitIs == ASSUME Init PROVE IInv
<1>1. Shape
  BY FamiliesAssumption DEF Init, Shape
<1>2. Progress
  BY DEF Init, Progress
<1>3. Content
  BY NoRows DEF Init, Content, Succeeded
<1>4. ValueSurvives /\ CreatedTakesAll /\ MergeConverges
  BY DEF Init, ValueSurvives, CreatedTakesAll, MergeConverges, Succeeded
<1>. QED
  BY <1>1, <1>2, <1>3, <1>4 DEF IInv

\* A load that is ready writes to a table that fits it.
LEMMA ReadyIs ==
  ASSUME Shape, Ready
  PROVE  /\ WellFormed(job) /\ Plannable(job.fields) /\ Met(table, job)
         /\ Columns = Written(table, job) /\ Fitting(Columns, job)
         /\ Columns = Created(job.fields) \/ (table.ok /\ table = Some(Columns))
         /\ job.mode # "full_refresh" => table.ok /\ Columns = table.value
<1>1. Plannable(job.fields) /\ (table.ok => Validates(table.value, job))
  BY DEF Ready, PrepareVerdict
<1>2. Met(table, job)
  BY <1>1 DEF Shape, Met, Fitting, Some
<1>3. Fitting(Written(table, job), job)
  BY <1>1, <1>2, WrittenFits DEF Shape
<1>. QED
  BY <1>1, <1>2, <1>3 DEF Shape, Ready, Columns, Written, None

\* Once every record is sent, every row sent is a staged record.
LEMMA SentIs ==
  ASSUME Shape, Ready, SentOK, Len(sent) = Len(job.records)
  PROVE  SentAll(table)
<1>1. /\ WellFormed(job) /\ Plannable(job.fields) /\ Met(table, job) /\ Plan = PlanOf(table, job)
  BY ReadyIs DEF Plan
<1>2. Listed(sent) /\ DOMAIN sent = DOMAIN job.records
  BY <1>1, ListedIs DEF SentOK, WellFormed
<1>3. ASSUME NEW r \in DOMAIN sent
      PROVE  StagedRow(job, Written(table, job), Plan, sent[r], job.records[r])
  <2>1. WireRow(Plan, job.records[r], job.fields).ok
        /\ sent[r] = WireRow(Plan, job.records[r], job.fields).value
    BY DEF SentOK
  <2>. QED
    BY <1>1, <1>2, <2>1, RowIs
<1>. QED
  BY <1>1, <1>2, <1>3 DEF SentAll

-----------------------------------------------------------------------------
(* The steps.                                                              *)

\* A step that neither ends the load nor touches a table.
LEMMA StepKeeps ==
  ASSUME IInv, pc # "over", pc' # "over", UNCHANGED <<job, table, rows, before, code, first>>,
         Progress'
  PROVE  IInv'
<1>1. Shape' /\ ~Succeeded /\ ~Succeeded'
  BY DEF IInv, Shape, Succeeded
<1>2. Content'
  BY <1>1 DEF IInv, Content, AllIn
<1>3. ValueSurvives' /\ CreatedTakesAll' /\ MergeConverges'
  BY <1>1, <1>2 DEF Content, ValueSurvives, CreatedTakesAll, MergeConverges
<1>. QED
  BY <1>1, <1>2, <1>3 DEF IInv

\* Why a load of the fields a table was created for may fail.
Excused(why) ==
  table.ok /\ table.value = Created(job.fields) /\ Plannable(job.fields) =>
    \/ why = "duplicate_merge_keys"
    \/ \E r \in DOMAIN job.records, i \in DOMAIN job.fields :
         Unsendable(job.fields[i].type, job.records[r][i])

\* A load that fails leaves the table alone, and has a reason for it.
LEMMA FailKeeps ==
  ASSUME IInv, pc # "over", NEW why, why # "ok", Fails(why), Excused(why)
  PROVE  IInv'
<1>1. Shape' /\ ~Succeeded /\ ~Succeeded' /\ Progress'
  BY DEF IInv, Shape, Progress, Succeeded, Fails
<1>2. Content'
  BY <1>1 DEF IInv, Content, AllIn, Fails
<1>3. ValueSurvives' /\ MergeConverges'
  BY <1>1, <1>2 DEF Content, ValueSurvives, MergeConverges
<1>4. CreatedTakesAll'
  BY DEF CreatedTakesAll, Fails, Excused, Unsendable
<1>. QED
  BY <1>1, <1>2, <1>3, <1>4 DEF IInv

LEMMA BeginKeeps == ASSUME IInv, Begin PROVE IInv'
<1>1. CASE job.mode # "full_refresh" /\ ~table.ok
  <2>1. Fails("destination_write_failed") /\ pc # "over"
    BY <1>1 DEF Begin
  <2>2. Excused("destination_write_failed")
    BY <1>1 DEF Excused
  <2>. QED
    BY <2>1, <2>2, FailKeeps
<1>2. CASE ~(job.mode # "full_refresh" /\ ~table.ok)
  <2>1. /\ pc = "begin" /\ pc' = "prepare" /\ UNCHANGED <<job, table, rows, before, sent, code, first>>
    BY <1>2 DEF Begin
  <2>2. Progress'
    BY <1>2, <2>1 DEF IInv, Progress
  <2>. QED
    BY <2>1, <2>2, StepKeeps
<1>. QED
  BY <1>1, <1>2

LEMMA PrepareKeeps == ASSUME IInv, Prepare PROVE IInv'
<1>1. CASE PrepareVerdict # "ok"
  <2>1. Fails(PrepareVerdict) /\ pc # "over"
    BY <1>1 DEF Prepare
  <2>2. ASSUME table.ok, table.value = Created(job.fields), Plannable(job.fields) PROVE FALSE
    <3>1. Fitting(table.value, job) /\ Readable(table.value)
      BY <2>2, CreatedIs DEF IInv, Shape
    <3>. QED
      BY <1>1, <2>2, <3>1 DEF Fitting, PrepareVerdict
  <2> DEFINE why == PrepareVerdict
  <2>3. why # "ok" /\ Fails(why) /\ Excused(why)
    BY <1>1, <2>1, <2>2 DEF Excused
  <2> HIDE DEF why
  <2>. QED
    BY <2>1, <2>3, FailKeeps
<1>2. CASE PrepareVerdict = "ok"
  <2>1. pc = "prepare" /\ pc' = "send" /\ UNCHANGED <<job, table, rows, before, sent, code, first>>
    BY <1>2 DEF Prepare
  <2>2. Ready'
    BY <1>2, <2>1 DEF IInv, Progress, Ready, PrepareVerdict
  <2>3. SentOK'
    <3>1. sent' = <<>> /\ Listed(job.records')
      BY <2>1 DEF IInv, Progress, Shape, WellFormed
    <3>2. Listed(<<>>) /\ Len(<<>>) = 0 /\ DOMAIN <<>> = {} /\ Len(job.records') \in Nat
      BY <3>1, NoRows, ListedIs
    <3>. QED
      BY <3>1, <3>2 DEF SentOK
  <2>4. Progress'
    BY <2>1, <2>2, <2>3 DEF IInv, Progress
  <2>. QED
    BY <2>1, <2>4, StepKeeps
<1>. QED
  BY <1>1, <1>2

LEMMA SendKeeps == ASSUME IInv, Send PROVE IInv'
<1> DEFINE r == Len(sent) + 1
           row == WireRow(Plan, job.records[r], job.fields)
<1>1. pc = "send" /\ Len(sent) < Len(job.records) /\ Shape /\ Ready /\ SentOK
  BY DEF IInv, Progress, Send
<1>2. /\ DOMAIN sent = 1 .. Len(sent) /\ Len(sent) \in Nat
      /\ DOMAIN job.records = 1 .. Len(job.records) /\ Len(job.records) \in Nat
  BY <1>1, ListedIs DEF Shape, WellFormed, SentOK
<1>3. r \in DOMAIN job.records
  BY <1>1, <1>2
<1>4. CASE ~row.ok \/ TooLong(row.value)
  <2>1. Fails("destination_write_failed")
    BY <1>4 DEF Send
  <2>2. ASSUME table.ok, table.value = Created(job.fields), Plannable(job.fields)
        PROVE  \E i \in DOMAIN job.fields : Unsendable(job.fields[i].type, job.records[r][i])
    <3>1. table = Some(Created(job.fields)) /\ WellFormed(job)
      BY <1>1, <2>2 DEF Shape, None
    <3> HIDE DEF r
    <3>. QED
      BY <1>3, <1>4, <2>2, <3>1, CreatedSends
  <2> HIDE DEF r, row
  <2>3. Excused("destination_write_failed")
    BY <1>3, <2>2 DEF Excused
  <2>. QED
    BY <1>1, <2>1, <2>3, FailKeeps
<1>5. CASE ~(~row.ok \/ TooLong(row.value))
  <2>1. /\ sent' = Append(sent, row.value) /\ row.ok
        /\ UNCHANGED <<job, table, rows, before, pc, code, first>>
    BY <1>5 DEF Send
  <2>2. /\ Listed(sent') /\ Len(sent') = r /\ DOMAIN sent' = 1 .. r
        /\ \A k \in DOMAIN sent : sent'[k] = sent[k]
        /\ sent'[r] = row.value
    <3> HIDE DEF row
    <3>. QED
      BY <1>1, <1>2, <2>1, AppendListed DEF SentOK
  <2>3. Plan' = Plan /\ job' = job
    BY <2>1 DEF Plan
  <2>4. Ready'
    BY <1>1, <2>1 DEF Ready, PrepareVerdict
  <2>5. SentOK'
    <3>1. ASSUME NEW k \in 1 .. r
          PROVE  LET wired == WireRow(Plan, job.records[k], job.fields)
                 IN wired.ok /\ sent'[k] = wired.value
      <4>1. CASE k = r
        BY <2>1, <2>2, <4>1
      <4>2. CASE k # r
        <5>1. k \in DOMAIN sent
          BY <1>2, <4>2
        <5> HIDE DEF r
        <5>. QED
          BY <1>1, <2>2, <5>1 DEF SentOK
      <4>. QED
        BY <4>1, <4>2
    <3>2. r <= Len(job.records)
      BY <1>1, <1>2
    <3> HIDE DEF r, row
    <3>. QED
      BY <2>2, <2>3, <3>1, <3>2 DEF SentOK
  <2>6. Progress'
    BY <1>1, <2>1, <2>4, <2>5 DEF IInv, Progress
  <2>. QED
    BY <1>1, <2>1, <2>6, StepKeeps
<1>. QED
  BY <1>4, <1>5

LEMMA LoadAgainKeeps == ASSUME IInv, LoadAgain PROVE IInv'
<1>1. PICK mode \in Modes : job' = [job EXCEPT !.mode = mode]
  BY DEF LoadAgain
<1>2. /\ pc = "over" /\ code = "ok" /\ first = NotRun
      /\ first' = [code |-> code, mode |-> job.mode]
      /\ before' = rows /\ sent' = <<>> /\ pc' = "begin" /\ UNCHANGED <<table, rows, code>>
  BY DEF LoadAgain
<1>3. /\ job'.fields = job.fields /\ job'.records = job.records /\ job'.keys = job.keys
      /\ WellFormed(job')
  <2>1. job = [fields |-> job.fields, mode |-> job.mode, keys |-> job.keys,
               rounding |-> job.rounding, records |-> job.records]
    BY DEF IInv, Shape, WellFormed
  <2>2. job' = [fields |-> job.fields, mode |-> mode, keys |-> job.keys,
                rounding |-> job.rounding, records |-> job.records]
    BY <1>1, <2>1
  <2>. QED
    BY <2>2 DEF IInv, Shape, WellFormed
<1>4. Shape'
  BY <1>2, <1>3 DEF IInv, Shape
<1>5. Succeeded /\ ~Succeeded' /\ first' # NotRun
  <2>1. first'.code = "ok" /\ NotRun.code = "not_run"
    BY <1>2 DEF NotRun
  <2>. QED
    BY <1>2, <2>1 DEF Succeeded
<1>6. Progress'
  BY <1>2 DEF Progress
<1>7. AllIn(rows)
  BY <1>2, <1>5 DEF IInv, Content
<1>8. AllIn(before)'
  BY <1>2, <1>3, <1>7 DEF AllIn
<1>9. Content'
  BY <1>2, <1>5, <1>8 DEF IInv, Content
<1>10. ValueSurvives' /\ CreatedTakesAll' /\ MergeConverges'
  BY <1>2, <1>5 DEF ValueSurvives, CreatedTakesAll, MergeConverges
<1>. QED
  BY <1>4, <1>6, <1>9, <1>10 DEF IInv

LEMMA LandKeeps == ASSUME IInv, Land PROVE IInv'
<1>1. /\ pc = "send" /\ Len(sent) = Len(job.records) /\ code = "ok"
      /\ Shape /\ Ready /\ SentOK
  BY DEF IInv, Progress, Land
<1>2. ~Succeeded /\ rows = before /\ Listed(rows)
  BY <1>1 DEF IInv, Content, Succeeded
<1>3. /\ WellFormed(job) /\ Plannable(job.fields) /\ Met(table, job) /\ Fitting(Columns, job)
      /\ SentAll(table)
  BY <1>1, ReadyIs, SentIs
<1>4. RowsOK(Columns, rows)
  <2>1. CASE rows = <<>>
    BY <2>1, NoRows DEF RowsOK
  <2>2. CASE rows # <<>>
    BY <2>2 DEF IInv, Content, Columns
  <2>. QED
    BY <2>1, <2>2
<1>5. CASE job.mode = "merge" /\ DuplicateKeys(Plan, sent, KeysOf(job))
  <2>1. Fails("duplicate_merge_keys") /\ Excused("duplicate_merge_keys")
    BY <1>5 DEF Land, Excused
  <2>. QED
    BY <1>1, <2>1, FailKeeps
<1>6. CASE /\ ~(job.mode = "merge" /\ DuplicateKeys(Plan, sent, KeysOf(job)))
           /\ \E r \in DOMAIN Outcome : ~Outcome[r].ok
  <2>1. Fails("destination_write_failed")
    BY <1>6 DEF Land
  <2>2. ASSUME table.ok, table.value = Created(job.fields) PROVE FALSE
    <3>1. table = Some(Created(job.fields))
      BY <1>1, <2>2 DEF Shape, None
    <3>. QED
      BY <1>2, <1>3, <1>6, <3>1, CreatedLands
  <2>3. Excused("destination_write_failed")
    BY <2>2 DEF Excused
  <2>. QED
    BY <1>1, <2>1, <2>3, FailKeeps
<1>7. CASE /\ ~(job.mode = "merge" /\ DuplicateKeys(Plan, sent, KeysOf(job)))
           /\ \A r \in DOMAIN Outcome : Outcome[r].ok
  <2>1. /\ rows' = Landed /\ table' = Some(Columns) /\ pc' = "over"
        /\ UNCHANGED <<job, before, sent, code, first>>
    BY <1>7 DEF Land, Landed
  <2>2. table'.ok /\ table'.value = Columns /\ Succeeded'
    BY <1>1, <2>1 DEF Some, Succeeded
  <2>3. \A r \in DOMAIN Outcome : Outcome[r].ok
    BY <1>7
  <2>4. job.mode = "merge" => ~DuplicateKeys(Plan, sent, job.keys)
    BY <1>7 DEF KeysOf
  <2>5. RowsOK(Columns, Landed) /\ Listed(Landed)
    BY <1>3, <1>4, <2>3, <2>4, PlainLands, MergeLands DEF RowsOK
  <2>6. Shape'
    BY <1>3, <2>1, <2>2 DEF Shape, Fitting
  <2>7. Progress'
    BY <1>1, <2>1 DEF Progress
  <2>8. ASSUME first = NotRun PROVE AllIn(rows)'
    <3>1. rows = <<>>
      BY <1>2, <2>8 DEF IInv, Content
    <3>2. /\ DOMAIN Landed = DOMAIN job.records
          /\ \A r \in DOMAIN job.records :
               KeptRow(Columns, job.fields, Landed[r], job.records[r])
      <4>1. CASE job.mode = "merge"
        BY <1>3, <1>4, <2>3, <2>4, <3>1, <4>1, MergeLands
      <4>2. CASE job.mode # "merge"
        <5>1. Len(Base) = 0
          BY <3>1, NoRows DEF Base
        <5>2. /\ Len(Landed) = Len(Base) + Len(job.records) /\ Len(job.records) \in Nat
              /\ \A r \in DOMAIN job.records :
                   KeptRow(Columns, job.fields, Landed[Len(Base) + r], job.records[r])
          BY <1>3, <1>4, <2>3, <4>2, PlainLands
        <5>3. /\ DOMAIN Landed = 1 .. Len(Landed)
              /\ DOMAIN job.records = 1 .. Len(job.records)
          BY <1>3, <2>5, ListedIs DEF WellFormed
        <5>4. Len(Landed) = Len(job.records) /\ \A r \in DOMAIN job.records : Len(Base) + r = r
          BY <5>1, <5>2, <5>3
        <5>. QED
          BY <5>2, <5>3, <5>4
      <4>. QED
        BY <4>1, <4>2
    <3>. QED
      BY <2>1, <2>2, <2>5, <3>2 DEF AllIn
  <2>9. ASSUME first # NotRun
        PROVE  AllIn(before)' /\ AllIn(rows) /\ table = Some(Columns) /\ Columns = table.value
    <3>1. AllIn(before)
      BY <2>9 DEF IInv, Content
    <3>2. table = Some(Columns) /\ Columns = table.value
      BY <1>1, <3>1 DEF AllIn, Columns, Shape, None
    <3>. QED
      BY <1>2, <2>1, <2>2, <3>1, <3>2 DEF AllIn
  <2>10. Content'
    BY <1>2, <2>1, <2>2, <2>5, <2>8, <2>9 DEF IInv, Content
  <2>11. CreatedTakesAll'
    BY <1>1, <2>1 DEF CreatedTakesAll
  <2>12. MergeConverges'
    <3> SUFFICES ASSUME job.mode = "merge", first # NotRun, ~RoundedKey'
                 PROVE  Landed = rows
      BY <1>2, <2>1 DEF MergeConverges
    <3>1. \A key \in job.keys : ~Rounds(Columns[Position(Columns, key)])
      BY <2>1, <2>2 DEF RoundedKey
    <3>2. /\ DOMAIN rows = DOMAIN job.records
          /\ \A k \in DOMAIN rows : KeptRow(Columns, job.fields, rows[k], job.records[k])
      BY <2>9 DEF AllIn
    <3>. QED
      BY <1>3, <1>4, <2>3, <2>4, <3>1, <3>2, MergeAgain
  <2>13. ValueSurvives'
    <3>1. CASE job.mode = "merge"
      <4>1. /\ \A r \in DOMAIN job.records :
                 \E k \in DOMAIN Landed : RowCarries(job, Columns, Landed[k], job.records[r])
            /\ \A k \in DOMAIN rows :
                 \/ Landed[k] = rows[k]
                 \/ \E r \in DOMAIN job.records : RowCarries(job, Columns, Landed[k], job.records[r])
        BY <1>3, <1>4, <2>3, <2>4, <3>1, MergeLands
      <4>2. MergeSurvives'
        BY <1>2, <2>1, <2>2, <4>1 DEF MergeSurvives
      <4>. QED
        BY <2>1, <2>2, <3>1, <4>2 DEF ValueSurvives
    <3>2. CASE job.mode # "merge"
      <4>1. /\ Len(Landed) = Len(Base) + Len(job.records)
            /\ RowsOK(Columns, Base) /\ \A k \in DOMAIN Base : Landed[k] = Base[k]
            /\ Len(job.records) \in Nat
            /\ \A r \in DOMAIN job.records :
                 KeptRow(Columns, job.fields, Landed[Len(Base) + r], job.records[r])
        BY <1>3, <1>4, <2>3, <3>2, PlainLands
      <4>2. KeptRows' = Base
        <5>1. job.mode \in {"full_refresh", "append"}
          BY <1>3, <3>2 DEF WellFormed, Modes
        <5>. QED
          BY <1>2, <2>1, <5>1 DEF KeptRows, Base
      <4>3. \A r \in DOMAIN job.records :
              RowCarries(job, Columns, Landed[Len(Base) + r], job.records[r])
        BY <1>3, <4>1, KeptHolds
      <4>4. IsPrefix(Base, Landed)
        BY <2>5, <4>1, PrefixOf DEF RowsOK
      <4>5. InsertsSurvive'
        BY <2>1, <2>2, <4>1, <4>2, <4>3, <4>4 DEF InsertsSurvive
      <4>. QED
        BY <2>1, <2>2, <3>2, <4>5 DEF ValueSurvives
    <3>. QED
      BY <3>1, <3>2
  <2>. QED
    BY <2>6, <2>7, <2>10, <2>11, <2>12, <2>13 DEF IInv
<1>. QED
  BY <1>5, <1>6, <1>7

LEMMA StutterKeeps == ASSUME IInv, UNCHANGED vars PROVE IInv'
<1>1. /\ job' = job /\ table' = table /\ rows' = rows /\ before' = before
      /\ sent' = sent /\ pc' = pc /\ code' = code /\ first' = first
  BY DEF vars
<1>2. Shape'
  BY <1>1 DEF IInv, Shape
<1>3. Progress'
  BY <1>1 DEF IInv, Progress, Ready, PrepareVerdict, SentOK, Plan
<1>4. Content'
  BY <1>1 DEF IInv, Content, Succeeded, AllIn
<1>5. ValueSurvives'
  BY <1>1 DEF IInv, ValueSurvives, Succeeded, MergeSurvives, InsertsSurvive, KeptRows
<1>6. CreatedTakesAll'
  BY <1>1 DEF IInv, CreatedTakesAll
<1>7. MergeConverges'
  BY <1>1 DEF IInv, MergeConverges, Succeeded, RoundedKey
<1>. QED
  BY <1>2, <1>3, <1>4, <1>5, <1>6, <1>7 DEF IInv

-----------------------------------------------------------------------------
(* The theorems.                                                           *)

\* The invariant holds throughout: a job and its table keep their shape, what
\* was sent is what the rows' conversion makes of the records, and a first load
\* that succeeds leaves its records alone in the table, in their order.
THEOREM SqlServerTableInvariant == Spec => []IInv
<1>1. Init => IInv
  BY InitIs
<1>2. IInv /\ [Next]_vars => IInv'
  <2> SUFFICES ASSUME IInv, [Next]_vars PROVE IInv'
    OBVIOUS
  <2>1. CASE Begin
    BY <2>1, BeginKeeps
  <2>2. CASE Prepare
    BY <2>2, PrepareKeeps
  <2>3. CASE Send
    BY <2>3, SendKeeps
  <2>4. CASE Land
    BY <2>4, LandKeeps
  <2>5. CASE LoadAgain
    BY <2>5, LoadAgainKeeps
  <2>6. CASE UNCHANGED vars
    BY <2>6, StutterKeeps
  <2>. QED
    BY <2>1, <2>2, <2>3, <2>4, <2>5, <2>6 DEF Next
<1>. QED
  BY <1>1, <1>2, PTL DEF Spec

\* Every record of a load that succeeds is in the table with every value it had,
\* rounded only where rounding was signed for and to half a tick; append and
\* merge keep the other rows, and a load that fails keeps all.
THEOREM SqlServerTableValueSurvives == Spec => []ValueSurvives
<1>1. IInv => ValueSurvives
  BY DEF IInv
<1>. QED
  BY <1>1, SqlServerTableInvariant, PTL

\* A table in the shape a full refresh creates takes, in every later load of the
\* same fields, all that the driver can send.
THEOREM SqlServerTableCreatedTakesAll == Spec => []CreatedTakesAll
<1>1. IInv => CreatedTakesAll
  BY DEF IInv
<1>. QED
  BY <1>1, SqlServerTableInvariant, PTL

\* Merging the records that are in the table changes nothing and inserts none,
\* unless a key column rounds.
THEOREM SqlServerTableMergeConverges == Spec => []MergeConverges
<1>1. IInv => MergeConverges
  BY DEF IInv
<1>. QED
  BY <1>1, SqlServerTableInvariant, PTL

=============================================================================
