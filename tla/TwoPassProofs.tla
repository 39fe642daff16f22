----------------------------- MODULE TwoPassProofs -----------------------------
(***************************************************************************)
(* Theorems about TwoPass, for either format, files of any length, chunks  *)
(* of any size, and any number of edits, read failures and sink failures.  *)
(***************************************************************************)
EXTENDS TwoPass, FiniteSetTheorems, TLAPS

-----------------------------------------------------------------------------
(* Ranks.                                                                  *)

\* A rank that tells the members of a finite set apart takes every value from
\* 1 to their number.
LEMMA Ranking ==
  ASSUME NEW D, IsFiniteSet(D), NEW rank \in [D -> 1 .. Cardinality(D)],
         \A x, y \in D : rank[x] = rank[y] => x = y
  PROVE  \A n \in 1 .. Cardinality(D) : \E x \in D : rank[x] = n
<1> DEFINE T == 1 .. Cardinality(D)
<1>1. Cardinality(D) \in Nat
  BY FS_CardinalityType
<1>2. IsFiniteSet(T) /\ Cardinality(T) = Cardinality(D)
  BY <1>1, FS_Interval
<1> HIDE DEF T
<1>3. rank \in [D -> T]
  BY DEF T
<1>4. rank \in Injection(D, T)
  BY <1>3 DEF Injection, IsInjective
<1>5. rank \in Surjection(D, T)
  BY <1>2, <1>4, FS_Injection
<1>. QED
  BY <1>5 DEF Surjection, T

-----------------------------------------------------------------------------
AnyKind == {"good", "odd", "wide", "bad", "broken", "blank"}
Rows == [line : Nat, kind : AnyKind]
Entries == [line : Nat, origin : {"parse", "validation"}]
Expectations ==
  [rejected : SUBSET Nat, records : Nat, log : Seq(AnyKind), header : {0, 1}]

TypeOK ==
  /\ format \in {"csv", "jsonl"}
  /\ file \in Seq(AnyKind) /\ header \in {0, 1} /\ verdictOk \in BOOLEAN
  /\ edits \in Nat /\ readFaults \in Nat /\ sinkFaults \in Nat
  /\ pc \in {"pass1", "failed", "stream", "over"}
  /\ log \in Seq(AnyKind) /\ dead \in BOOLEAN /\ count \in Nat
  /\ sinkLines \in Seq(Nat) /\ sinkCount \in Nat /\ artifact \in Seq(Entries)
  /\ sinkError \in BOOLEAN
  /\ spill \in Seq(Nat) /\ spillError \in BOOLEAN
  /\ expect \in Expectations
  /\ phase \in {"NotStarted", "Streaming", "FinalCheck", "Done"}
  /\ pulling \in BOOLEAN
  /\ survivors \in Seq(Rows) /\ chunks \in Seq(Seq(Rows))
  /\ streamEnd \in {"open", "ended", "failed"}

-----------------------------------------------------------------------------
(* The parts of the inductive invariant.                                   *)

\* The chunk stream moves only in a pull, a pull only while the load streams,
\* and a stream that has not started or has ended holds nothing back.
StandInv ==
  /\ pulling => pc = "stream"
  /\ pc \in {"pass1", "failed"} =>
       expect = NoExpectations /\ phase = "NotStarted"
  /\ phase = "NotStarted" => chunks = <<>> /\ streamEnd = "open"
  /\ phase = "Done" <=> streamEnd # "open"
  /\ phase # "Streaming" => survivors = <<>>

\* The rows that pass 2 made of the survivors it read so far.
ReadRows == { [line |-> n, kind |-> log[n]] : n \in LinesOf(log, Survivor) }

\* What is delivered or held back is what pass 2 read, none of it rejected in
\* pass 1; and what a clean end delivered is what pass 1 let through.
RowsInv ==
  /\ phase \in {"Streaming", "FinalCheck"} =>
       Delivered \union ToSet(survivors) = ReadRows
  /\ \A row \in Delivered \union ToSet(survivors) :
       row.line \notin expect.rejected
  /\ streamEnd = "ended" => Delivered = PassOneSurvivors

\* The chunk being filled comes after the chunks delivered, and is short.
ShapeInv ==
  /\ InSourceOrder(Append(chunks, survivors))
  /\ \A k \in DOMAIN chunks :
       /\ Len(chunks[k]) <= ChunkRows
       /\ k < Len(chunks) => Len(chunks[k]) = ChunkRows
       /\ chunks[k] = <<>> => Len(chunks) = 1
  /\ Len(survivors) < ChunkRows
  /\ phase = "Streaming" => \A k \in DOMAIN chunks : Len(chunks[k]) = ChunkRows
  /\ phase = "FinalCheck" \/ streamEnd = "ended" => chunks # <<>>

Ascending(lines) == \A k, m \in DOMAIN lines : k < m => lines[k] < lines[m]
LineOf(entries) == [k \in DOMAIN entries |-> entries[k].line]

\* The kinds of line that pass 1 hands to the sink itself.
Recorded ==
  IF format = "csv" /\ verdictOk THEN {"broken", "bad"} ELSE {"broken"}

\* The kinds of line that pass 1 spills.
SpilledKinds == IF format = "csv" THEN {} ELSE {"bad"}

\* Each rejection that was met is noted, in source order, in the sink or in
\* the spill; and until a write fails the artifact holds what the sink noted.
Noted ==
  /\ ~dead
  /\ Ascending(sinkLines) /\ ToSet(sinkLines) = LinesOf(log, Recorded)
  /\ Ascending(spill) /\ ToSet(spill) = LinesOf(log, SpilledKinds)
  /\ sinkCount = Len(sinkLines)
  /\ ~sinkError => LineOf(artifact) = sinkLines
  /\ ~sinkError /\ ~(format = "csv" /\ verdictOk) =>
       \A k \in DOMAIN artifact : artifact[k].origin = "parse"

\* So it is throughout a pass 1 that reads without a fault.
NotedInv ==
  /\ pc = "pass1" /\ readFaults = 0 => Noted
  /\ sinkFaults = 0 => ~sinkError /\ ~spillError

\* After a verdict the artifact is the whole of what was rejected: of parse
\* rejections if the verdict failed, of all if it passed.
ArtifactInv ==
  pc # "pass1" /\ readFaults = 0 /\ ~sinkError =>
    /\ Ascending(LineOf(artifact)) /\ Len(artifact) = sinkCount
    /\ \/ /\ pc # "stream" /\ expect = NoExpectations
          /\ \A k \in DOMAIN artifact : artifact[k].origin = "parse"
       \/ /\ pc # "failed" /\ expect.rejected = Rejections(expect.log)
          /\ ToSet(LineOf(artifact)) = expect.rejected

Record == AnyKind \ {"blank"}
Quiet == edits = 0 /\ readFaults = 0 /\ sinkFaults = 0

\* The pass has read a prefix of the file and counted its records.
ReadsFile ==
  /\ ~dead
  /\ Len(log) <= Len(file) /\ \A n \in 1 .. Len(log) : log[n] = file[n]
  /\ count = Cardinality(LinesOf(log, Record))

\* Pass 1 expects what the file holds.
ExpectsFile ==
  /\ expect.log = file /\ expect.header = 1
  /\ expect.records = Cardinality(LinesOf(file, Record))

\* So it is while nothing is edited and nothing fails.
QuietInv ==
  Quiet =>
    /\ streamEnd # "failed" /\ header = 1
    /\ ReadsFile
    /\ pc = "stream" => ExpectsFile
    /\ phase = "FinalCheck" => log = file

IInv ==
  /\ TypeOK /\ StandInv /\ RowsInv /\ ShapeInv
  /\ NotedInv /\ ArtifactInv /\ QuietInv
-----------------------------------------------------------------------------
(* What the operators of the model give.                                   *)

LEMMA LinesAre ==
  ASSUME NEW lines \in Seq(AnyKind), NEW kinds
  PROVE  /\ LinesOf(lines, kinds) \subseteq 1 .. Len(lines)
         /\ IsFiniteSet(LinesOf(lines, kinds))
         /\ Cardinality(LinesOf(lines, kinds)) \in Nat
<1>1. LinesOf(lines, kinds) \subseteq 1 .. Len(lines)
  BY DEF LinesOf
<1>2. IsFiniteSet(1 .. Len(lines))
  BY FS_Interval
<1>3. IsFiniteSet(LinesOf(lines, kinds))
  BY <1>1, <1>2, FS_Subset
<1>. QED
  BY <1>1, <1>3, FS_CardinalityType

\* One more line of a kind that counts, or of one that does not.
LEMMA LinesAppend ==
  ASSUME NEW lines \in Seq(AnyKind), NEW kind \in AnyKind, NEW kinds
  PROVE  /\ kind \in kinds =>
              /\ LinesOf(Append(lines, kind), kinds) =
                   LinesOf(lines, kinds) \union {Len(lines) + 1}
              /\ Cardinality(LinesOf(Append(lines, kind), kinds)) =
                   Cardinality(LinesOf(lines, kinds)) + 1
         /\ kind \notin kinds =>
              LinesOf(Append(lines, kind), kinds) = LinesOf(lines, kinds)
<1> DEFINE more == Append(lines, kind)
<1>1. /\ Len(more) = Len(lines) + 1 /\ more[Len(lines) + 1] = kind
      /\ \A n \in 1 .. Len(lines) : more[n] = lines[n]
      /\ 1 .. Len(more) = 1 .. Len(lines) \union {Len(lines) + 1}
      /\ Len(lines) + 1 \notin 1 .. Len(lines)
  OBVIOUS
<1> HIDE DEF more
<1>2. ASSUME kind \in kinds
      PROVE  LinesOf(more, kinds) = LinesOf(lines, kinds) \union {Len(lines) + 1}
  BY <1>1, <1>2 DEF LinesOf
<1>3. ASSUME kind \notin kinds PROVE LinesOf(more, kinds) = LinesOf(lines, kinds)
  BY <1>1, <1>3 DEF LinesOf
<1>4. IsFiniteSet(LinesOf(lines, kinds)) /\ Len(lines) + 1 \notin LinesOf(lines, kinds)
  BY <1>1, LinesAre
<1>5. ASSUME kind \in kinds
      PROVE  Cardinality(LinesOf(more, kinds)) = Cardinality(LinesOf(lines, kinds)) + 1
  BY <1>2, <1>4, <1>5, FS_AddElement
<1>. QED
  BY <1>2, <1>3, <1>5 DEF more

LEMMA ToSetAppend ==
  ASSUME NEW S, NEW s \in Seq(S), NEW e
  PROVE  ToSet(Append(s, e)) = ToSet(s) \union {e}
<1>1. /\ DOMAIN Append(s, e) = DOMAIN s \union {Len(s) + 1}
      /\ Append(s, e)[Len(s) + 1] = e
      /\ \A n \in DOMAIN s : Append(s, e)[n] = s[n]
  OBVIOUS
<1>. QED
  BY <1>1 DEF ToSet

LEMMA ToSetEmpty == ToSet(<<>>) = {}
BY DEF ToSet

LEMMA AppendIs ==
  ASSUME NEW s \in Seq(Seq(Rows)), NEW e
  PROVE  /\ DOMAIN Append(s, e) = DOMAIN s \union {Len(s) + 1}
         /\ Len(Append(s, e)) = Len(s) + 1 /\ Append(s, e) # <<>>
         /\ Append(s, e)[Len(s) + 1] = e
         /\ \A k \in DOMAIN s : Append(s, e)[k] = s[k]
OBVIOUS

\* The rows of all chunks when one more goes out.
LEMMA UnionAppend ==
  ASSUME NEW batches \in Seq(Seq(Rows)), NEW batch
  PROVE  UNION { ToSet(Append(batches, batch)[k]) : k \in DOMAIN Append(batches, batch) } =
           (UNION { ToSet(batches[k]) : k \in DOMAIN batches }) \union ToSet(batch)
<1>1. /\ DOMAIN Append(batches, batch) = DOMAIN batches \union {Len(batches) + 1}
      /\ Append(batches, batch)[Len(batches) + 1] = batch
      /\ \A k \in DOMAIN batches : Append(batches, batch)[k] = batches[k]
  OBVIOUS
<1> DEFINE more == Append(batches, batch)
<1> HIDE DEF more
<1>2. { ToSet(more[k]) : k \in DOMAIN more } =
        { ToSet(batches[k]) : k \in DOMAIN batches } \union {ToSet(batch)}
  BY <1>1 DEF more
<1>3. UNION { ToSet(more[k]) : k \in DOMAIN more } =
        (UNION { ToSet(batches[k]) : k \in DOMAIN batches }) \union ToSet(batch)
  <2> DEFINE T == { ToSet(batches[k]) : k \in DOMAIN batches }
             rows == ToSet(batch)
  <2> HIDE DEF T, rows
  <2>1. UNION (T \union {rows}) = (UNION T) \union rows
    OBVIOUS
  <2>. QED
    BY <1>2, <2>1 DEF T, rows
<1>. QED
  BY <1>3 DEF more

\* A row after all others joins the chunk being filled.
LEMMA OrderGrows ==
  ASSUME NEW batches \in Seq(Seq(Rows)), NEW batch \in Seq(Rows), NEW row \in Rows,
         InSourceOrder(Append(batches, batch)),
         \A k \in DOMAIN batches : \A i \in DOMAIN batches[k] : batches[k][i].line < row.line,
         \A i \in DOMAIN batch : batch[i].line < row.line
  PROVE  InSourceOrder(Append(batches, Append(batch, row)))
<1> DEFINE old == Append(batches, batch)
           new == Append(batches, Append(batch, row))
           top == Len(batches) + 1
<1>1. /\ DOMAIN old = DOMAIN batches \union {top} /\ DOMAIN new = DOMAIN old
      /\ old[top] = batch /\ new[top] = Append(batch, row)
      /\ \A k \in DOMAIN batches : old[k] = batches[k] /\ new[k] = batches[k] /\ k < top
      /\ top \in Nat /\ DOMAIN batches \subseteq Nat
  OBVIOUS
<1>2. /\ DOMAIN Append(batch, row) = DOMAIN batch \union {Len(batch) + 1}
      /\ Append(batch, row)[Len(batch) + 1] = row
      /\ \A i \in DOMAIN batch : Append(batch, row)[i] = batch[i] /\ i < Len(batch) + 1
      /\ Len(batch) + 1 \in Nat /\ DOMAIN batch \subseteq Nat
  OBVIOUS
<1> HIDE DEF old, new, top
<1>3. \A k, l \in DOMAIN old :
        \A i \in DOMAIN old[k], j \in DOMAIN old[l] :
          k < l \/ (k = l /\ i < j) => old[k][i].line < old[l][j].line
  BY DEF InSourceOrder, old
<1> SUFFICES ASSUME NEW k \in DOMAIN new, NEW l \in DOMAIN new,
                    NEW i \in DOMAIN new[k], NEW j \in DOMAIN new[l],
                    k < l \/ (k = l /\ i < j)
             PROVE  new[k][i].line < new[l][j].line
  BY DEF InSourceOrder, new
<1>4. CASE l \in DOMAIN batches
  <2>1. k \in DOMAIN batches
    BY <1>1, <1>4
  <2>. QED
    BY <1>1, <1>3, <1>4, <2>1
<1>5. CASE l = top /\ j \in DOMAIN batch
  <2>1. new[l][j] = old[l][j] /\ j \in DOMAIN old[l]
    BY <1>1, <1>2, <1>5
  <2>2. CASE k \in DOMAIN batches
    BY <1>1, <1>3, <1>5, <2>1, <2>2
  <2>3. CASE k = top
    <3>1. i < j
      BY <1>1, <1>5, <2>3
    <3>2. i \in DOMAIN batch
      BY <1>1, <1>2, <1>5, <2>3, <3>1
    <3>. QED
      BY <1>1, <1>2, <1>3, <1>5, <2>1, <2>3, <3>1, <3>2, SMTT(30)
  <2>. QED
    BY <1>1, <2>2, <2>3
<1>6. CASE l = top /\ j = Len(batch) + 1
  <2>1. new[l][j] = row
    BY <1>1, <1>2, <1>6
  <2>2. CASE k \in DOMAIN batches
    BY <1>1, <2>1, <2>2
  <2>3. CASE k = top
    <3>1. i < j
      BY <1>1, <1>6, <2>3
    <3>2. i \in DOMAIN batch
      BY <1>1, <1>2, <1>6, <2>3, <3>1
    <3>. QED
      BY <1>1, <1>2, <2>1, <2>3, <3>2
  <2>. QED
    BY <1>1, <2>2, <2>3
<1>. QED
  BY <1>1, <1>2, <1>4, <1>5, <1>6

\* A chunk goes out, or is dropped, and an empty one is begun.
LEMMA OrderRestarts ==
  ASSUME NEW batches \in Seq(Seq(Rows)), NEW batch \in Seq(Rows),
         InSourceOrder(Append(batches, batch))
  PROVE  /\ InSourceOrder(batches)
         /\ InSourceOrder(Append(batches, <<>>))
         /\ InSourceOrder(Append(Append(batches, batch), <<>>))
<1>1. ASSUME NEW all \in Seq(Seq(Rows)), InSourceOrder(all)
      PROVE  InSourceOrder(Append(all, <<>>))
  <2>1. /\ DOMAIN Append(all, <<>>) = DOMAIN all \union {Len(all) + 1}
        /\ Append(all, <<>>)[Len(all) + 1] = <<>>
        /\ \A k \in DOMAIN all : Append(all, <<>>)[k] = all[k]
        /\ DOMAIN <<>> = {}
    OBVIOUS
  <2>. QED
    BY <1>1, <2>1 DEF InSourceOrder
<1>2. InSourceOrder(batches)
  <2>1. /\ DOMAIN batches \subseteq DOMAIN Append(batches, batch)
        /\ \A k \in DOMAIN batches : Append(batches, batch)[k] = batches[k]
    OBVIOUS
  <2>. QED
    BY <2>1 DEF InSourceOrder
<1>3. Append(batches, batch) \in Seq(Seq(Rows))
  OBVIOUS
<1>. QED
  BY <1>1, <1>2, <1>3

\* A line after all others joins an ascending list.
LEMMA AscendingAppend ==
  ASSUME NEW s \in Seq(Nat), NEW n \in Nat, Ascending(s), \A m \in ToSet(s) : m < n
  PROVE  Ascending(Append(s, n))
<1>1. /\ DOMAIN Append(s, n) = DOMAIN s \union {Len(s) + 1}
      /\ Append(s, n)[Len(s) + 1] = n
      /\ \A k \in DOMAIN s : Append(s, n)[k] = s[k] /\ k < Len(s) + 1
      /\ DOMAIN s \subseteq Nat /\ Len(s) \in Nat
  OBVIOUS
<1>2. \A k \in DOMAIN s : s[k] < n
  BY DEF ToSet
<1>. QED
  BY <1>1, <1>2 DEF Ascending

LEMMA LineOfIs ==
  ASSUME NEW entries \in Seq(Entries)
  PROVE  /\ LineOf(entries) \in Seq(Nat) /\ Len(LineOf(entries)) = Len(entries)
         /\ DOMAIN LineOf(entries) = DOMAIN entries
         /\ \A k \in DOMAIN entries : LineOf(entries)[k] = entries[k].line
         /\ ToSet(LineOf(entries)) = { entries[k].line : k \in DOMAIN entries }
<1>1. \A k \in DOMAIN entries : entries[k].line \in Nat
  <2>1. \A k \in DOMAIN entries : entries[k] \in Entries
    OBVIOUS
  <2>. QED
    BY <2>1 DEF Entries
<1>. QED
  BY <1>1 DEF LineOf, ToSet

LEMMA LineOfAppend ==
  ASSUME NEW entries \in Seq(Entries), NEW entry \in Entries
  PROVE  LineOf(Append(entries, entry)) = Append(LineOf(entries), entry.line)
<1>1. Append(entries, entry) \in Seq(Entries)
  OBVIOUS
<1>2. /\ LineOf(entries) \in Seq(Nat) /\ Len(LineOf(entries)) = Len(entries)
      /\ \A k \in 1 .. Len(entries) : LineOf(entries)[k] = entries[k].line
  BY LineOfIs
<1>3. /\ LineOf(Append(entries, entry)) \in Seq(Nat)
      /\ Len(LineOf(Append(entries, entry))) = Len(Append(entries, entry))
      /\ \A k \in DOMAIN Append(entries, entry) :
           LineOf(Append(entries, entry))[k] = Append(entries, entry)[k].line
  BY <1>1, LineOfIs, Zenon
<1>4. /\ Len(Append(entries, entry)) = Len(entries) + 1
      /\ DOMAIN Append(entries, entry) = 1 .. Len(entries) + 1
      /\ Append(entries, entry)[Len(entries) + 1] = entry
      /\ \A k \in 1 .. Len(entries) : Append(entries, entry)[k] = entries[k]
  OBVIOUS
<1>5. entry.line \in Nat
  BY DEF Entries
<1> DEFINE lines == LineOf(entries)
           more == LineOf(Append(entries, entry))
<1>6. /\ more \in Seq(Nat) /\ Len(more) = Len(lines) + 1
      /\ more[Len(lines) + 1] = entry.line /\ lines \in Seq(Nat)
      /\ \A k \in 1 .. Len(lines) : more[k] = lines[k]
  <2> DEFINE all == Append(entries, entry)
  <2>1. /\ more \in Seq(Nat) /\ Len(more) = Len(all)
        /\ \A k \in DOMAIN all : more[k] = all[k].line
    BY <1>3
  <2>2. /\ lines \in Seq(Nat) /\ Len(lines) = Len(entries)
        /\ \A k \in 1 .. Len(entries) : lines[k] = entries[k].line
    BY <1>2
  <2>3. Len(entries) \in Nat
    OBVIOUS
  <2> HIDE DEF all, lines, more
  <2>4. /\ Len(all) = Len(entries) + 1 /\ DOMAIN all = 1 .. Len(entries) + 1
        /\ all[Len(entries) + 1] = entry
        /\ \A k \in 1 .. Len(entries) : all[k] = entries[k]
    BY <1>4 DEF all
  <2>5. /\ Len(entries) + 1 \in DOMAIN all
        /\ \A k \in 1 .. Len(entries) : k \in DOMAIN all
    BY <2>3, <2>4
  <2>6. more[Len(lines) + 1] = entry.line
    BY <2>1, <2>2, <2>4, <2>5
  <2>7. ASSUME NEW k \in 1 .. Len(lines) PROVE more[k] = lines[k]
    <3>1. k \in 1 .. Len(entries)
      BY <2>2
    <3>. QED
      BY <2>1, <2>2, <2>4, <2>5, <3>1
  <2>. QED
    BY <2>1, <2>2, <2>4, <2>6, <2>7
<1> HIDE DEF lines, more
<1>7. more = Append(lines, entry.line)
  BY <1>5, <1>6
<1>. QED
  BY <1>7 DEF lines, more

\* The entries come out of the interleaving each once, and in ascending order
\* if no two are of one line.
LEMMA InterleavedResult ==
  ASSUME NEW entries \in Seq(Entries)
  PROVE  /\ Interleaved(entries) \in Seq(Entries)
         /\ Len(Interleaved(entries)) = Len(entries)
         /\ ToSet(LineOf(Interleaved(entries))) = ToSet(LineOf(entries))
         /\ (\A m, n \in DOMAIN entries : m # n => entries[m].line # entries[n].line)
              => Ascending(LineOf(Interleaved(entries)))
<1> DEFINE D == DOMAIN entries
           before(m, n) == \/ entries[m].line < entries[n].line
                           \/ entries[m].line = entries[n].line /\ m <= n
           upto(n) == { m \in D : before(m, n) }
           place == [n \in D |-> Place(entries, n)]
           at(k) == CHOOSE n \in D : Place(entries, n) = k
<1>1. /\ D = 1 .. Len(entries) /\ Len(entries) \in Nat
      /\ \A n \in D : entries[n] \in Entries /\ entries[n].line \in Nat
  <2>1. \A n \in D : entries[n] \in Entries
    OBVIOUS
  <2>. QED
    BY <2>1 DEF Entries
<1>2. IsFiniteSet(D) /\ Cardinality(D) = Len(entries)
  <2>1. IsFiniteSet(1 .. Len(entries)) /\ Cardinality(1 .. Len(entries)) = Len(entries)
    <3>1. Len(entries) \in Int /\ (1 > Len(entries) => Len(entries) = 0)
      OBVIOUS
    <3>. QED
      BY <3>1, FS_Interval
  <2>. QED
    BY <1>1, <2>1
<1>3. ASSUME NEW n \in D PROVE Place(entries, n) = Cardinality(upto(n))
  BY DEF Place
<1>4. ASSUME NEW n \in D
      PROVE  IsFiniteSet(upto(n)) /\ Cardinality(upto(n)) \in 1 .. Cardinality(D)
  <2>1. upto(n) \subseteq D /\ n \in upto(n)
    BY <1>1
  <2> HIDE DEF upto
  <2>2. IsFiniteSet(upto(n)) /\ Cardinality(upto(n)) <= Cardinality(D)
    BY <1>2, <2>1, FS_Subset
  <2>3. Cardinality(upto(n)) \in Nat /\ Cardinality(upto(n)) # 0
    BY <2>1, <2>2, FS_CardinalityType, FS_EmptySet
  <2>. QED
    BY <1>1, <1>2, <2>2, <2>3
<1>5. ASSUME NEW m \in D, NEW n \in D, before(m, n), m # n
      PROVE  Place(entries, m) < Place(entries, n)
  <2>1. upto(m) \subseteq upto(n) /\ n \in upto(n) /\ n \notin upto(m)
    BY <1>1, <1>5
  <2> HIDE DEF upto, before
  <2>2. Cardinality(upto(m)) <= Cardinality(upto(n))
    BY <1>4, <2>1, FS_Subset
  <2>3. Cardinality(upto(m)) # Cardinality(upto(n))
    BY <1>4, <2>1, FS_Subset
  <2>. QED
    BY <1>1, <1>2, <1>3, <1>4, <2>2, <2>3
<1>6. place \in [D -> 1 .. Cardinality(D)]
  BY <1>3, <1>4
<1>7. ASSUME NEW m \in D, NEW n \in D, Place(entries, m) = Place(entries, n) PROVE m = n
  <2>1. Place(entries, m) \in Int
    <3> HIDE DEF upto, D
    <3>. QED
      BY <1>2, <1>3, <1>4
  <2>2. before(m, n) \/ before(n, m)
    BY <1>1
  <2> HIDE DEF before
  <2>. QED
    BY <1>5, <1>7, <2>1, <2>2
<1>8. \A k \in 1 .. Len(entries) : \E n \in D : Place(entries, n) = k
  <2>1. \A m, n \in D : place[m] = place[n] => m = n
    BY <1>7
  <2>2. \A k \in 1 .. Cardinality(D) : \E n \in D : place[n] = k
    <3> HIDE DEF place, D
    <3>. QED
      BY <1>2, <1>6, <2>1, Ranking
  <2>. QED
    BY <1>2, <2>2
<1>9. ASSUME NEW k \in 1 .. Len(entries) PROVE at(k) \in D /\ Place(entries, at(k)) = k
  BY <1>8
<1>10. ASSUME NEW n \in D PROVE Place(entries, n) \in D /\ at(Place(entries, n)) = n
  <2>1. Place(entries, n) \in 1 .. Len(entries)
    BY <1>2, <1>3, <1>4
  <2>2. at(Place(entries, n)) \in D /\ Place(entries, at(Place(entries, n))) = Place(entries, n)
    BY <1>9, <2>1
  <2> HIDE DEF at
  <2>. QED
    BY <1>1, <1>7, <2>1, <2>2
<1>11. Interleaved(entries) = [k \in D |-> entries[at(k)]]
  BY DEF Interleaved
<1> HIDE DEF at, upto, place
<1>12. Interleaved(entries) \in Seq(Entries) /\ Len(Interleaved(entries)) = Len(entries)
  BY <1>1, <1>9, <1>11
<1>13. \A k \in D : LineOf(Interleaved(entries))[k] = entries[at(k)].line
  BY <1>1, <1>11, <1>12, LineOfIs
<1>14. DOMAIN LineOf(Interleaved(entries)) = D
  BY <1>1, <1>12, LineOfIs
<1>15. ToSet(LineOf(Interleaved(entries))) = ToSet(LineOf(entries))
  <2>1. ToSet(LineOf(entries)) = { entries[n].line : n \in D }
    BY LineOfIs
  <2>2. ToSet(LineOf(Interleaved(entries))) = { entries[at(k)].line : k \in D }
    BY <1>13, <1>14 DEF ToSet
  <2>3. \A k \in D : at(k) \in D
    BY <1>1, <1>9
  <2>4. \A n \in D : \E k \in D : at(k) = n
    BY <1>10
  <2>. QED
    BY <2>1, <2>2, <2>3, <2>4
<1>16. ASSUME \A m, n \in DOMAIN entries : m # n => entries[m].line # entries[n].line
       PROVE  Ascending(LineOf(Interleaved(entries)))
  <2> SUFFICES ASSUME NEW k \in D, NEW m \in D, k < m
               PROVE  entries[at(k)].line < entries[at(m)].line
    BY <1>13, <1>14 DEF Ascending
  <2>1. /\ at(k) \in D /\ at(m) \in D
        /\ Place(entries, at(k)) = k /\ Place(entries, at(m)) = m
    BY <1>1, <1>9
  <2>2. at(k) # at(m)
    BY <1>1, <2>1
  <2>3. ~before(at(m), at(k))
    <3>1. ASSUME before(at(m), at(k)) PROVE FALSE
      <4> HIDE DEF before
      <4>1. m < k
        BY <1>5, <2>1, <2>2, <3>1
      <4>. QED
        BY <1>1, <4>1
    <3>. QED
      BY <3>1
  <2>4. entries[at(k)].line # entries[at(m)].line
    BY <1>16, <2>1, <2>2
  <2>. QED
    BY <1>1, <2>1, <2>3, <2>4
<1>. QED
  BY <1>12, <1>15, <1>16

-----------------------------------------------------------------------------
(* Types.                                                                  *)

LEMMA KindsIn == Kinds \subseteq AnyKind
BY DEF Kinds, AnyKind

LEMMA EmptyIs == \A S : <<>> \in Seq(S)
OBVIOUS

LEMMA ReadLineIs ==
  ASSUME TypeOK, NEW kind \in AnyKind, ReadLine(kind)
  PROVE  /\ log' = Append(log, kind) /\ log' \in Seq(AnyKind)
         /\ count' = (IF kind = "blank" THEN count ELSE count + 1) /\ count' \in Nat
         /\ ~AtEnd /\ ~dead /\ Len(log) + 1 \in DOMAIN file /\ kind = file[Len(log) + 1]
         /\ NextLine = Len(log) + 1 /\ NextLine \in Nat
         /\ UNCHANGED <<dead, readFaults>>
BY DEF ReadLine, AtEnd, NextLine, TypeOK

LEMMA SinkRecordType ==
  ASSUME TypeOK, NEW line \in Nat, NEW origin \in {"parse", "validation"},
         SinkRecord(line, origin)
  PROVE  /\ sinkLines' \in Seq(Nat) /\ sinkCount' \in Nat /\ artifact' \in Seq(Entries)
         /\ sinkError' \in BOOLEAN /\ sinkFaults' \in Nat
<1>1. [line |-> line, origin |-> origin] \in Entries
  BY DEF Entries
<1>2. sinkError' \in BOOLEAN
  <2>1. sinkError' = sinkError \/ sinkError' = TRUE
    BY Zenon DEF SinkRecord
  <2>. QED
    BY <2>1, Zenon DEF TypeOK
<1>3. artifact' \in Seq(Entries)
  <2>1. artifact' = artifact \/ artifact' = Append(artifact, [line |-> line, origin |-> origin])
    BY Zenon DEF SinkRecord
  <2>2. ASSUME NEW entry \in Entries PROVE Append(artifact, entry) \in Seq(Entries)
    BY DEF TypeOK
  <2>. QED
    BY <1>1, <2>1, <2>2, Zenon DEF TypeOK
<1>4. sinkFaults' = sinkFaults \/ sinkFaults' = sinkFaults + 1
  BY Zenon DEF SinkRecord
<1>5. sinkCount' = sinkCount + 1 /\ sinkLines' = Append(sinkLines, line)
  BY DEF SinkRecord
<1>. QED
  BY <1>2, <1>3, <1>4, <1>5 DEF TypeOK

LEMMA SpilledType ==
  ASSUME TypeOK
  PROVE  /\ Spilled \in Seq(Entries) /\ Len(Spilled) = Len(spill)
         /\ artifact \o Spilled \in Seq(Entries)
         /\ LineOf(Spilled) = spill
<1>1. /\ spill \in Seq(Nat) /\ Len(spill) \in Nat /\ DOMAIN spill = 1 .. Len(spill)
      /\ artifact \in Seq(Entries)
  BY DEF TypeOK
<1>2. \A k \in DOMAIN spill : [line |-> spill[k], origin |-> "validation"] \in Entries
  BY <1>1 DEF Entries
<1>3. Spilled \in Seq(Entries) /\ Len(Spilled) = Len(spill)
  BY <1>1, <1>2 DEF Spilled
<1>4. LineOf(Spilled) = spill
  BY <1>1 DEF LineOf, Spilled
<1>. QED
  BY <1>1, <1>3, <1>4

LEMMA MergeSpillType ==
  ASSUME TypeOK, MergeSpill
  PROVE  /\ sinkLines' \in Seq(Nat) /\ sinkCount' \in Nat /\ artifact' \in Seq(Entries)
         /\ sinkError' \in BOOLEAN /\ sinkFaults' \in Nat
         /\ spill' \in Seq(Nat) /\ spillError' \in BOOLEAN
<1> DEFINE merged == Interleaved(artifact \o Spilled)
<1>1. merged \in Seq(Entries)
  BY SpilledType, InterleavedResult
<1>2. LineOf(merged) \in Seq(Nat) /\ Len(merged) \in Nat
  BY <1>1, LineOfIs
<1>3. LineOf(merged) = [k \in DOMAIN merged |-> merged[k].line]
  BY DEF LineOf
<1> HIDE DEF merged
<1>4. spill' \in Seq(Nat) /\ spillError' \in BOOLEAN
  BY EmptyIs, Zenon DEF MergeSpill
<1>5. \/ UNCHANGED <<sinkLines, sinkCount, artifact>>
      \/ /\ artifact' = merged /\ sinkCount' = Len(merged)
         /\ sinkLines' = [k \in DOMAIN merged |-> merged[k].line]
  BY Zenon DEF MergeSpill, merged
<1>6. sinkFaults' = sinkFaults \/ sinkFaults' = sinkFaults + 1
  BY Zenon DEF MergeSpill
<1>7. sinkError' \in BOOLEAN
  <2>1. \/ sinkError' = (sinkError \/ spillError) \/ sinkError' = TRUE
        \/ sinkError' = sinkError
    BY Zenon DEF MergeSpill
  <2>. QED
    BY <2>1, Zenon DEF TypeOK
<1>8. sinkFaults' \in Nat
  BY <1>6 DEF TypeOK
<1>9. sinkLines' \in Seq(Nat) /\ sinkCount' \in Nat /\ artifact' \in Seq(Entries)
  BY <1>1, <1>2, <1>3, <1>5, Zenon DEF TypeOK
<1>. QED
  BY <1>4, <1>7, <1>8, <1>9, Zenon

LEMMA DiscardType ==
  ASSUME Discard
  PROVE  spill' \in Seq(Nat) /\ spillError' \in BOOLEAN /\ sinkError' \in BOOLEAN
<1>1. (sinkError \/ spillError) \in BOOLEAN
  BY Zenon
<1>. QED
  BY <1>1, EmptyIs, Zenon DEF Discard

\* What a step of the stream leaves.
StreamType ==
  /\ expect' = expect
  /\ phase' \in {"NotStarted", "Streaming", "FinalCheck", "Done"}
  /\ pulling' \in BOOLEAN
  /\ survivors' \in Seq(Rows) /\ chunks' \in Seq(Seq(Rows))
  /\ streamEnd' \in {"open", "ended", "failed"}

LEMMA StreamTypes ==
  ASSUME TypeOK
  PROVE  /\ StreamFails => StreamType
         /\ UNCHANGED streamVars => StreamType
         /\ \A rows \in Seq(Rows), next \in {"Streaming", "FinalCheck"} :
              Yield(rows, next) => StreamType
         /\ \A kind \in AnyKind : TakeRecord(kind) => StreamType
<1>1. /\ StreamFails => StreamType
      /\ UNCHANGED streamVars => StreamType
  BY EmptyIs, Zenon DEF StreamFails, StreamType, streamVars, TypeOK
<1>2. ASSUME NEW rows \in Seq(Rows), NEW next \in {"Streaming", "FinalCheck"},
             Yield(rows, next)
      PROVE  StreamType
  <2>1. CASE Builds(rows)
    <3>1. /\ chunks' = Append(chunks, rows) /\ phase' = next
          /\ pulling' = FALSE /\ survivors' = <<>>
          /\ expect' = expect /\ streamEnd' = streamEnd
      BY <1>2, <2>1, Zenon DEF Yield
    <3>2. chunks' \in Seq(Seq(Rows))
      BY <3>1 DEF TypeOK
    <3>. QED
      BY <1>2, <3>1, <3>2, EmptyIs, Zenon DEF StreamType, TypeOK
  <2>2. CASE ~Builds(rows)
    BY <1>1, <1>2, <2>2 DEF Yield
  <2>. QED
    BY <2>1, <2>2
<1>3. ASSUME NEW kind \in AnyKind, TakeRecord(kind) PROVE StreamType
  <2> DEFINE rows == Append(survivors, [line |-> NextLine, kind |-> kind])
  <2>1. rows \in Seq(Rows)
    BY DEF Rows, NextLine, TypeOK
  <2>2. CASE Yield(rows, "Streaming")
    BY <1>2, <2>1, <2>2
  <2>3. CASE survivors' = rows /\ UNCHANGED <<expect, phase, pulling, chunks, streamEnd>>
    BY <2>1, <2>3 DEF StreamType, TypeOK
  <2>. QED
    BY <1>1, <1>3, <2>2, <2>3 DEF TakeRecord
<1>. QED
  BY <1>1, <1>2, <1>3

LEMMA InitTypeOK == Init => TypeOK
<1> SUFFICES ASSUME Init PROVE TypeOK
  OBVIOUS
<1>1. PICK n \in 0 .. MaxLines : file \in [1 .. n -> Kinds]
  BY DEF Init
<1>2. file \in Seq(AnyKind)
  BY <1>1, KindsIn, TwoPassAssumption
<1>3. expect \in Expectations
  BY DEF Init, NoExpectations, Expectations
<1>4. /\ header \in {0, 1} /\ format \in {"csv", "jsonl"}
      /\ edits \in Nat /\ readFaults \in Nat /\ sinkFaults \in Nat
      /\ count \in Nat /\ sinkCount \in Nat
  BY TwoPassAssumption DEF Init
<1>5. /\ log \in Seq(AnyKind) /\ sinkLines \in Seq(Nat) /\ artifact \in Seq(Entries)
      /\ spill \in Seq(Nat) /\ survivors \in Seq(Rows) /\ chunks \in Seq(Seq(Rows))
  BY EmptyIs, Zenon DEF Init
<1>6. /\ verdictOk \in BOOLEAN /\ dead \in BOOLEAN /\ sinkError \in BOOLEAN
      /\ spillError \in BOOLEAN /\ pulling \in BOOLEAN
      /\ pc \in {"pass1", "failed", "stream", "over"}
      /\ phase \in {"NotStarted", "Streaming", "FinalCheck", "Done"}
      /\ streamEnd \in {"open", "ended", "failed"}
  BY Zenon DEF Init
<1>. QED
  BY <1>2, <1>3, <1>4, <1>5, <1>6, Zenon DEF TypeOK

LEMMA NextTypeOK == TypeOK /\ [Next]_vars => TypeOK'
<1> SUFFICES ASSUME TypeOK, [Next]_vars PROVE TypeOK'
  OBVIOUS
<1> USE DEF sourceVars, sinkVars, spillVars, streamVars
<1>1. CASE Edit
  <2>1. file' \in Seq(AnyKind) /\ header' \in {0, 1}
    <3>1. ASSUME NEW n \in DOMAIN file, NEW kind \in Kinds, file' = [file EXCEPT ![n] = kind]
          PROVE  file' \in Seq(AnyKind)
      BY <3>1, KindsIn DEF TypeOK
    <3>2. ASSUME NEW kind \in Kinds, file' = Append(file, kind)
          PROVE  file' \in Seq(AnyKind)
      BY <3>2, KindsIn DEF TypeOK
    <3>3. ASSUME file # <<>>, file' = Front(file) PROVE file' \in Seq(AnyKind)
      BY <3>3 DEF TypeOK, Front
    <3>. QED
      BY <1>1, <3>1, <3>2, <3>3, SMTT(30) DEF Edit, TypeOK
  <2>. QED
    BY <1>1, <2>1, SMTT(30) DEF Edit, TypeOK
<1>2. CASE ObserveLine
  <2>1. PICK kind \in Kinds :
          /\ ReadLine(kind)
          /\ IF kind = "broken"
             THEN SinkRecord(NextLine, "parse") /\ UNCHANGED spillVars
             ELSE IF kind = "bad" /\ format = "csv" /\ verdictOk
             THEN SinkRecord(NextLine, "validation") /\ UNCHANGED spillVars
             ELSE IF kind = "bad" /\ format = "jsonl"
             THEN SpillRecord(NextLine)
                  /\ UNCHANGED <<sinkLines, sinkCount, artifact, sinkError>>
             ELSE UNCHANGED <<sinkVars, spillVars>>
    BY <1>2, Zenon DEF ObserveLine
  <2>2. /\ log' \in Seq(AnyKind) /\ count' \in Nat /\ NextLine \in Nat
        /\ UNCHANGED <<dead, readFaults>>
    BY <2>1, KindsIn, ReadLineIs
  <2>3. /\ sinkLines' \in Seq(Nat) /\ sinkCount' \in Nat /\ artifact' \in Seq(Entries)
        /\ sinkError' \in BOOLEAN /\ sinkFaults' \in Nat
        /\ spill' \in Seq(Nat) /\ spillError' \in BOOLEAN
    <3>1. CASE SinkRecord(NextLine, "parse") /\ UNCHANGED spillVars
      BY <2>2, <3>1, SinkRecordType DEF TypeOK
    <3>2. CASE SinkRecord(NextLine, "validation") /\ UNCHANGED spillVars
      BY <2>2, <3>2, SinkRecordType DEF TypeOK
    <3>3. CASE SpillRecord(NextLine)
               /\ UNCHANGED <<sinkLines, sinkCount, artifact, sinkError>>
      <4>1. spillError' = spillError \/ spillError' = TRUE
        BY <3>3, Zenon DEF SpillRecord
      <4>2. spillError' \in BOOLEAN
        BY <4>1, Zenon DEF TypeOK
      <4>3. spill' = Append(spill, NextLine)
        BY <3>3, Zenon DEF SpillRecord
      <4>4. sinkFaults' = sinkFaults \/ sinkFaults' = sinkFaults + 1
        BY <3>3, Zenon DEF SpillRecord
      <4>5. spill' \in Seq(Nat) /\ sinkFaults' \in Nat
        BY <2>2, <4>3, <4>4 DEF TypeOK
      <4>. QED
        BY <3>3, <4>2, <4>5, Zenon DEF TypeOK
    <3>4. CASE UNCHANGED <<sinkVars, spillVars>>
      BY <3>4 DEF TypeOK
    <3>. QED
      BY <2>1, <3>1, <3>2, <3>3, <3>4
  <2>. QED
    BY <1>2, <2>2, <2>3 DEF ObserveLine, TypeOK
<1>3. CASE ObserveFault
  <2>1. CASE /\ dead' = TRUE /\ count' = count + 1 /\ SinkRecord(0, "parse")
             /\ UNCHANGED <<pc, spillVars>>
    BY <1>3, <2>1, SinkRecordType DEF ObserveFault, ReadFault, TypeOK
  <2>2. CASE /\ Discard /\ pc' = "failed"
             /\ UNCHANGED <<dead, count, sinkLines, sinkCount, artifact, sinkFaults>>
    <3>1. readFaults' = readFaults + 1
      BY <1>3, Zenon DEF ObserveFault, ReadFault
    <3>2. readFaults' \in Nat
      BY <3>1 DEF TypeOK
    <3>. QED
      BY <1>3, <2>2, <3>2, DiscardType, Zenon DEF ObserveFault, TypeOK
  <2>. QED
    BY <1>3, <2>1, <2>2 DEF ObserveFault
<1>4. CASE VerdictFails
  BY <1>4, DiscardType, Zenon DEF VerdictFails, TypeOK
<1>5. CASE VerdictPasses
  <2>1. ToSet(sinkLines') \subseteq Nat
    BY <1>5, MergeSpillType DEF VerdictPasses, ToSet
  <2>2. expect' \in Expectations
    BY <1>5, <2>1 DEF VerdictPasses, TypeOK, Expectations
  <2>. QED
    BY <1>5, <2>2, MergeSpillType DEF VerdictPasses, TypeOK
<1>6. CASE Pull
  BY <1>6 DEF Pull, TypeOK
<1>7. CASE Open
  <2>1. StreamType
    BY <1>7, StreamTypes DEF Open, StreamType, TypeOK
  <2>2. readFaults' = readFaults \/ readFaults' = readFaults + 1
    BY <1>7, Zenon DEF Open
  <2>3. readFaults' \in Nat /\ count' \in Nat
    BY <1>7, <2>2 DEF Open, TypeOK
  <2>4. log' \in Seq(AnyKind) /\ dead' \in BOOLEAN
    BY <1>7, EmptyIs, Zenon DEF Open
  <2>. QED
    BY <1>7, <2>1, <2>3, <2>4, Zenon DEF Open, StreamType, TypeOK
<1>8. CASE StreamLine
  <2>1. PICK kind \in Kinds :
          /\ ReadLine(kind)
          /\ IF kind = "blank" THEN UNCHANGED streamVars ELSE TakeRecord(kind)
    BY <1>8, Zenon DEF StreamLine
  <2>2. StreamType
    BY <2>1, KindsIn, StreamTypes
  <2>3. /\ log' \in Seq(AnyKind) /\ count' \in Nat
        /\ UNCHANGED <<dead, readFaults>>
    BY <2>1, KindsIn, ReadLineIs
  <2>. QED
    BY <1>8, <2>2, <2>3 DEF StreamLine, StreamType, TypeOK
<1>9. CASE StreamFault
  <2>1. StreamType
    BY <1>9, StreamTypes DEF StreamFault
  <2>2. readFaults' = readFaults + 1 /\ (count' = count \/ count' = count + 1)
    BY <1>9, Zenon DEF StreamFault, ReadFault
  <2>3. readFaults' \in Nat /\ count' \in Nat
    BY <2>2 DEF TypeOK
  <2>4. dead' \in BOOLEAN
    BY <1>9, Zenon DEF StreamFault, TypeOK
  <2>. QED
    BY <1>9, <2>1, <2>3, <2>4, Zenon DEF StreamFault, StreamType, TypeOK
<1>10. CASE LastChunk
  <2>1. StreamType
    <3>1. CASE Yield(survivors, "FinalCheck")
      BY <3>1, StreamTypes DEF TypeOK
    <3>2. CASE ~Yield(survivors, "FinalCheck")
      BY <1>10, <3>2 DEF LastChunk, StreamType, TypeOK
    <3>. QED
      BY <3>1, <3>2
  <2>. QED
    BY <1>10, <2>1 DEF LastChunk, StreamType, TypeOK
<1>11. CASE FinalCheck
  <2>1. StreamType
    BY <1>11, StreamTypes DEF FinalCheck, StreamType, TypeOK
  <2>. QED
    BY <1>11, <2>1 DEF FinalCheck, StreamType, TypeOK
<1>12. CASE Finish
  <2>1. ASSUME NEW kept \in 0 .. Len(artifact) - 1
        PROVE  SubSeq(artifact, 1, kept) \in Seq(Entries)
    BY DEF TypeOK
  <2>2. /\ artifact' \in Seq(Entries) /\ sinkError' \in BOOLEAN /\ sinkFaults' \in Nat
        /\ UNCHANGED <<sinkLines, sinkCount>>
    <3>1. CASE UNCHANGED sinkVars
      BY <3>1 DEF TypeOK
    <3>2. CASE /\ sinkError' = TRUE /\ sinkFaults' = sinkFaults + 1
               /\ \E kept \in 0 .. Len(artifact) - 1 :
                    artifact' = SubSeq(artifact, 1, kept)
               /\ UNCHANGED <<sinkLines, sinkCount>>
      <4>1. artifact' \in Seq(Entries)
        BY <2>1, <3>2, Zenon
      <4>2. sinkFaults' \in Nat
        BY <3>2 DEF TypeOK
      <4>. QED
        BY <3>2, <4>1, <4>2, Zenon
    <3>. QED
      BY <1>12, <3>1, <3>2, Zenon DEF Finish, TakeIoError
  <2>. QED
    BY <1>12, <2>2 DEF Finish, TypeOK
<1>13. CASE Over
  BY <1>13 DEF Over, vars, TypeOK
<1>14. CASE UNCHANGED vars
  BY <1>14 DEF vars, TypeOK
<1>. QED
  BY <1>1, <1>2, <1>3, <1>4, <1>5, <1>6, <1>7, <1>8, <1>9, <1>10, <1>11, <1>12,
     <1>13, <1>14 DEF Next

-----------------------------------------------------------------------------
(* What a step does to the chunk stream.                                   *)

\* Nothing; lines are read, if at all, in pass 1.
Leaves ==
  /\ UNCHANGED streamVars
  /\ log' = log \/ pc = "pass1"
  /\ pulling => pc' = pc
  /\ pc' \in {"pass1", "failed"} => pc \in {"pass1", "failed"}

\* The verdict passes.
Begins ==
  /\ pc = "pass1" /\ pc' = "stream" /\ log' = log
  /\ UNCHANGED <<phase, pulling, survivors, chunks, streamEnd>>

InPull == pulling /\ pc' = pc /\ expect' = expect

IsPulled ==
  /\ pc = "stream" /\ pulling' /\ pc' = pc /\ log' = log
  /\ UNCHANGED <<expect, phase, survivors, chunks, streamEnd>>

Opens ==
  /\ InPull /\ phase = "NotStarted" /\ phase' = "Streaming" /\ log' = <<>>
  /\ UNCHANGED <<survivors, chunks, streamEnd>>

Breaks == InPull /\ StreamFails

\* A line that yields no row is read.
Skips(kind) ==
  /\ InPull /\ phase = "Streaming" /\ log' = Append(log, kind)
  /\ kind \notin Survivor
  /\ UNCHANGED <<phase, survivors, chunks, streamEnd>>

\* A survivor is read, and the chunk is still short of its bound, or goes out.
RowOf(kind) == [line |-> Len(log) + 1, kind |-> kind]
Takes(kind) ==
  /\ InPull /\ phase = "Streaming" /\ log' = Append(log, kind)
  /\ kind \in Survivor /\ Len(log) + 1 \notin expect.rejected
  /\ UNCHANGED <<phase, streamEnd>>
Holds(kind) ==
  /\ Takes(kind)
  /\ survivors' = Append(survivors, RowOf(kind)) /\ Len(survivors') # ChunkRows
  /\ chunks' = chunks
Fills(kind) ==
  /\ Takes(kind)
  /\ Len(Append(survivors, RowOf(kind))) = ChunkRows
  /\ chunks' = Append(chunks, Append(survivors, RowOf(kind)))
  /\ survivors' = <<>>

\* The input ends: nothing is left, or the last chunk goes out.
Drains ==
  /\ InPull /\ phase = "Streaming" /\ phase' = "FinalCheck" /\ log' = log
  /\ streamEnd' = streamEnd /\ survivors' = <<>>
Empties ==
  /\ Drains /\ survivors = <<>> /\ chunks # <<>> /\ chunks' = chunks
Flushes ==
  /\ Drains /\ ~(survivors = <<>> /\ chunks # <<>>)
  /\ chunks' = Append(chunks, survivors)

Ends ==
  /\ InPull /\ phase = "FinalCheck" /\ Reproduced
  /\ streamEnd' = "ended" /\ phase' = "Done"
  /\ UNCHANGED <<log, survivors, chunks>>

Moves ==
  \/ Leaves \/ Begins \/ IsPulled \/ Opens \/ Breaks
  \/ (\E kind \in AnyKind : Skips(kind) \/ Holds(kind) \/ Fills(kind))
  \/ Empties \/ Flushes \/ Ends

LEMMA TakeRecordMoves ==
  ASSUME TypeOK, InPull, phase = "Streaming", NEW kind \in AnyKind,
         log' = Append(log, kind), TakeRecord(kind)
  PROVE  StreamFails \/ Skips(kind) \/ Holds(kind) \/ Fills(kind)
<1> DEFINE rows == Append(survivors, RowOf(kind))
<1>1. NextLine = Len(log) + 1 /\ rows = Append(survivors, [line |-> NextLine, kind |-> kind])
  BY DEF NextLine, RowOf
<1> HIDE DEF rows
<1>2. CASE StreamFails
  BY <1>2
<1>3. CASE ~StreamFails
  <2>1. Agrees(NextLine, kind \notin Survivor)
    BY <1>3, Zenon DEF TakeRecord
  <2>2. CASE kind \notin Survivor
    <3>1. UNCHANGED streamVars
      BY <1>3, <2>1, <2>2, Zenon DEF TakeRecord
    <3>. QED
      BY <2>2, <3>1 DEF Skips, streamVars
  <2>3. CASE kind \in Survivor
    <3>1. Len(log) + 1 \notin expect.rejected
      BY <1>1, <2>1, <2>3, Zenon DEF Agrees
    <3>2. IF Len(rows) = ChunkRows
          THEN Yield(rows, "Streaming")
          ELSE /\ survivors' = rows
               /\ UNCHANGED <<expect, phase, pulling, chunks, streamEnd>>
      BY <1>1, <1>3, <2>1, <2>3, Zenon DEF TakeRecord
    <3>3. CASE Len(rows) = ChunkRows
      <4>1. /\ chunks' = Append(chunks, rows) /\ phase' = "Streaming"
            /\ survivors' = <<>> /\ streamEnd' = streamEnd
        BY <1>3, <3>2, <3>3, Zenon DEF Yield
      <4>. QED
        BY <2>3, <3>1, <3>3, <4>1 DEF Fills, Takes, rows
    <3>4. CASE Len(rows) # ChunkRows
      BY <2>3, <3>1, <3>2, <3>4 DEF Holds, Takes, rows
    <3>. QED
      BY <3>3, <3>4
  <2>. QED
    BY <2>2, <2>3
<1>. QED
  BY <1>2, <1>3

LEMMA StepMoves == ASSUME TypeOK, StandInv, [Next]_vars PROVE Moves
<1> USE DEF streamVars
<1>1. CASE Edit
  BY <1>1 DEF Edit, Leaves, Moves
<1>2. CASE ObserveLine
  <2>1. pc = "pass1" /\ pc' = pc /\ UNCHANGED streamVars
    BY <1>2, Zenon DEF ObserveLine
  <2>. QED
    BY <2>1 DEF Leaves, Moves
<1>3. CASE ObserveFault
  <2>1. pc = "pass1" /\ log' = log /\ UNCHANGED streamVars
    BY <1>3, Zenon DEF ObserveFault
  <2>. QED
    BY <2>1 DEF Leaves, Moves, StandInv
<1>4. CASE VerdictFails
  <2>1. pc = "pass1" /\ log' = log /\ UNCHANGED streamVars
    BY <1>4, Zenon DEF VerdictFails
  <2>. QED
    BY <2>1 DEF Leaves, Moves, StandInv
<1>5. CASE VerdictPasses
  BY <1>5 DEF VerdictPasses, Begins, Moves
<1>6. CASE Pull
  BY <1>6 DEF Pull, IsPulled, Moves
<1>7. CASE Open
  <2>1. InPull
    BY <1>7, Zenon DEF Open, InPull, StreamFails
  <2>2. CASE StreamFails
    BY <2>1, <2>2 DEF Breaks, Moves
  <2>3. CASE ~StreamFails
    <3>1. /\ phase = "NotStarted" /\ phase' = "Streaming" /\ log' = <<>>
          /\ UNCHANGED <<survivors, chunks, streamEnd>>
      BY <1>7, <2>3, Zenon DEF Open
    <3>. QED
      BY <2>1, <3>1 DEF Opens, Moves
  <2>. QED
    BY <2>2, <2>3
<1>8. CASE StreamLine
  <2>1. PICK kind \in Kinds :
          /\ ReadLine(kind)
          /\ IF kind = "blank" THEN UNCHANGED streamVars ELSE TakeRecord(kind)
    BY <1>8, Zenon DEF StreamLine
  <2>2. kind \in AnyKind /\ log' = Append(log, kind)
    BY <2>1, KindsIn, ReadLineIs
  <2>3. pulling /\ phase = "Streaming" /\ pc' = pc
    BY <1>8, Zenon DEF StreamLine
  <2>4. CASE kind = "blank"
    <3>1. UNCHANGED streamVars
      BY <2>1, <2>4
    <3>. QED
      BY <2>2, <2>3, <2>4, <3>1 DEF Skips, InPull, Survivor, Moves
  <2>5. CASE kind # "blank"
    <3>1. TakeRecord(kind)
      BY <2>1, <2>5
    <3>2. expect' = expect
      BY <2>2, <3>1, StreamTypes DEF StreamType
    <3>3. StreamFails \/ Skips(kind) \/ Holds(kind) \/ Fills(kind)
      BY <2>2, <2>3, <3>1, <3>2, TakeRecordMoves DEF InPull
    <3>. QED
      BY <2>2, <2>3, <3>2, <3>3, Zenon DEF Breaks, InPull, Moves
  <2>. QED
    BY <2>4, <2>5
<1>9. CASE StreamFault
  <2>1. pulling /\ pc' = pc /\ log' = log /\ (UNCHANGED streamVars \/ StreamFails)
    BY <1>9, Zenon DEF StreamFault
  <2>2. CASE UNCHANGED streamVars
    BY <2>1, <2>2 DEF Leaves, Moves
  <2>3. CASE StreamFails
    BY <2>1, <2>3 DEF StreamFails, Breaks, InPull, Moves
  <2>. QED
    BY <2>1, <2>2, <2>3
<1>10. CASE LastChunk
  <2>1. pulling /\ phase = "Streaming" /\ pc' = pc /\ log' = log
    BY <1>10, Zenon DEF LastChunk
  <2>2. CASE survivors = <<>> /\ chunks # <<>>
    <3>1. /\ phase' = "FinalCheck"
          /\ UNCHANGED <<expect, pulling, survivors, chunks, streamEnd>>
      BY <1>10, <2>2, Zenon DEF LastChunk
    <3>. QED
      BY <2>1, <2>2, <3>1 DEF Empties, Drains, InPull, Moves
  <2>3. CASE ~(survivors = <<>> /\ chunks # <<>>)
    <3>1. Yield(survivors, "FinalCheck")
      BY <1>10, <2>3, Zenon DEF LastChunk
    <3>2. CASE StreamFails
      BY <2>1, <3>2 DEF StreamFails, Breaks, InPull, Moves
    <3>3. CASE ~StreamFails
      <4>1. /\ chunks' = Append(chunks, survivors) /\ phase' = "FinalCheck"
            /\ survivors' = <<>> /\ expect' = expect /\ streamEnd' = streamEnd
        BY <3>1, <3>3, Zenon DEF Yield
      <4>. QED
        BY <2>1, <2>3, <4>1 DEF Flushes, Drains, InPull, Moves
    <3>. QED
      BY <3>2, <3>3
  <2>. QED
    BY <2>2, <2>3
<1>11. CASE FinalCheck
  <2>1. pulling /\ phase = "FinalCheck" /\ pc' = pc /\ log' = log
    BY <1>11, Zenon DEF FinalCheck
  <2>2. CASE StreamFails
    BY <2>1, <2>2 DEF StreamFails, Breaks, InPull, Moves
  <2>3. CASE ~StreamFails
    <3>1. /\ Reproduced /\ streamEnd' = "ended" /\ phase' = "Done"
          /\ UNCHANGED <<expect, survivors, chunks>>
      BY <1>11, <2>3, Zenon DEF FinalCheck
    <3>. QED
      BY <2>1, <3>1 DEF Ends, InPull, Moves
  <2>. QED
    BY <2>2, <2>3
<1>12. CASE Finish
  <2>1. /\ ~pulling /\ pc' = "over" /\ log' = log /\ UNCHANGED streamVars
    BY <1>12, Zenon DEF Finish
  <2>. QED
    BY <2>1 DEF Leaves, Moves
<1>13. CASE Over \/ UNCHANGED vars
  BY <1>13 DEF Over, vars, Leaves, Moves
<1>. QED
  BY <1>1, <1>2, <1>3, <1>4, <1>5, <1>6, <1>7, <1>8, <1>9, <1>10, <1>11, <1>12,
     <1>13 DEF Next

LEMMA StandInvStep == TypeOK /\ StandInv /\ [Next]_vars => StandInv'
<1> SUFFICES ASSUME TypeOK, StandInv, [Next]_vars PROVE StandInv'
  OBVIOUS
<1> USE DEF StandInv, InPull
<1>1. CASE Leaves
  BY <1>1 DEF Leaves, streamVars
<1>2. CASE Begins
  BY <1>2 DEF Begins
<1>3. CASE IsPulled
  BY <1>3 DEF IsPulled
<1>4. CASE Opens
  BY <1>4 DEF Opens
<1>5. CASE Breaks
  BY <1>5 DEF Breaks, StreamFails
<1>6. ASSUME NEW kind \in AnyKind, Skips(kind) PROVE StandInv'
  BY <1>6 DEF Skips
<1>7. ASSUME NEW kind \in AnyKind, Holds(kind) PROVE StandInv'
  BY <1>7 DEF Holds, Takes
<1>8. ASSUME NEW kind \in AnyKind, Fills(kind) PROVE StandInv'
  BY <1>8 DEF Fills, Takes
<1>9. CASE Empties \/ Flushes
  BY <1>9 DEF Empties, Flushes, Drains
<1>10. CASE Ends
  BY <1>10 DEF Ends
<1>. QED
  BY StepMoves, <1>1, <1>2, <1>3, <1>4, <1>5, <1>6, <1>7, <1>8, <1>9, <1>10 DEF Moves

-----------------------------------------------------------------------------
(* The rows delivered.                                                     *)

RowsOf(lines) == { [line |-> n, kind |-> lines[n]] : n \in LinesOf(lines, Survivor) }

LEMMA RowsOfAppend ==
  ASSUME NEW lines \in Seq(AnyKind), NEW kind \in AnyKind
  PROVE  /\ kind \in Survivor =>
              RowsOf(Append(lines, kind)) =
                RowsOf(lines) \union {[line |-> Len(lines) + 1, kind |-> kind]}
         /\ kind \notin Survivor => RowsOf(Append(lines, kind)) = RowsOf(lines)
<1> DEFINE more == Append(lines, kind)
<1>1. /\ more[Len(lines) + 1] = kind
      /\ \A n \in LinesOf(lines, Survivor) : more[n] = lines[n]
  BY LinesAre
<1>2. ASSUME kind \in Survivor
      PROVE  LinesOf(more, Survivor) = LinesOf(lines, Survivor) \union {Len(lines) + 1}
  BY <1>2, LinesAppend
<1>3. ASSUME kind \notin Survivor PROVE LinesOf(more, Survivor) = LinesOf(lines, Survivor)
  BY <1>3, LinesAppend
<1> HIDE DEF more
<1>4. ASSUME kind \in Survivor
      PROVE  RowsOf(more) = RowsOf(lines) \union {[line |-> Len(lines) + 1, kind |-> kind]}
  BY <1>1, <1>2, <1>4 DEF RowsOf
<1>5. ASSUME kind \notin Survivor PROVE RowsOf(more) = RowsOf(lines)
  BY <1>1, <1>3, <1>5 DEF RowsOf
<1>. QED
  BY <1>4, <1>5 DEF more

LEMMA RowsOfEmpty == RowsOf(<<>>) = {}
BY DEF RowsOf, LinesOf

\* What is delivered once a chunk went out, and before any did.
LEMMA DeliveredIs ==
  ASSUME TypeOK
  PROVE  /\ chunks = <<>> => Delivered = {}
         /\ \A rows : chunks' = Append(chunks, rows) =>
              Delivered' = Delivered \union ToSet(rows)
<1>1. chunks = <<>> => Delivered = {}
  BY DEF Delivered
<1>2. ASSUME NEW rows, chunks' = Append(chunks, rows)
      PROVE  Delivered' = Delivered \union ToSet(rows)
  <2>1. chunks \in Seq(Seq(Rows))
    BY DEF TypeOK
  <2>2. Delivered' = UNION { ToSet(Append(chunks, rows)[k]) : k \in DOMAIN Append(chunks, rows) }
    BY <1>2 DEF Delivered, ToSet
  <2>3. Delivered = UNION { ToSet(chunks[k]) : k \in DOMAIN chunks }
    BY DEF Delivered
  <2>4. UNION { ToSet(Append(chunks, rows)[k]) : k \in DOMAIN Append(chunks, rows) } =
          (UNION { ToSet(chunks[k]) : k \in DOMAIN chunks }) \union ToSet(rows)
    BY <2>1, UnionAppend, Zenon
  <2>. QED
    BY <2>2, <2>3, <2>4, Zenon
<1>. QED
  BY <1>1, <1>2

LEMMA RowsInvStep == TypeOK /\ StandInv /\ RowsInv /\ [Next]_vars => RowsInv'
<1> SUFFICES ASSUME TypeOK, StandInv, RowsInv, [Next]_vars PROVE RowsInv'
  OBVIOUS
<1> DEFINE Given == Delivered \union ToSet(survivors)
<1>0. /\ ReadRows = RowsOf(log) /\ ReadRows' = RowsOf(log')
      /\ log \in Seq(AnyKind) /\ survivors \in Seq(Rows)
  BY DEF ReadRows, RowsOf, TypeOK
<1>a. /\ phase \in {"Streaming", "FinalCheck"} => Given = RowsOf(log)
      /\ \A row \in Given : row.line \notin expect.rejected
      /\ streamEnd = "ended" => Delivered = PassOneSurvivors
  BY <1>0 DEF RowsInv
<1>b. ASSUME /\ phase' \in {"Streaming", "FinalCheck"} => Given' = RowsOf(log')
             /\ \A row \in Given' : row.line \notin expect'.rejected
             /\ streamEnd' = "ended" => Delivered' = PassOneSurvivors'
      PROVE  RowsInv'
  BY <1>0, <1>b, Zenon DEF RowsInv
<1>c. /\ UNCHANGED chunks => Delivered' = Delivered
      /\ UNCHANGED survivors => ToSet(survivors)' = ToSet(survivors)
      /\ UNCHANGED expect => PassOneSurvivors' = PassOneSurvivors
      /\ survivors' = <<>> => ToSet(survivors)' = {}
      /\ survivors = <<>> => ToSet(survivors) = {}
  BY DEF Delivered, ToSet, PassOneSurvivors, LinesOf
<1>1. CASE Leaves
  <2>1. /\ Given' = Given /\ PassOneSurvivors' = PassOneSurvivors /\ expect' = expect
        /\ phase' = phase /\ streamEnd' = streamEnd
    BY <1>1, <1>c DEF Leaves, streamVars
  <2>2. phase' \in {"Streaming", "FinalCheck"} => log' = log
    BY <1>1, <2>1 DEF Leaves, StandInv
  <2>3. Delivered' = Delivered
    BY <1>1, <1>c DEF Leaves, streamVars
  <2> HIDE DEF Given
  <2>. QED
    BY <1>a, <1>b, <2>1, <2>2, <2>3
<1>2. CASE Begins \/ Opens
  <2>1. /\ phase = "NotStarted" /\ chunks = <<>> /\ survivors = <<>>
        /\ streamEnd' # "ended" /\ chunks' = chunks /\ survivors' = survivors
        /\ phase' = phase \/ log' = <<>>
    BY <1>2 DEF Begins, Opens, StandInv
  <2>2. Given' = {}
    BY <1>c, <2>1, DeliveredIs
  <2>3. phase' \in {"Streaming", "FinalCheck"} => RowsOf(log') = {}
    BY <2>1, RowsOfEmpty
  <2> HIDE DEF Given
  <2>. QED
    BY <1>b, <2>1, <2>2, <2>3
<1>3. CASE IsPulled
  <2>1. /\ Given' = Given /\ PassOneSurvivors' = PassOneSurvivors /\ expect' = expect
        /\ phase' = phase /\ streamEnd' = streamEnd /\ log' = log
        /\ Delivered' = Delivered
    BY <1>3, <1>c DEF IsPulled
  <2> HIDE DEF Given
  <2>. QED
    BY <1>a, <1>b, <2>1
<1>4. CASE Breaks
  <2>1. /\ Delivered' = Delivered /\ ToSet(survivors)' = {} /\ expect' = expect
        /\ phase' = "Done" /\ streamEnd' = "failed"
    BY <1>4, <1>c DEF Breaks, StreamFails, InPull
  <2>2. \A row \in Given' : row \in Given
    BY <2>1
  <2> HIDE DEF Given
  <2>. QED
    BY <1>a, <1>b, <2>1, <2>2
<1>5. ASSUME NEW kind \in AnyKind, Skips(kind) PROVE RowsInv'
  <2>1. /\ Given' = Given /\ PassOneSurvivors' = PassOneSurvivors /\ expect' = expect
        /\ phase' = phase /\ streamEnd' = streamEnd /\ Delivered' = Delivered
    BY <1>5, <1>c DEF Skips, InPull
  <2>2. RowsOf(log') = RowsOf(log)
    BY <1>0, <1>5, RowsOfAppend DEF Skips
  <2> HIDE DEF Given
  <2>. QED
    BY <1>a, <1>b, <2>1, <2>2
<1>6. ASSUME NEW kind \in AnyKind, Takes(kind),
             Given' = Given \union {RowOf(kind)}
      PROVE  RowsInv'
  <2>1. /\ expect' = expect /\ phase = "Streaming" /\ streamEnd' = streamEnd
        /\ Len(log) + 1 \notin expect.rejected
    BY <1>6 DEF Takes, InPull
  <2>2. streamEnd' # "ended"
    BY <2>1 DEF StandInv
  <2>3. RowsOf(log') = RowsOf(log) \union {RowOf(kind)}
    BY <1>0, <1>6, RowsOfAppend DEF Takes, RowOf
  <2>4. RowOf(kind).line \notin expect.rejected
    BY <2>1 DEF RowOf
  <2> HIDE DEF Given
  <2>. QED
    BY <1>6, <1>a, <1>b, <2>1, <2>2, <2>3, <2>4
<1>7. ASSUME NEW kind \in AnyKind, Holds(kind) PROVE RowsInv'
  <2>1. /\ Takes(kind) /\ survivors' = Append(survivors, RowOf(kind))
        /\ Delivered' = Delivered
    BY <1>7, <1>c DEF Holds
  <2>2. ToSet(survivors') = ToSet(survivors) \union {RowOf(kind)}
    BY <1>0, <2>1, ToSetAppend
  <2>3. Given' = Given \union {RowOf(kind)}
    BY <2>1, <2>2
  <2>. QED
    BY <1>6, <2>1, <2>3
<1>8. ASSUME NEW kind \in AnyKind, Fills(kind) PROVE RowsInv'
  <2>1. /\ Takes(kind) /\ ToSet(survivors)' = {}
        /\ chunks' = Append(chunks, Append(survivors, RowOf(kind)))
    BY <1>8, <1>c DEF Fills
  <2>2. ToSet(Append(survivors, RowOf(kind))) = ToSet(survivors) \union {RowOf(kind)}
    BY <1>0, ToSetAppend
  <2>3. Delivered' = Delivered \union ToSet(Append(survivors, RowOf(kind)))
    BY <2>1, DeliveredIs
  <2>4. Given' = Given \union {RowOf(kind)}
    BY <2>1, <2>2, <2>3
  <2>. QED
    BY <1>6, <2>1, <2>4
<1>9. CASE Empties \/ Flushes
  <2>1. /\ expect' = expect /\ phase = "Streaming" /\ streamEnd' = streamEnd
        /\ log' = log /\ ToSet(survivors)' = {}
    BY <1>9, <1>c DEF Empties, Flushes, Drains, InPull
  <2>2. streamEnd' # "ended"
    BY <2>1 DEF StandInv
  <2>3. Given' = Given
    <3>1. CASE Empties
      BY <1>c, <2>1, <3>1 DEF Empties
    <3>2. CASE Flushes
      <4>1. Delivered' = Delivered \union ToSet(survivors)
        BY <3>2, DeliveredIs DEF Flushes
      <4>. QED
        BY <2>1, <4>1
    <3>. QED
      BY <1>9, <3>1, <3>2
  <2> HIDE DEF Given
  <2>. QED
    BY <1>a, <1>b, <2>1, <2>2, <2>3
<1>10. CASE Ends
  <2>1. /\ expect' = expect /\ phase = "FinalCheck" /\ phase' = "Done"
        /\ log = expect.log /\ Given' = Given /\ Delivered' = Delivered
        /\ ToSet(survivors) = {} /\ PassOneSurvivors' = PassOneSurvivors
    BY <1>10, <1>c DEF Ends, InPull, Reproduced, StandInv
  <2>2. RowsOf(log) = PassOneSurvivors
    BY <2>1 DEF RowsOf, PassOneSurvivors
  <2>3. Delivered = PassOneSurvivors
    BY <1>a, <2>1, <2>2
  <2> HIDE DEF Given
  <2>. QED
    BY <1>a, <1>b, <2>1, <2>3
<1>. QED
  BY StepMoves, <1>1, <1>2, <1>3, <1>4, <1>5, <1>7, <1>8, <1>9, <1>10 DEF Moves

-----------------------------------------------------------------------------
(* The shape of the chunks.                                                *)

\* While pass 2 reads, every row it holds or delivered is of a line it read.
LEMMA RowsBehind ==
  ASSUME TypeOK, RowsInv, phase = "Streaming"
  PROVE  /\ \A k \in DOMAIN chunks : \A i \in DOMAIN chunks[k] :
              chunks[k][i].line \in 1 .. Len(log)
         /\ \A i \in DOMAIN survivors : survivors[i].line \in 1 .. Len(log)
<1>1. \A row \in ReadRows : row.line \in 1 .. Len(log)
  BY LinesAre DEF ReadRows, TypeOK
<1>2. Delivered \union ToSet(survivors) = ReadRows
  BY DEF RowsInv
<1>3. ASSUME NEW k \in DOMAIN chunks, NEW i \in DOMAIN chunks[k]
      PROVE  chunks[k][i] \in Delivered
  BY DEF Delivered, ToSet
<1>4. \A i \in DOMAIN survivors : survivors[i] \in ToSet(survivors)
  BY DEF ToSet
<1>. QED
  BY <1>1, <1>2, <1>3, <1>4

LEMMA ShapeInvStep == TypeOK /\ StandInv /\ RowsInv /\ ShapeInv /\ [Next]_vars => ShapeInv'
<1> SUFFICES ASSUME TypeOK, StandInv, RowsInv, ShapeInv, [Next]_vars PROVE ShapeInv'
  OBVIOUS
<1>0. /\ chunks \in Seq(Seq(Rows)) /\ survivors \in Seq(Rows) /\ log \in Seq(AnyKind)
      /\ ChunkRows \in Nat \ {0} /\ Len(survivors) \in Nat /\ Len(chunks) \in Nat
      /\ DOMAIN chunks = 1 .. Len(chunks)
      /\ \A k \in DOMAIN chunks : Len(chunks[k]) \in Nat
  BY TwoPassAssumption DEF TypeOK
<1>1. ASSUME UNCHANGED <<chunks, survivors, streamEnd>>,
             phase' = phase \/ (phase' = "Streaming" /\ chunks = <<>>)
      PROVE  ShapeInv'
  BY <1>0, <1>1, SMTT(30) DEF ShapeInv, InSourceOrder
<1>2. CASE Leaves \/ IsPulled \/ (\E kind \in AnyKind : Skips(kind))
  BY <1>1, <1>2 DEF Leaves, streamVars, IsPulled, Skips
<1>3. CASE Begins \/ Opens
  BY <1>1, <1>3 DEF Begins, Opens, StandInv
<1>4. CASE Breaks
  <2>1. /\ chunks' = chunks /\ survivors' = <<>> /\ phase' = "Done" /\ streamEnd' = "failed"
    BY <1>4 DEF Breaks, StreamFails
  <2>2. InSourceOrder(Append(chunks, <<>>))
    BY <1>0, OrderRestarts DEF ShapeInv
  <2>. QED
    BY <1>0, <2>1, <2>2 DEF ShapeInv
<1>5. ASSUME NEW kind \in AnyKind, Takes(kind)
      PROVE  /\ RowOf(kind) \in Rows /\ Append(survivors, RowOf(kind)) \in Seq(Rows)
             /\ Len(Append(survivors, RowOf(kind))) = Len(survivors) + 1
             /\ InSourceOrder(Append(chunks, Append(survivors, RowOf(kind))))
  <2>1. RowOf(kind) \in Rows /\ RowOf(kind).line = Len(log) + 1
    BY <1>0 DEF RowOf, Rows
  <2>2. phase = "Streaming"
    BY <1>5 DEF Takes
  <2>3. /\ \A k \in DOMAIN chunks : \A i \in DOMAIN chunks[k] :
             chunks[k][i].line < RowOf(kind).line
        /\ \A i \in DOMAIN survivors : survivors[i].line < RowOf(kind).line
    BY <1>0, <2>1, <2>2, RowsBehind
  <2>4. InSourceOrder(Append(chunks, survivors))
    BY DEF ShapeInv
  <2>. QED
    <3> DEFINE row == RowOf(kind)
    <3> HIDE DEF row
    <3>1. row \in Rows /\ InSourceOrder(Append(chunks, Append(survivors, row)))
      BY <1>0, <2>1, <2>3, <2>4, OrderGrows, Zenon DEF row
    <3>2. Append(survivors, row) \in Seq(Rows) /\ Len(Append(survivors, row)) = Len(survivors) + 1
      BY <1>0, <3>1
    <3>. QED
      BY <3>1, <3>2 DEF row
<1>6. ASSUME NEW kind \in AnyKind, Holds(kind) PROVE ShapeInv'
  <2>1. /\ chunks' = chunks /\ phase' = phase /\ streamEnd' = streamEnd
        /\ survivors' = Append(survivors, RowOf(kind)) /\ Len(survivors') # ChunkRows
        /\ Len(survivors') = Len(survivors) + 1
        /\ InSourceOrder(Append(chunks, survivors'))
    BY <1>5, <1>6 DEF Holds, Takes
  <2>. QED
    BY <1>0, <2>1 DEF ShapeInv
<1>7. ASSUME NEW kind \in AnyKind, Fills(kind) PROVE ShapeInv'
  <2> DEFINE rows == Append(survivors, RowOf(kind))
  <2>1. /\ chunks' = Append(chunks, rows) /\ survivors' = <<>> /\ Len(rows) = ChunkRows
        /\ phase = "Streaming" /\ phase' = phase /\ streamEnd' = streamEnd
        /\ rows \in Seq(Rows) /\ InSourceOrder(Append(chunks, rows))
    BY <1>5, <1>7 DEF Fills, Takes
  <2> HIDE DEF rows
  <2>2. InSourceOrder(Append(chunks', survivors'))
    BY <1>0, <2>1, OrderRestarts
  <2>3. /\ DOMAIN chunks' = DOMAIN chunks \union {Len(chunks) + 1}
        /\ chunks'[Len(chunks) + 1] = rows
        /\ \A k \in DOMAIN chunks : chunks'[k] = chunks[k]
        /\ chunks' # <<>>
    <3> DEFINE all == Append(chunks, rows)
    <3>1. chunks' = all
      BY <2>1
    <3>2. chunks \in Seq(Seq(Rows))
      BY <1>0
    <3>3. /\ DOMAIN all = DOMAIN chunks \union {Len(chunks) + 1}
          /\ Len(all) = Len(chunks) + 1 /\ all # <<>>
          /\ all[Len(chunks) + 1] = rows
          /\ \A k \in DOMAIN chunks : all[k] = chunks[k]
      BY <3>2, AppendIs, ZenonT(60)
    <3> HIDE DEF all
    <3>. QED
      BY <3>1, <3>3
  <2>4. \A k \in DOMAIN chunks' : Len(chunks'[k]) = ChunkRows
    BY <2>1, <2>3 DEF ShapeInv
  <2>5. \A k \in DOMAIN chunks' : chunks'[k] # <<>>
    BY <1>0, <2>4
  <2>. QED
    BY <1>0, <2>1, <2>2, <2>3, <2>4, <2>5 DEF ShapeInv
<1>8. CASE Empties
  <2>1. /\ chunks' = chunks /\ survivors = <<>> /\ survivors' = <<>> /\ chunks # <<>>
        /\ phase' = "FinalCheck" /\ streamEnd' = streamEnd
    BY <1>8 DEF Empties, Drains
  <2>. QED
    BY <1>0, <2>1 DEF ShapeInv
<1>9. CASE Flushes
  <2>1. /\ chunks' = Append(chunks, survivors) /\ survivors' = <<>>
        /\ ~(survivors = <<>> /\ chunks # <<>>)
        /\ phase = "Streaming" /\ phase' = "FinalCheck" /\ streamEnd' = streamEnd
    BY <1>9 DEF Flushes, Drains
  <2>2. InSourceOrder(Append(chunks', survivors'))
    BY <1>0, <2>1, OrderRestarts DEF ShapeInv
  <2>3. /\ DOMAIN chunks' = DOMAIN chunks \union {Len(chunks) + 1}
        /\ Len(chunks') = Len(chunks) + 1
        /\ chunks'[Len(chunks) + 1] = survivors
        /\ \A k \in DOMAIN chunks : chunks'[k] = chunks[k]
        /\ chunks' # <<>>
    BY <1>0, <2>1
  <2>4. \A k \in DOMAIN chunks : Len(chunks[k]) = ChunkRows
    BY <2>1 DEF ShapeInv
  <2>5. \A k \in DOMAIN chunks : chunks[k] # <<>>
    BY <1>0, <2>4
  <2>6. \A k \in DOMAIN chunks' : chunks'[k] = <<>> => Len(chunks') = 1
    BY <1>0, <2>1, <2>3, <2>5
  <2>7. \A k \in DOMAIN chunks' :
          Len(chunks'[k]) <= ChunkRows /\ (k < Len(chunks') => Len(chunks'[k]) = ChunkRows)
    BY <1>0, <2>3, <2>4 DEF ShapeInv
  <2>8. Len(survivors') < ChunkRows
    BY <1>0, <2>1
  <2>. QED
    BY <2>1, <2>2, <2>3, <2>6, <2>7, <2>8 DEF ShapeInv
<1>10. CASE Ends
  <2>1. /\ phase = "FinalCheck" /\ phase' = "Done" /\ UNCHANGED <<survivors, chunks>>
    BY <1>10 DEF Ends
  <2>. QED
    BY <1>0, <2>1 DEF ShapeInv
<1>. QED
  BY StepMoves, <1>2, <1>3, <1>4, <1>6, <1>7, <1>8, <1>9, <1>10 DEF Moves

-----------------------------------------------------------------------------
(* What pass 1 notes.                                                      *)

\* Failures are counted, and none comes without being counted.
SinkMoves ==
  \/ sinkFaults' = sinkFaults + 1
  \/ /\ sinkFaults' = sinkFaults
     /\ (sinkError' => sinkError \/ spillError) /\ (spillError' => spillError)

LEMMA StepFaults ==
  ASSUME TypeOK, [Next]_vars
  PROVE  /\ SinkMoves
         /\ readFaults' \in Nat /\ readFaults <= readFaults'
         /\ edits' \in Nat /\ edits <= edits'
         /\ sinkFaults' \in Nat /\ sinkFaults <= sinkFaults'
<1> USE DEF sourceVars, sinkVars, spillVars
<1>1. SinkMoves
  <2>1. CASE ObserveLine
    <3>1. ASSUME NEW line, NEW origin, SinkRecord(line, origin), spillError' = spillError
          PROVE  SinkMoves
      <4>1. \/ sinkFaults' = sinkFaults /\ sinkError' = sinkError
            \/ sinkFaults' = sinkFaults + 1
        BY <3>1, Zenon DEF SinkRecord
      <4>. QED
        BY <3>1, <4>1, Zenon DEF SinkMoves
    <3>2. ASSUME NEW line, SpillRecord(line), sinkError' = sinkError PROVE SinkMoves
      <4>1. \/ sinkFaults' = sinkFaults /\ spillError' = spillError
            \/ sinkFaults' = sinkFaults + 1
        BY <3>2, Zenon DEF SpillRecord
      <4>. QED
        BY <3>2, <4>1, Zenon DEF SinkMoves
    <3>3. CASE UNCHANGED <<sinkVars, spillVars>>
      BY <3>3, Zenon DEF SinkMoves
    <3>. QED
      BY <2>1, <3>1, <3>2, <3>3, Zenon DEF ObserveLine
  <2>2. CASE ObserveFault
    BY <2>2, Zenon DEF ObserveFault, SinkRecord, Discard, SinkMoves
  <2>3. CASE VerdictFails \/ VerdictPasses
    BY <2>3, Zenon DEF VerdictFails, VerdictPasses, Discard, MergeSpill, SinkMoves
  <2>4. CASE Finish
    BY <2>4, Zenon DEF Finish, TakeIoError, SinkMoves
  <2>5. CASE UNCHANGED <<sinkFaults, sinkError, spillError>>
    BY <2>5, Zenon DEF SinkMoves
  <2>6. CASE Edit \/ Pull \/ Open \/ StreamLine \/ StreamFault \/ LastChunk \/ FinalCheck
    BY <2>5, <2>6, Zenon DEF Edit, Pull, Open, StreamLine, StreamFault, LastChunk, FinalCheck
  <2>. QED
    BY <2>1, <2>2, <2>3, <2>4, <2>5, <2>6, Zenon DEF Next, Over, vars
<1>2. readFaults' = readFaults \/ readFaults' = readFaults + 1
  <2>1. ObserveLine \/ StreamLine => readFaults' = readFaults
    BY Zenon DEF ObserveLine, StreamLine, ReadLine
  <2>. QED
    BY <2>1, Zenon DEF Next, Edit, ObserveFault, ReadFault, VerdictFails, VerdictPasses,
       Pull, Open, StreamFault, LastChunk, FinalCheck, Finish, Over, vars
<1>3. edits' = edits \/ edits' = edits + 1
  BY Zenon DEF Next, Edit, ObserveLine, ObserveFault, VerdictFails, VerdictPasses,
     Pull, Open, StreamLine, StreamFault, LastChunk, FinalCheck, Finish, Over, vars
<1>4. sinkFaults' = sinkFaults \/ sinkFaults' = sinkFaults + 1
  BY <1>1, Zenon DEF SinkMoves
<1>. QED
  BY <1>1, <1>2, <1>3, <1>4, SMTT(30) DEF TypeOK

\* A rejection of a line after all noted ones is noted behind them.
LEMMA SinkRecordNotes ==
  ASSUME TypeOK, NEW line \in Nat, NEW origin \in {"parse", "validation"},
         SinkRecord(line, origin),
         Ascending(sinkLines), \A m \in ToSet(sinkLines) : m < line,
         sinkCount = Len(sinkLines), ~sinkError => LineOf(artifact) = sinkLines
  PROVE  /\ sinkLines' = Append(sinkLines, line)
         /\ Ascending(sinkLines') /\ ToSet(sinkLines') = ToSet(sinkLines) \union {line}
         /\ sinkCount' = Len(sinkLines')
         /\ ~sinkError' =>
              /\ ~sinkError /\ LineOf(artifact') = sinkLines'
              /\ artifact' = Append(artifact, [line |-> line, origin |-> origin])
<1>1. /\ sinkLines \in Seq(Nat) /\ artifact \in Seq(Entries) /\ sinkCount \in Nat
      /\ sinkLines' = Append(sinkLines, line) /\ sinkCount' = sinkCount + 1
  BY DEF SinkRecord, TypeOK
<1>2. Ascending(Append(sinkLines, line))
  BY <1>1, AscendingAppend
<1>3. ToSet(Append(sinkLines, line)) = ToSet(sinkLines) \union {line}
  BY <1>1, ToSetAppend
<1>4. sinkCount' = Len(Append(sinkLines, line))
  BY <1>1
<1>5. ~sinkError' => /\ ~sinkError
                     /\ artifact' = Append(artifact, [line |-> line, origin |-> origin])
  <2>1. \/ ~sinkError /\ artifact' = Append(artifact, [line |-> line, origin |-> origin])
        \/ sinkError' = TRUE
        \/ sinkError /\ sinkError' = sinkError
    BY Zenon DEF SinkRecord
  <2>2. sinkError /\ sinkError' = sinkError => sinkError'
    <3>1. sinkError \in BOOLEAN
      BY DEF TypeOK
    <3>. QED
      BY <3>1
  <2>3. sinkError' = TRUE => sinkError'
    BY Zenon
  <2>. QED
    BY <2>1, <2>2, <2>3, Zenon
<1>6. LineOf(Append(artifact, [line |-> line, origin |-> origin])) =
        Append(LineOf(artifact), line)
  <2>1. [line |-> line, origin |-> origin] \in Entries
    BY DEF Entries
  <2> DEFINE entry == [line |-> line, origin |-> origin]
  <2>2. entry.line = line
    OBVIOUS
  <2> HIDE DEF entry
  <2>3. LineOf(Append(artifact, entry)) = Append(LineOf(artifact), entry.line)
    BY <1>1, <2>1, LineOfAppend DEF entry
  <2>. QED
    BY <2>2, <2>3 DEF entry
<1>. QED
  BY <1>1, <1>2, <1>3, <1>4, <1>5, <1>6, Zenon

LEMMA ObserveLineNotes == ASSUME TypeOK, Noted, ObserveLine PROVE Noted'
<1>1. PICK kind \in Kinds :
        /\ ReadLine(kind)
        /\ IF kind = "broken"
           THEN SinkRecord(NextLine, "parse") /\ UNCHANGED spillVars
           ELSE IF kind = "bad" /\ format = "csv" /\ verdictOk
           THEN SinkRecord(NextLine, "validation") /\ UNCHANGED spillVars
           ELSE IF kind = "bad" /\ format = "jsonl"
           THEN SpillRecord(NextLine)
                /\ UNCHANGED <<sinkLines, sinkCount, artifact, sinkError>>
           ELSE UNCHANGED <<sinkVars, spillVars>>
  BY Zenon DEF ObserveLine
<1>2. /\ kind \in AnyKind /\ log' = Append(log, kind) /\ dead' = dead
      /\ NextLine = Len(log) + 1 /\ NextLine \in Nat
  BY <1>1, KindsIn, ReadLineIs
<1>3. UNCHANGED <<format, verdictOk>>
  BY Zenon DEF ObserveLine, sourceVars
<1>4. Recorded' = Recorded /\ SpilledKinds' = SpilledKinds
  BY <1>3 DEF Recorded, SpilledKinds
<1>5. /\ log \in Seq(AnyKind) /\ spill \in Seq(Nat) /\ artifact \in Seq(Entries)
      /\ format \in {"csv", "jsonl"}
  BY DEF TypeOK
<1>6. \A kinds : \A m \in LinesOf(log, kinds) : m < NextLine
  BY <1>2, <1>5, LinesAre
<1>7. \A kinds : LinesOf(log', kinds) =
        IF kind \in kinds THEN LinesOf(log, kinds) \union {NextLine} ELSE LinesOf(log, kinds)
  BY <1>2, <1>5, LinesAppend
<1>8. ASSUME NEW origin \in {"parse", "validation"}, SinkRecord(NextLine, origin),
             UNCHANGED spillVars, kind \in Recorded, kind \notin SpilledKinds,
             origin = "parse" \/ (format = "csv" /\ verdictOk)
      PROVE  Noted'
  <2>1. \A m \in ToSet(sinkLines) : m < NextLine
    BY <1>6 DEF Noted
  <2>2. /\ Ascending(sinkLines') /\ ToSet(sinkLines') = ToSet(sinkLines) \union {NextLine}
        /\ sinkCount' = Len(sinkLines')
        /\ ~sinkError' =>
             /\ ~sinkError /\ LineOf(artifact') = sinkLines'
             /\ artifact' = Append(artifact, [line |-> NextLine, origin |-> origin])
    BY <1>2, <1>8, <2>1, SinkRecordNotes DEF Noted
  <2>3. /\ ToSet(sinkLines') = LinesOf(log', Recorded')
        /\ ToSet(spill') = LinesOf(log', SpilledKinds') /\ Ascending(spill')
    BY <1>4, <1>7, <1>8, <2>2 DEF Noted, spillVars
  <2>4. ASSUME ~sinkError', ~(format = "csv" /\ verdictOk), NEW k \in DOMAIN artifact'
        PROVE  artifact'[k].origin = "parse"
    <3>1. /\ ~sinkError /\ origin = "parse"
          /\ artifact' = Append(artifact, [line |-> NextLine, origin |-> "parse"])
      BY <1>8, <2>2, <2>4
    <3>2. \A n \in DOMAIN artifact : artifact[n].origin = "parse"
      BY <2>4, <3>1 DEF Noted
    <3> DEFINE entry == [line |-> NextLine, origin |-> "parse"]
    <3>3. entry.origin = "parse"
      OBVIOUS
    <3> HIDE DEF entry
    <3>4. k \in DOMAIN Append(artifact, entry)
      BY <2>4, <3>1 DEF entry
    <3>5. \/ k \in DOMAIN artifact /\ artifact'[k] = artifact[k]
          \/ artifact'[k] = entry
      <4>1. artifact' = Append(artifact, entry)
        BY <3>1 DEF entry
      <4>2. \/ k \in DOMAIN artifact /\ Append(artifact, entry)[k] = artifact[k]
            \/ Append(artifact, entry)[k] = entry
        BY <1>5, <3>4
      <4>. QED
        BY <4>1, <4>2, Zenon
    <3>. QED
      BY <3>2, <3>3, <3>5
  <2>5. ~dead'
    BY <1>2 DEF Noted
  <2>. QED
    BY <1>3, <2>2, <2>3, <2>4, <2>5, Zenon DEF Noted
<1>9. CASE /\ SpillRecord(NextLine) /\ kind = "bad" /\ format = "jsonl"
           /\ UNCHANGED <<sinkLines, sinkCount, artifact, sinkError>>
  <2>1. kind \in SpilledKinds /\ kind \notin Recorded
    BY <1>9 DEF Recorded, SpilledKinds
  <2>2. spill' = Append(spill, NextLine)
    BY <1>9, Zenon DEF SpillRecord
  <2>3. \A m \in ToSet(spill) : m < NextLine
    BY <1>6 DEF Noted
  <2>4. Ascending(spill') /\ ToSet(spill') = ToSet(spill) \union {NextLine}
    BY <1>2, <1>5, <2>2, <2>3, AscendingAppend, ToSetAppend DEF Noted
  <2>5. /\ ToSet(sinkLines') = LinesOf(log', Recorded')
        /\ ToSet(spill') = LinesOf(log', SpilledKinds')
    <3>1. sinkLines' = sinkLines
      BY <1>9
    <3>. QED
      BY <1>4, <1>7, <2>1, <2>4, <3>1 DEF Noted
  <2>. QED
    BY <1>2, <1>3, <1>9, <2>4, <2>5, Zenon DEF Noted
<1>10. CASE /\ UNCHANGED <<sinkVars, spillVars>>
            /\ kind \notin Recorded /\ kind \notin SpilledKinds
  <2>1. UNCHANGED <<sinkLines, sinkCount, artifact, sinkError, spill>>
    BY <1>10 DEF sinkVars, spillVars
  <2>2. /\ ToSet(sinkLines') = LinesOf(log', Recorded')
        /\ ToSet(spill') = LinesOf(log', SpilledKinds')
    BY <1>4, <1>7, <1>10, <2>1 DEF Noted
  <2>. QED
    BY <1>2, <1>3, <2>1, <2>2, Zenon DEF Noted
<1>11. CASE kind = "broken"
  <2>1. kind \in Recorded /\ kind \notin SpilledKinds
    BY <1>11 DEF Recorded, SpilledKinds
  <2>. QED
    BY <1>1, <1>8, <1>11, <2>1
<1>12. CASE kind = "bad" /\ format = "csv" /\ verdictOk
  <2>1. kind \in Recorded /\ kind \notin SpilledKinds
    BY <1>12 DEF Recorded, SpilledKinds
  <2>. QED
    BY <1>1, <1>8, <1>12, <2>1
<1>13. CASE kind = "bad" /\ format = "jsonl"
  BY <1>1, <1>9, <1>13
<1>14. CASE /\ kind # "broken" /\ ~(kind = "bad" /\ format = "jsonl")
            /\ ~(kind = "bad" /\ format = "csv" /\ verdictOk)
  <2>1. kind \notin Recorded /\ kind \notin SpilledKinds
    BY <1>5, <1>14 DEF Recorded, SpilledKinds
  <2>. QED
    BY <1>1, <1>10, <1>14, <2>1
<1>. QED
  BY <1>11, <1>12, <1>13, <1>14

LEMMA NotedInvStep == TypeOK /\ StandInv /\ NotedInv /\ [Next]_vars => NotedInv'
<1> SUFFICES ASSUME TypeOK, StandInv, NotedInv, [Next]_vars PROVE NotedInv'
  OBVIOUS
<1>0. /\ pc = "pass1" /\ readFaults = 0 => Noted
      /\ sinkFaults = 0 => ~sinkError /\ ~spillError
  BY DEF NotedInv
<1>1. sinkFaults' = 0 => ~sinkError' /\ ~spillError'
  <2>1. sinkFaults' = 0 => sinkFaults = 0 /\ sinkFaults' # sinkFaults + 1
    BY StepFaults DEF TypeOK
  <2>. QED
    BY <1>0, <2>1, StepFaults, Zenon DEF SinkMoves
<1>2. ASSUME pc' = "pass1", readFaults' = 0 PROVE Noted'
  <2>1. readFaults = 0 /\ readFaults' # readFaults + 1
    BY <1>2, StepFaults DEF TypeOK
  <2>2. ~ObserveFault
    BY <2>1, Zenon DEF ObserveFault, ReadFault
  <2>3. CASE ObserveLine
    BY <1>0, <2>1, <2>3, ObserveLineNotes DEF ObserveLine
  <2>4. CASE Edit \/ UNCHANGED vars
    <3>1. UNCHANGED <<pc, format, verdictOk, log, dead, sinkLines, sinkCount, artifact,
                      sinkError, spill>>
      BY <2>4 DEF Edit, vars, sourceVars, sinkVars, spillVars
    <3>. QED
      BY <1>0, <1>2, <2>1, <3>1
         DEF Noted, Recorded, SpilledKinds, Ascending, ToSet, LinesOf, LineOf
  <2>5. CASE \/ VerdictFails \/ VerdictPasses \/ Pull \/ Open \/ StreamLine \/ StreamFault
             \/ LastChunk \/ FinalCheck \/ Finish \/ Over
    <3>1. pc' # "pass1"
      <4>1. CASE VerdictFails \/ VerdictPasses \/ Pull \/ Finish
        BY <4>1, Zenon DEF VerdictFails, VerdictPasses, Pull, Finish
      <4>2. CASE Open \/ StreamLine \/ StreamFault \/ LastChunk \/ FinalCheck
        <5>1. pulling /\ pc' = pc
          BY <4>2, Zenon DEF Open, StreamLine, StreamFault, LastChunk, FinalCheck
        <5>. QED
          BY <5>1 DEF StandInv
      <4>3. CASE Over
        BY <4>3, Zenon DEF Over, vars
      <4>. QED
        BY <2>5, <4>1, <4>2, <4>3
    <3>. QED
      BY <1>2, <3>1
  <2>. QED
    BY <2>2, <2>3, <2>4, <2>5 DEF Next
<1>. QED
  BY <1>1, <1>2, Zenon DEF NotedInv

-----------------------------------------------------------------------------
(* The artifact.                                                           *)

LEMMA AscendingDistinct ==
  ASSUME NEW s \in Seq(Nat), Ascending(s), NEW k \in DOMAIN s, NEW m \in DOMAIN s, k # m
  PROVE  s[k] # s[m]
<1>1. (k < m \/ m < k) /\ s[k] \in Nat /\ s[m] \in Nat
  OBVIOUS
<1>. QED
  BY <1>1 DEF Ascending

\* Two ascending lists without a line in common interleave to one.
LEMMA InterleavedWhole ==
  ASSUME NEW s \in Seq(Entries), NEW u \in Seq(Entries),
         Ascending(LineOf(s)), Ascending(LineOf(u)),
         ToSet(LineOf(s)) \intersect ToSet(LineOf(u)) = {}
  PROVE  /\ Interleaved(s \o u) \in Seq(Entries)
         /\ Ascending(LineOf(Interleaved(s \o u)))
         /\ ToSet(LineOf(Interleaved(s \o u))) = ToSet(LineOf(s)) \union ToSet(LineOf(u))
<1> DEFINE all == s \o u
<1>1. /\ Len(s) \in Nat /\ Len(u) \in Nat
      /\ DOMAIN s = 1 .. Len(s) /\ DOMAIN u = 1 .. Len(u)
      /\ all \in Seq(Entries) /\ DOMAIN all = 1 .. Len(s) + Len(u)
      /\ \A k \in 1 .. Len(s) : all[k] = s[k]
      /\ \A k \in 1 .. Len(u) : all[Len(s) + k] = u[k]
  OBVIOUS
<1>2. /\ LineOf(s) \in Seq(Nat) /\ DOMAIN LineOf(s) = DOMAIN s
      /\ \A k \in DOMAIN s : LineOf(s)[k] = s[k].line
      /\ ToSet(LineOf(s)) = { s[k].line : k \in DOMAIN s }
  BY LineOfIs
<1>3. /\ LineOf(u) \in Seq(Nat) /\ DOMAIN LineOf(u) = DOMAIN u
      /\ \A k \in DOMAIN u : LineOf(u)[k] = u[k].line
      /\ ToSet(LineOf(u)) = { u[k].line : k \in DOMAIN u }
  BY LineOfIs
<1> HIDE DEF all
<1>4. ToSet(LineOf(all)) = { all[k].line : k \in DOMAIN all }
  BY <1>1, LineOfIs
<1>5. ASSUME NEW k \in DOMAIN all
      PROVE  \/ k \in DOMAIN s /\ all[k] = s[k]
             \/ k - Len(s) \in DOMAIN u /\ all[k] = u[k - Len(s)]
  <2>1. CASE k <= Len(s)
    BY <1>1, <2>1
  <2>2. CASE k > Len(s)
    <3>1. k - Len(s) \in 1 .. Len(u) /\ Len(s) + (k - Len(s)) = k
      BY <1>1, <2>2
    <3>. QED
      BY <1>1, <3>1
  <2>. QED
    BY <1>1, <2>1, <2>2
<1>6. ToSet(LineOf(all)) = ToSet(LineOf(s)) \union ToSet(LineOf(u))
  <2>1. ASSUME NEW k \in DOMAIN s PROVE k \in DOMAIN all /\ all[k] = s[k]
    BY <1>1
  <2>2. ASSUME NEW k \in DOMAIN u
        PROVE  Len(s) + k \in DOMAIN all /\ all[Len(s) + k] = u[k]
    BY <1>1
  <2>3. ToSet(LineOf(all)) \subseteq ToSet(LineOf(s)) \union ToSet(LineOf(u))
    BY <1>2, <1>3, <1>4, <1>5
  <2>4. ToSet(LineOf(s)) \subseteq ToSet(LineOf(all))
    BY <1>2, <1>4, <2>1
  <2>5. ToSet(LineOf(u)) \subseteq ToSet(LineOf(all))
    BY <1>3, <1>4, <2>2
  <2>. QED
    BY <2>3, <2>4, <2>5
<1>7. ASSUME NEW k \in DOMAIN all, NEW m \in DOMAIN all, k # m
      PROVE  all[k].line # all[m].line
  <2>1. CASE k \in DOMAIN s /\ all[k] = s[k] /\ m \in DOMAIN s /\ all[m] = s[m]
    BY <1>2, <1>7, <2>1, AscendingDistinct
  <2>2. CASE /\ k - Len(s) \in DOMAIN u /\ all[k] = u[k - Len(s)]
             /\ m - Len(s) \in DOMAIN u /\ all[m] = u[m - Len(s)]
    <3>1. k - Len(s) # m - Len(s)
      BY <1>1, <1>7
    <3>. QED
      BY <1>3, <2>2, <3>1, AscendingDistinct
  <2>3. CASE /\ k \in DOMAIN s /\ all[k] = s[k]
             /\ m - Len(s) \in DOMAIN u /\ all[m] = u[m - Len(s)]
    BY <1>2, <1>3, <2>3
  <2>4. CASE /\ m \in DOMAIN s /\ all[m] = s[m]
             /\ k - Len(s) \in DOMAIN u /\ all[k] = u[k - Len(s)]
    BY <1>2, <1>3, <2>4
  <2>. QED
    BY <1>5, <2>1, <2>2, <2>3, <2>4
<1>8. /\ Interleaved(all) \in Seq(Entries)
      /\ ToSet(LineOf(Interleaved(all))) = ToSet(LineOf(all))
      /\ Ascending(LineOf(Interleaved(all)))
  BY <1>1, <1>7, InterleavedResult
<1>. QED
  BY <1>6, <1>8 DEF all

LEMMA LinesUnion ==
  \A lines, a, b : LinesOf(lines, a \union b) = LinesOf(lines, a) \union LinesOf(lines, b)
BY DEF LinesOf

\* The verdict passes: the spill joins the artifact.
LEMMA MergeSpillWhole ==
  ASSUME TypeOK, Noted, verdictOk, MergeSpill, ~sinkError'
  PROVE  /\ Ascending(LineOf(artifact')) /\ Len(artifact') = sinkCount'
         /\ ToSet(sinkLines') = Rejections(log)
         /\ ToSet(LineOf(artifact')) = ToSet(sinkLines')
<1> DEFINE merged == Interleaved(artifact \o Spilled)
<1>1. \/ /\ sinkError' = (sinkError \/ spillError)
         /\ sinkError \/ spillError \/ spill = <<>>
         /\ UNCHANGED <<sinkLines, sinkCount, artifact>>
      \/ /\ ~(sinkError \/ spillError) /\ artifact' = merged
         /\ sinkLines' = [k \in DOMAIN merged |-> merged[k].line]
         /\ sinkCount' = Len(merged)
  BY Zenon DEF MergeSpill
<1>2. ~(sinkError \/ spillError)
  <2>1. sinkError' = (sinkError \/ spillError) => ~(sinkError \/ spillError)
    OBVIOUS
  <2>. QED
    BY <1>1, <2>1, Zenon
<1>3. LineOf(artifact) = sinkLines /\ LineOf(Spilled) = spill
  BY <1>2, SpilledType DEF Noted
<1>4. /\ artifact \in Seq(Entries) /\ Spilled \in Seq(Entries)
      /\ sinkLines \in Seq(Nat) /\ spill \in Seq(Nat) /\ log \in Seq(AnyKind)
      /\ format \in {"csv", "jsonl"}
  BY SpilledType DEF TypeOK
<1>5. ToSet(sinkLines) \union ToSet(spill) = Rejections(log)
  <2>1. Recorded \union SpilledKinds = {"broken", "bad"}
    BY <1>4 DEF Recorded, SpilledKinds
  <2>. QED
    BY <2>1, LinesUnion DEF Noted, Rejections
<1>6. ToSet(sinkLines) \intersect ToSet(spill) = {}
  <2>1. Recorded \intersect SpilledKinds = {}
    BY <1>4 DEF Recorded, SpilledKinds
  <2>. QED
    BY <2>1 DEF Noted, LinesOf
<1>7. Len(LineOf(artifact)) = Len(artifact)
  BY <1>4, LineOfIs
<1> HIDE DEF merged
<1>8. CASE UNCHANGED <<sinkLines, sinkCount, artifact>> /\ spill = <<>>
  <2>1. ToSet(spill) = {}
    BY <1>8, ToSetEmpty
  <2>. QED
    BY <1>3, <1>5, <1>7, <1>8, <2>1 DEF Noted
<1>9. CASE /\ artifact' = merged /\ sinkCount' = Len(merged)
           /\ sinkLines' = [k \in DOMAIN merged |-> merged[k].line]
  <2>1. /\ Ascending(LineOf(merged))
        /\ ToSet(LineOf(merged)) = ToSet(sinkLines) \union ToSet(spill)
    BY <1>3, <1>4, <1>6, InterleavedWhole DEF Noted, merged
  <2>2. sinkLines' = LineOf(merged)
    BY <1>9 DEF LineOf
  <2>. QED
    BY <1>5, <1>9, <2>1, <2>2
<1>. QED
  BY <1>1, <1>2, <1>8, <1>9

LEMMA ArtifactInvStep ==
  TypeOK /\ StandInv /\ NotedInv /\ ArtifactInv /\ [Next]_vars => ArtifactInv'
<1> SUFFICES ASSUME TypeOK, StandInv, NotedInv, ArtifactInv, [Next]_vars,
                    pc' # "pass1", readFaults' = 0, ~sinkError'
             PROVE  /\ Ascending(LineOf(artifact')) /\ Len(artifact') = sinkCount'
                    /\ \/ /\ pc' # "stream" /\ expect' = NoExpectations
                          /\ \A k \in DOMAIN artifact' : artifact'[k].origin = "parse"
                       \/ /\ pc' # "failed" /\ expect'.rejected = Rejections(expect'.log)
                          /\ ToSet(LineOf(artifact')) = expect'.rejected
  <2>1. Ascending(LineOf(artifact))' <=> Ascending(LineOf(artifact'))
    BY DEF Ascending, LineOf
  <2>2. (ToSet(LineOf(artifact)))' = ToSet(LineOf(artifact'))
    BY DEF ToSet, LineOf
  <2>3. Rejections(expect.log)' = Rejections(expect'.log)
    BY DEF Rejections, LinesOf
  <2>. QED
    BY <2>1, <2>2, <2>3, Zenon DEF ArtifactInv
<1>1. readFaults = 0 /\ readFaults' # readFaults + 1
  BY StepFaults DEF TypeOK
<1>2. ~ObserveLine /\ ~ObserveFault
  BY <1>1, Zenon DEF ObserveLine, ObserveFault, ReadFault
<1>3. CASE VerdictFails
  <2>1. /\ pc = "pass1" /\ ~(verdictOk /\ HasFields) /\ Discard /\ pc' = "failed"
        /\ UNCHANGED <<sinkCount, artifact, expect>>
    BY <1>3, Zenon DEF VerdictFails, streamVars
  <2>2. ~sinkError
    BY <2>1, Zenon DEF Discard
  <2>3. Noted /\ expect = NoExpectations
    BY <1>1, <2>1 DEF NotedInv, StandInv
  <2>4. LineOf(artifact) = sinkLines /\ Len(artifact) = Len(LineOf(artifact))
    BY <2>2, <2>3, LineOfIs DEF Noted, TypeOK
  <2>5. ~(format = "csv" /\ verdictOk)
    BY <2>1 DEF HasFields
  <2>. QED
    BY <2>1, <2>2, <2>3, <2>4, <2>5 DEF Noted
<1>4. CASE VerdictPasses
  <2>1. /\ pc = "pass1" /\ verdictOk /\ MergeSpill /\ pc' = "stream"
        /\ expect' = [rejected |-> ToSet(sinkLines'), records |-> count,
                      log |-> log, header |-> header]
    BY <1>4, Zenon DEF VerdictPasses
  <2>2. Noted
    BY <1>1, <2>1 DEF NotedInv
  <2>3. expect'.rejected = ToSet(sinkLines') /\ expect'.log = log
    BY <2>1
  <2>4. /\ Ascending(LineOf(artifact')) /\ Len(artifact') = sinkCount'
        /\ ToSet(sinkLines') = Rejections(log)
        /\ ToSet(LineOf(artifact')) = ToSet(sinkLines')
    BY <2>1, <2>2, MergeSpillWhole
  <2>. QED
    BY <2>1, <2>3, <2>4
<1>5. CASE Finish
  <2>1. /\ pc # "pass1" /\ pc' = "over" /\ expect' = expect
        /\ UNCHANGED sinkVars \/ sinkError' = TRUE
    BY <1>5, Zenon DEF Finish, TakeIoError, streamVars
  <2>2. UNCHANGED <<artifact, sinkCount, sinkError>>
    BY <2>1, Zenon DEF sinkVars
  <2>. QED
    BY <1>1, <2>1, <2>2 DEF ArtifactInv
<1>6. CASE UNCHANGED <<artifact, sinkCount, sinkError, expect, pc>>
  BY <1>1, <1>6 DEF ArtifactInv
<1>7. CASE Edit \/ Pull \/ Open \/ StreamLine \/ StreamFault \/ LastChunk \/ FinalCheck
  <2>1. UNCHANGED <<sinkVars, pc>>
    BY <1>7, Zenon DEF Edit, Pull, Open, StreamLine, StreamFault, LastChunk, FinalCheck
  <2>2. expect' = expect
    <3>1. ~Begins
      BY <2>1 DEF Begins
    <3>. QED
      BY <3>1, StepMoves, Zenon
         DEF Moves, Leaves, IsPulled, Opens, Breaks, Skips, Holds, Fills, Takes, Empties,
             Flushes, Drains, Ends, InPull, streamVars
  <2>. QED
    BY <1>6, <2>1, <2>2 DEF sinkVars
<1>8. CASE Over \/ UNCHANGED vars
  BY <1>6, <1>8 DEF Over, vars, sinkVars, streamVars
<1>. QED
  BY <1>2, <1>3, <1>4, <1>5, <1>7, <1>8 DEF Next

-----------------------------------------------------------------------------
(* A source that nobody edits and that is read without a fault.            *)

\* The next line is read.
LEMMA ReadsOn ==
  ASSUME TypeOK, ReadsFile, NEW kind \in Kinds, ReadLine(kind), file' = file
  PROVE  ReadsFile' /\ kind = file[NextLine] /\ NextLine \in 1 .. Len(file)
<1>1. /\ kind \in AnyKind /\ log \in Seq(AnyKind) /\ file \in Seq(AnyKind)
      /\ count \in Nat
  BY KindsIn DEF TypeOK
<1>2. /\ log' = Append(log, kind) /\ dead' = dead /\ ~dead
      /\ count' = (IF kind = "blank" THEN count ELSE count + 1)
      /\ Len(log) + 1 \in DOMAIN file /\ kind = file[Len(log) + 1]
      /\ NextLine = Len(log) + 1
  BY <1>1, ReadLineIs
<1>3. /\ Len(Append(log, kind)) = Len(log) + 1 /\ Append(log, kind)[Len(log) + 1] = kind
      /\ \A n \in 1 .. Len(log) : Append(log, kind)[n] = log[n]
      /\ 1 .. Len(log) + 1 = 1 .. Len(log) \union {Len(log) + 1}
      /\ DOMAIN file = 1 .. Len(file) /\ Len(file) \in Nat /\ Len(log) \in Nat
  BY <1>1
<1>4. count = Cardinality(LinesOf(log, Record))
  BY DEF ReadsFile
<1>5. count' = Cardinality(LinesOf(Append(log, kind), Record))
  <2>1. CASE kind = "blank"
    <3>1. kind \notin Record
      BY <2>1 DEF Record
    <3>. QED
      BY <1>1, <1>2, <1>4, <2>1, <3>1, LinesAppend
  <2>2. CASE kind # "blank"
    <3>1. kind \in Record
      BY <1>1, <2>2 DEF Record
    <3>2. Cardinality(LinesOf(Append(log, kind), Record)) = Cardinality(LinesOf(log, Record)) + 1
      BY <1>1, <3>1, LinesAppend
    <3>. QED
      BY <1>2, <1>4, <2>2, <3>2
  <2>. QED
    BY <2>1, <2>2
<1>6. /\ Len(log') <= Len(file') /\ \A n \in 1 .. Len(log') : log'[n] = file'[n]
  <2> DEFINE more == Append(log, kind)
  <2> HIDE DEF more
  <2>1. Len(more) <= Len(file)
    BY <1>2, <1>3 DEF more
  <2>2. ASSUME NEW n \in 1 .. Len(more) PROVE more[n] = file[n]
    <3>1. n \in 1 .. Len(log) \/ n = Len(log) + 1
      BY <1>3 DEF more
    <3>. QED
      BY <1>2, <1>3, <3>1 DEF ReadsFile, more
  <2>. QED
    BY <1>2, <2>1, <2>2 DEF more
<1>7. count' = Cardinality(LinesOf(log', Record))
  BY <1>2, <1>5
<1>8. ~dead'
  BY <1>2
<1>. QED
  BY <1>2, <1>3, <1>6, <1>7, <1>8, Zenon DEF ReadsFile

\* At the end of its input the pass has read all of the file.
LEMMA ReadAll == ASSUME TypeOK, ReadsFile, AtEnd PROVE log = file
<1>1. log \in Seq(AnyKind) /\ file \in Seq(AnyKind)
  BY DEF TypeOK
<1>2. Len(log) <= Len(file) /\ Len(log) >= Len(file)
  BY DEF ReadsFile, AtEnd
<1>3. Len(log) = Len(file) /\ \A n \in 1 .. Len(log) : log[n] = file[n]
  BY <1>1, <1>2 DEF ReadsFile
<1>. QED
  BY <1>1, <1>3

\* What pass 1 rejected, when nothing failed.
LEMMA ExpectsRejections ==
  ASSUME TypeOK, NotedInv, ArtifactInv, Quiet, pc = "stream", ExpectsFile
  PROVE  expect.rejected = Rejections(file)
<1>1. ~sinkError
  BY DEF NotedInv, Quiet
<1>. QED
  BY <1>1 DEF ArtifactInv, ExpectsFile, Quiet

\* Rows of lines of the file can be built.
LEMMA BuildsFile ==
  ASSUME TypeOK, ExpectsFile, NEW rows \in Seq(Rows),
         \A row \in ToSet(rows) : row.line \in 1 .. Len(file) /\ row.kind = file[row.line]
  PROVE  Builds(rows)
<1> SUFFICES ASSUME NEW k \in DOMAIN rows, rows[k].kind = "odd"
             PROVE  LinesOf(expect.log, {"odd"}) # {}
  BY DEF Builds
<1>1. rows[k].line \in 1 .. Len(file) /\ file[rows[k].line] = "odd"
  BY DEF ToSet
<1>2. rows[k].line \in LinesOf(expect.log, {"odd"})
  BY <1>1 DEF LinesOf, ExpectsFile
<1>. QED
  BY <1>2

\* So is what is held back while pass 2 reads.
LEMMA HeldBack ==
  ASSUME TypeOK, RowsInv, ReadsFile, phase = "Streaming"
  PROVE  \A row \in ToSet(survivors) :
           row.line \in 1 .. Len(file) /\ row.kind = file[row.line]
<1>1. \A row \in ReadRows : row.line \in 1 .. Len(log) /\ row.kind = log[row.line]
  BY LinesAre DEF ReadRows, TypeOK
<1>2. ToSet(survivors) \subseteq ReadRows
  BY DEF RowsInv
<1>3. \A n \in 1 .. Len(log) : n \in 1 .. Len(file) /\ log[n] = file[n]
  BY DEF ReadsFile, TypeOK
<1>. QED
  BY <1>1, <1>2, <1>3

\* A line of the file is taken as pass 1 took it.
LEMMA TakesOn ==
  ASSUME TypeOK, RowsInv, NotedInv, ArtifactInv, Quiet, pc = "stream", ReadsFile,
         ExpectsFile, phase = "Streaming", NEW kind \in AnyKind, kind # "blank",
         NextLine \in 1 .. Len(file), kind = file[NextLine], TakeRecord(kind)
  PROVE  streamEnd' = streamEnd /\ phase' = phase
<1>1. InShape(kind)
  <2>1. kind = "wide" => NextLine \in LinesOf(expect.log, {"wide"})
    BY DEF LinesOf, ExpectsFile
  <2>. QED
    BY <2>1 DEF InShape
<1>2. Agrees(NextLine, kind \notin Survivor)
  <2>1. kind \notin Survivor <=> kind \in {"broken", "bad"}
    BY DEF AnyKind, Survivor
  <2>2. NextLine \in expect.rejected <=> kind \in {"broken", "bad"}
    BY ExpectsRejections DEF Rejections, LinesOf
  <2>. QED
    BY <2>1, <2>2, Zenon DEF Agrees
<1> DEFINE row == [line |-> NextLine, kind |-> kind]
           rows == Append(survivors, row)
<1>3. row \in Rows /\ row.line = NextLine /\ row.kind = kind
  BY DEF Rows, NextLine, TypeOK
<1> HIDE DEF row
<1>4. rows \in Seq(Rows) /\ ToSet(rows) = ToSet(survivors) \union {row}
  BY <1>3, ToSetAppend DEF TypeOK
<1> HIDE DEF rows
<1>5. Builds(rows)
  BY <1>3, <1>4, HeldBack, BuildsFile
<1>6. CASE kind \notin Survivor
  <2>1. UNCHANGED streamVars
    BY <1>1, <1>2, <1>6, Zenon DEF TakeRecord
  <2>. QED
    BY <2>1 DEF streamVars
<1>7. CASE kind \in Survivor
  <2>1. \/ Yield(rows, "Streaming")
        \/ UNCHANGED <<expect, phase, pulling, chunks, streamEnd>>
    BY <1>1, <1>2, <1>7, Zenon DEF TakeRecord, rows, row
  <2>2. Yield(rows, "Streaming") => phase' = "Streaming" /\ streamEnd' = streamEnd
    BY <1>5, Zenon DEF Yield
  <2>. QED
    BY <2>1, <2>2
<1>. QED
  BY <1>6, <1>7

LEMMA QuietInvStep ==
  TypeOK /\ StandInv /\ RowsInv /\ NotedInv /\ ArtifactInv /\ QuietInv /\ [Next]_vars
    => QuietInv'
<1> SUFFICES ASSUME TypeOK, StandInv, RowsInv, NotedInv, ArtifactInv, QuietInv,
                    [Next]_vars, Quiet'
             PROVE  /\ streamEnd' # "failed" /\ header' = 1
                    /\ ReadsFile'
                    /\ pc' = "stream" => ExpectsFile'
                    /\ phase' = "FinalCheck" => log' = file'
  BY Zenon DEF QuietInv
<1>1. /\ Quiet /\ readFaults' = readFaults
      /\ readFaults' # readFaults + 1 /\ edits' # edits + 1
  BY StepFaults DEF Quiet, TypeOK
<1>2. /\ streamEnd # "failed" /\ header = 1 /\ ReadsFile
      /\ pc = "stream" => ExpectsFile
      /\ phase = "FinalCheck" => log = file
  BY <1>1 DEF QuietInv
<1>3. ~Edit /\ ~ObserveFault /\ ~StreamFault
  BY <1>1, Zenon DEF Edit, ObserveFault, StreamFault, ReadFault
<1>4. ASSUME UNCHANGED <<file, header, log, dead, count>> PROVE ReadsFile' /\ header' = 1
  BY <1>2, <1>4 DEF ReadsFile, LinesOf
<1>5. ASSUME UNCHANGED <<file, expect>> PROVE ExpectsFile <=> ExpectsFile'
  BY <1>5 DEF ExpectsFile, LinesOf
<1> USE DEF sourceVars
<1>6. CASE ObserveLine
  <2>1. PICK kind \in Kinds : ReadLine(kind)
    BY <1>6, Zenon DEF ObserveLine
  <2>2. pc = "pass1" /\ pc' = pc /\ UNCHANGED <<sourceVars, phase, streamEnd>>
    BY <1>6, Zenon DEF ObserveLine, streamVars
  <2>3. ReadsFile'
    BY <1>2, <2>1, <2>2, ReadsOn
  <2>. QED
    BY <1>2, <2>2, <2>3 DEF StandInv
<1>7. CASE VerdictFails
  <2>1. pc = "pass1" /\ pc' = "failed" /\ UNCHANGED <<sourceVars, log, dead, count, phase, streamEnd>>
    BY <1>7, Zenon DEF VerdictFails, streamVars
  <2>. QED
    BY <1>2, <1>4, <2>1 DEF StandInv
<1>8. CASE VerdictPasses
  <2>1. /\ pc = "pass1" /\ AtEnd /\ UNCHANGED <<sourceVars, log, dead, count, phase, streamEnd>>
        /\ expect' = [rejected |-> ToSet(sinkLines'), records |-> count,
                      log |-> log, header |-> header]
    BY <1>8, Zenon DEF VerdictPasses
  <2>2. log = file
    BY <1>2, <2>1, ReadAll
  <2>3. /\ expect'.log = log /\ expect'.header = header /\ expect'.records = count
        /\ file' = file
    BY <2>1
  <2>4. ExpectsFile'
    BY <1>2, <2>2, <2>3 DEF ExpectsFile, ReadsFile, LinesOf
  <2>. QED
    BY <1>2, <1>4, <2>1, <2>4 DEF StandInv
<1>9. CASE Pull \/ Finish \/ Over \/ UNCHANGED vars
  <2>1. /\ UNCHANGED <<sourceVars, log, dead, count, expect, phase, streamEnd>>
        /\ pc' = pc \/ pc' = "over"
    BY <1>9 DEF Pull, Finish, Over, vars, streamVars
  <2>. QED
    BY <1>2, <1>4, <1>5, <2>1
<1>10. CASE Open
  <2>1. /\ pc = "stream" /\ ExpectsFile /\ pc' = pc /\ UNCHANGED sourceVars
        /\ log' = <<>> /\ dead' = FALSE /\ count' = 0
    BY <1>2, <1>10 DEF Open, StandInv
  <2>2. header = expect.header
    BY <1>2, <2>1 DEF ExpectsFile
  <2>3. phase' = "Streaming" /\ UNCHANGED <<expect, streamEnd>>
    BY <1>1, <1>10, <2>2, Zenon DEF Open
  <2>4. ReadsFile'
    <3>1. LinesOf(log', Record) = {}
      BY <2>1 DEF LinesOf
    <3>2. Len(log') = 0 /\ 0 <= Len(file')
      BY <2>1 DEF TypeOK
    <3>3. count' = Cardinality(LinesOf(log', Record))
      BY <2>1, <3>1, FS_EmptySet
    <3>. QED
      BY <2>1, <3>2, <3>3 DEF ReadsFile
  <2>. QED
    BY <1>2, <1>5, <2>1, <2>3, <2>4
<1>11. CASE StreamLine
  <2>1. PICK kind \in Kinds :
          /\ ReadLine(kind)
          /\ IF kind = "blank" THEN UNCHANGED streamVars ELSE TakeRecord(kind)
    BY <1>11, Zenon DEF StreamLine
  <2>2. pulling /\ phase = "Streaming" /\ pc' = pc /\ UNCHANGED sourceVars
    BY <1>11, Zenon DEF StreamLine
  <2>3. pc = "stream" /\ ExpectsFile
    BY <1>2, <2>2 DEF StandInv
  <2>4. ReadsFile' /\ kind = file[NextLine] /\ NextLine \in 1 .. Len(file)
    BY <1>2, <2>1, <2>2, ReadsOn
  <2>5. kind \in AnyKind
    BY KindsIn
  <2>6. streamEnd' = streamEnd /\ phase' = phase /\ expect' = expect
    <3>1. CASE kind = "blank"
      <4>1. UNCHANGED streamVars
        BY <2>1, <3>1
      <4>. QED
        BY <4>1 DEF streamVars
    <3>2. CASE kind # "blank"
      <4>1. TakeRecord(kind)
        BY <2>1, <3>2
      <4>2. streamEnd' = streamEnd /\ phase' = phase
        BY <1>1, <1>2, <2>2, <2>3, <2>4, <2>5, <3>2, <4>1, TakesOn
      <4>. QED
        BY <2>5, <4>1, <4>2, StreamTypes DEF StreamType
    <3>. QED
      BY <3>1, <3>2
  <2>. QED
    BY <1>2, <1>5, <2>2, <2>3, <2>4, <2>6
<1>12. CASE LastChunk
  <2>1. /\ pulling /\ phase = "Streaming" /\ AtEnd /\ pc' = pc
        /\ UNCHANGED <<sourceVars, log, dead, count>>
    BY <1>12, Zenon DEF LastChunk
  <2>2. pc = "stream" /\ ExpectsFile /\ log = file
    BY <1>2, <2>1, ReadAll DEF StandInv
  <2>3. Builds(survivors)
    BY <1>2, <2>1, <2>2, HeldBack, BuildsFile DEF TypeOK
  <2>4. streamEnd' = streamEnd /\ expect' = expect
    BY <1>12, <2>3, Zenon DEF LastChunk, Yield
  <2>. QED
    BY <1>2, <1>4, <1>5, <2>1, <2>2, <2>4
<1>13. CASE FinalCheck
  <2>1. /\ pulling /\ phase = "FinalCheck" /\ pc' = pc
        /\ UNCHANGED <<sourceVars, log, dead, count>>
    BY <1>13, Zenon DEF FinalCheck
  <2>2. pc = "stream" /\ ExpectsFile /\ log = file
    BY <1>2, <2>1 DEF StandInv
  <2>3. Reproduced
    BY <1>2, <2>2 DEF Reproduced, ExpectsFile, ReadsFile
  <2>4. streamEnd' = "ended" /\ expect' = expect
    BY <1>13, <2>3, Zenon DEF FinalCheck
  <2>. QED
    BY <1>2, <1>4, <1>5, <2>1, <2>2, <2>4
<1>. QED
  BY <1>3, <1>6, <1>7, <1>8, <1>9, <1>10, <1>11, <1>12, <1>13 DEF Next

-----------------------------------------------------------------------------
(* The theorems.                                                           *)

LEMMA InitIInv == Init => IInv
<1> SUFFICES ASSUME Init PROVE IInv
  OBVIOUS
<1>1. TypeOK
  BY InitTypeOK
<1>2. /\ pc = "pass1" /\ phase = "NotStarted" /\ streamEnd = "open" /\ pulling = FALSE
      /\ expect = NoExpectations /\ dead = FALSE /\ header = 1
      /\ sinkError = FALSE /\ spillError = FALSE
      /\ chunks = <<>> /\ survivors = <<>> /\ log = <<>> /\ sinkLines = <<>>
      /\ artifact = <<>> /\ spill = <<>> /\ count = 0 /\ sinkCount = 0
  BY DEF Init
<1>3. StandInv
  BY <1>2 DEF StandInv
<1>4. RowsInv
  <2>1. Delivered = {} /\ ToSet(survivors) = {}
    BY <1>1, <1>2, DeliveredIs, ToSetEmpty
  <2>. QED
    BY <1>2, <2>1 DEF RowsInv
<1>5. ShapeInv
  <2>1. InSourceOrder(Append(chunks, survivors))
    <3>1. Append(chunks, survivors) = << <<>> >>
      BY <1>2
    <3>2. InSourceOrder(<< <<>> >>)
      BY DEF InSourceOrder
    <3>. QED
      BY <3>1, <3>2
  <2>2. DOMAIN chunks = {} /\ Len(survivors) = 0
    BY <1>2
  <2>. QED
    BY <1>2, <2>1, <2>2, TwoPassAssumption DEF ShapeInv
<1>6. \A kinds : LinesOf(log, kinds) = {}
  BY <1>2 DEF LinesOf
<1>7. NotedInv
  <2>1. /\ Ascending(sinkLines) /\ Ascending(spill)
        /\ ToSet(sinkLines) = {} /\ ToSet(spill) = {}
        /\ Len(sinkLines) = 0 /\ LineOf(artifact) = sinkLines /\ DOMAIN artifact = {}
    BY <1>2, ToSetEmpty DEF Ascending, LineOf
  <2>2. Noted
    BY <1>2, <1>6, <2>1 DEF Noted
  <2>. QED
    BY <1>2, <2>2 DEF NotedInv
<1>8. ArtifactInv
  BY <1>2 DEF ArtifactInv
<1>9. ReadsFile
  <2>1. Cardinality(LinesOf(log, Record)) = 0
    BY <1>6, FS_EmptySet
  <2>2. Len(log) = 0 /\ Len(file) \in Nat
    BY <1>1, <1>2 DEF TypeOK
  <2>. QED
    BY <1>2, <2>1, <2>2 DEF ReadsFile
<1>10. QuietInv
  BY <1>2, <1>9 DEF QuietInv
<1>. QED
  BY <1>1, <1>3, <1>4, <1>5, <1>7, <1>8, <1>10 DEF IInv

LEMMA NextIInv == IInv /\ [Next]_vars => IInv'
BY NextTypeOK, StandInvStep, RowsInvStep, ShapeInvStep, NotedInvStep, ArtifactInvStep,
   QuietInvStep, Zenon DEF IInv

\* The inductive invariant: where the load and its stream stand, what the
\* chunks hold and how they are cut, what pass 1 noted and wrote, and what an
\* undisturbed source lets pass 2 count on.
THEOREM TwoPassInvariant == Spec => []IInv
BY InitIInv, NextIInv, PTL DEF Spec

\* Every variable keeps its type: positions, counts and rows stay what the
\* code declares.
THEOREM TwoPassTypeOK == Spec => []TypeOK
<1>1. IInv => TypeOK
  BY DEF IInv
<1>. QED
  BY TwoPassInvariant, <1>1, PTL

\* CsvChunks and JsonlChunks: a stream that ends cleanly delivered exactly the
\* records pass 1 let through, byte for byte, however often and however long
\* the file was edited or read with faults in between; and no row of a line
\* that pass 1 rejected is ever delivered.
THEOREM TwoPassStreamFaithful == Spec => []StreamFaithful
<1>1. IInv => StreamFaithful
  BY DEF IInv, RowsInv, StreamFaithful
<1>. QED
  BY TwoPassInvariant, <1>1, PTL

\* cross_check and verify_end_of_input: a source that nobody edits and that
\* is read without a fault never fails the stream.
THEOREM TwoPassNoFalseAlarm == Spec => []NoFalseAlarm
<1>1. IInv => NoFalseAlarm
  BY DEF IInv, QuietInv, Quiet, NoFalseAlarm
<1>. QED
  BY TwoPassInvariant, <1>1, PTL

\* The chunking: chunks of ChunkRows records in source order, the last alone
\* shorter, an empty one only alone, and a clean end after at least one.
THEOREM TwoPassChunkShape == Spec => []ChunkShape
<1>1. IInv => ChunkShape
  <2> SUFFICES ASSUME IInv PROVE ChunkShape
    OBVIOUS
  <2>1. InSourceOrder(chunks)
    BY OrderRestarts DEF IInv, ShapeInv, TypeOK
  <2>. QED
    BY <2>1 DEF IInv, ShapeInv, ChunkShape
<1>. QED
  BY TwoPassInvariant, <1>1, PTL

\* The rejection sink: a load that goes on to a report, with no error to
\* report of its artifact, has in it each rejected record once and in source
\* order, whichever side of a merged spill it came from.
THEOREM TwoPassArtifactWhole == Spec => []ArtifactWhole
<1>1. IInv => ArtifactWhole
  <2> SUFFICES ASSUME IInv, pc = "over", ~sinkError, readFaults = 0
               PROVE  /\ \A k \in 1 .. Len(artifact) - 1 :
                           artifact[k].line < artifact[k + 1].line
                      /\ Len(artifact) = sinkCount
                      /\ expect = NoExpectations =>
                           \A k \in DOMAIN artifact : artifact[k].origin = "parse"
                      /\ expect # NoExpectations =>
                           { artifact[k].line : k \in DOMAIN artifact } =
                             Rejections(expect.log)
    BY DEF ArtifactWhole
  <2>1. artifact \in Seq(Entries)
    BY DEF IInv, TypeOK
  <2>2. /\ Ascending(LineOf(artifact)) /\ Len(artifact) = sinkCount
        /\ \/ /\ expect = NoExpectations
              /\ \A k \in DOMAIN artifact : artifact[k].origin = "parse"
           \/ /\ expect.rejected = Rejections(expect.log)
              /\ ToSet(LineOf(artifact)) = expect.rejected
    BY DEF IInv, ArtifactInv
  <2>3. /\ DOMAIN LineOf(artifact) = DOMAIN artifact
        /\ \A k \in DOMAIN artifact : LineOf(artifact)[k] = artifact[k].line
        /\ ToSet(LineOf(artifact)) = { artifact[k].line : k \in DOMAIN artifact }
    BY <2>1, LineOfIs
  <2>4. ASSUME NEW k \in 1 .. Len(artifact) - 1
        PROVE  artifact[k].line < artifact[k + 1].line
    <3>1. k \in DOMAIN artifact /\ k + 1 \in DOMAIN artifact /\ k < k + 1
      BY <2>1
    <3>. QED
      BY <2>2, <2>3, <3>1 DEF Ascending
  <2>5. ASSUME expect = NoExpectations, NEW k \in DOMAIN artifact
        PROVE  artifact[k].origin = "parse"
    <3>1. CASE expect.rejected = ToSet(LineOf(artifact))
      <4>1. expect.rejected = {}
        BY <2>5 DEF NoExpectations
      <4>. QED
        BY <2>3, <3>1, <4>1
    <3>. QED
      BY <2>2, <3>1
  <2>. QED
    BY <2>2, <2>3, <2>4, <2>5
<1>. QED
  BY TwoPassInvariant, <1>1, PTL
=============================================================================
