-------------------------- MODULE WritePhaseProofs --------------------------
(***************************************************************************)
(* Theorems about WritePhase, for every stream length, parallelism, retry  *)
(* budget and commit semantics.                                            *)
(***************************************************************************)
EXTENDS WritePhase, FiniteSetTheorems, SequenceTheorems, TLAPS

-----------------------------------------------------------------------------
(* Numbers, ranks and sequences.                                           *)

\* A set of naturals that is not empty has a least element.
LEMMA LeastNumber ==
  ASSUME NEW T \in SUBSET Nat, T # {}
  PROVE  \E n \in T : \A m \in T : n <= m
<1> DEFINE below == { pair \in Nat \X Nat : pair[1] < pair[2] }
<1>1. IsWellFoundedOn(below, Nat)
  BY NatLessThanWellFounded DEF OpToRel
<1>2. PICK n \in T : \A m \in T : <<m, n>> \notin below
  <2> HIDE DEF below
  <2>. QED
    BY <1>1, WFMin
<1>3. \A m \in T : ~(m < n)
  BY <1>2
<1>. QED
  BY <1>3

\* A rank that tells the members of a finite set apart takes every value from
\* 1 to their number.
LEMMA Ranking ==
  ASSUME NEW D, IsFiniteSet(D), NEW rank \in [D -> 1 .. Cardinality(D)],
         \A x, y \in D : rank[x] = rank[y] => x = y
  PROVE  \A n \in 1 .. Cardinality(D) : \E x \in D : rank[x] = n
<1> DEFINE T == 1 .. Cardinality(D)
<1>1. Cardinality(D) \in Nat
  BY FS_CardinalityType
<1>2. IsFiniteSet(T) /\ Cardinality(T) = Cardinality(D)
  BY <1>1, FS_Interval
<1> HIDE DEF T
<1>3. rank \in [D -> T]
  BY DEF T
<1>4. rank \in Injection(D, T)
  BY <1>3 DEF Injection, IsInjective
<1>5. rank \in Surjection(D, T)
  BY <1>2, <1>4, FS_Injection
<1>. QED
  BY <1>5 DEF Surjection, T

\* Lists that repeat nothing and share nothing concatenate to such a list.
LEMMA InjectiveConcat ==
  ASSUME NEW S, NEW s \in Seq(S), NEW u \in Seq(S), IsInjective(s), IsInjective(u),
         Range(s) \intersect Range(u) = {}
  PROVE  IsInjective(s \o u)
<1> SUFFICES ASSUME NEW i \in 1 .. Len(s \o u), NEW j \in 1 .. Len(s \o u),
                    (s \o u)[i] = (s \o u)[j]
             PROVE  i = j
  BY DEF IsInjective
<1>1. CASE i <= Len(s) /\ j <= Len(s)
  BY <1>1 DEF IsInjective
<1>2. CASE i > Len(s) /\ j > Len(s)
  <2>1. /\ i - Len(s) \in 1 .. Len(u) /\ j - Len(s) \in 1 .. Len(u)
        /\ u[i - Len(s)] = u[j - Len(s)]
    BY <1>2
  <2>2. i - Len(s) = j - Len(s)
    BY <2>1 DEF IsInjective
  <2>. QED
    BY <2>2
<1>3. CASE i <= Len(s) /\ j > Len(s)
  <2>1. s[i] = u[j - Len(s)] /\ i \in 1 .. Len(s) /\ j - Len(s) \in 1 .. Len(u)
    BY <1>3
  <2>. QED
    BY <2>1 DEF Range
<1>4. CASE i > Len(s) /\ j <= Len(s)
  <2>1. u[i - Len(s)] = s[j] /\ j \in 1 .. Len(s) /\ i - Len(s) \in 1 .. Len(u)
    BY <1>4
  <2>. QED
    BY <2>1 DEF Range
<1>. QED
  BY <1>1, <1>2, <1>3, <1>4

\* An element the list does not hold yet joins it.
LEMMA AppendFresh ==
  ASSUME NEW S, NEW s \in Seq(S), NEW e \in S
  PROVE  /\ Range(Append(s, e)) = Range(s) \union {e}
         /\ IsInjective(s) /\ e \notin Range(s) => IsInjective(Append(s, e))
<1>1. /\ Append(s, e) = s \o <<e>> /\ <<e>> \in Seq(S)
  OBVIOUS
<1>2. Range(<<e>>) = {e} /\ IsInjective(<<e>>)
  BY DEF Range, IsInjective
<1>3. Range(s \o <<e>>) = Range(s) \union {e}
  <2>1. Range(s \o <<e>>) = Range(s) \union Range(<<e>>)
    BY <1>1, RangeConcatenation, Zenon
  <2>. QED
    BY <1>2, <2>1, Zenon
<1>4. ASSUME IsInjective(s), e \notin Range(s) PROVE IsInjective(s \o <<e>>)
  <2>1. Range(s) \intersect Range(<<e>>) = {}
    BY <1>2, <1>4
  <2>. QED
    BY <1>1, <1>2, <1>4, <2>1, InjectiveConcat
<1>. QED
  BY <1>1, <1>3, <1>4

-----------------------------------------------------------------------------
LEMMA ChunksFinite == IsFiniteSet(Chunks)
  BY FS_Interval, WritePhaseAssumption DEF Chunks

\* Lowest picks the least chunk of a non-empty set: write_failures' min_by_key.
LEMMA LowestIsLeast ==
  ASSUME NEW S \in SUBSET Chunks, S # {}
  PROVE  /\ Lowest(S) \in S
         /\ \A j \in S : Lowest(S) <= j
<1>1. S \subseteq Nat
  BY DEF Chunks
<1>2. \E i \in S : \A j \in S : i <= j
  BY <1>1, LeastNumber
<1>. QED
  BY <1>2 DEF Lowest

LEMMA EntryType ==
  ASSUME NEW i \in Chunks, NEW n \in Nat, NEW b \in BOOLEAN
  PROVE  /\ BeginEntry(n, b) \in LogEntries
         /\ ChunkEntry(i, n, b) \in LogEntries
  BY DEF BeginEntry, ChunkEntry, Entry, LogEntries, Chunks

LEMMA AppendType ==
  ASSUME NEW log \in Seq(LogEntries), NEW e \in LogEntries
  PROVE  Append(log, e) \in Seq(LogEntries)
  OBVIOUS

LEMMA WithFinalType ==
  ASSUME NEW log \in Seq(LogEntries), NEW e \in LogEntries
  PROVE  WithFinal(log, e) \in Seq(LogEntries)
  BY DEF WithFinal

-----------------------------------------------------------------------------
LEMMA InitTypeOK == Init => TypeOK
<1> SUFFICES ASSUME Init PROVE TypeOK
  OBVIOUS
<1> USE WritePhaseAssumption DEF Init
<1>1. pc \in {"begin", "beginSleep", "stream", "done"} /\ session \in Sessions
  BY DEF Sessions
<1>2. /\ beginAttempt \in Nat
      /\ dispatched \in 0 .. MaxChunks
      /\ inFlight \in Int
      /\ committed \in Nat
  OBVIOUS
<1>3. /\ sourceDone \in BOOLEAN /\ halted \in BOOLEAN /\ sourceFailed \in BOOLEAN
      /\ writerPanic \in BOOLEAN /\ published \in BOOLEAN
  BY Zenon
<1>4. writeFailures \subseteq Chunks /\ received \subseteq Chunks
  OBVIOUS
<1>5. retryAttempts \in Seq(LogEntries) /\ slotAttempts \in [Chunks -> Seq(LogEntries)]
  OBVIOUS
<1>6. /\ thread \in [Chunks -> ThreadStates]
      /\ attempt \in [Chunks -> Nat]
      /\ outcome \in [Chunks -> Outcomes]
      /\ applied \in [Chunks -> Nat]
  BY DEF ThreadStates, Outcomes
<1>7. result \in Results
  BY DEF Pending, Results
<1>. QED
  BY <1>1, <1>2, <1>3, <1>4, <1>5, <1>6, <1>7, Zenon DEF TypeOK

\* Each action keeps the types; one step per action of Next.
LEMMA NextTypeOK == TypeOK /\ [Next]_vars => TypeOK'
<1> SUFFICES ASSUME TypeOK, [Next]_vars PROVE TypeOK'
  OBVIOUS
<1> USE WritePhaseAssumption DEF dispatcherVars, unitVars, destinationVars
<1>1. CASE BeginSucceeds
  BY <1>1 DEF BeginSucceeds, TypeOK, Sessions
<1>2. CASE BeginRetries
  <2>1. BeginEntry(beginAttempt, TRUE) \in LogEntries
    BY DEF TypeOK, BeginEntry, Entry, LogEntries
  <2>2. Append(retryAttempts, BeginEntry(beginAttempt, TRUE)) \in Seq(LogEntries)
    BY <2>1, AppendType DEF TypeOK
  <2>. QED
    BY <1>2, <2>2 DEF BeginRetries, TypeOK
<1>3. CASE BeginWakes
  BY <1>3 DEF BeginWakes, TypeOK
<1>4. CASE BeginFails
  <2>1. BeginEntry(beginAttempt, FALSE) \in LogEntries
    BY DEF TypeOK, BeginEntry, Entry, LogEntries
  <2>2. WithFinal(retryAttempts, BeginEntry(beginAttempt, FALSE)) \in Seq(LogEntries)
    BY <2>1, WithFinalType DEF TypeOK
  <2>3. BeforeSession \in Results
    BY DEF BeforeSession, Results
  <2>. QED
    BY <1>4, <2>2, <2>3 DEF BeginFails, TypeOK
<1>5. CASE PullChunk
  <2>1. dispatched \in Chunks /\ dispatched' \in 0 .. MaxChunks
    BY <1>5 DEF PullChunk, TypeOK, Chunks
  <2>2. inFlight' \in Int
    BY <1>5 DEF PullChunk, TypeOK
  <2>3. thread' \in [Chunks -> ThreadStates] /\ attempt' \in [Chunks -> Nat]
    BY <1>5, <2>1 DEF PullChunk, TypeOK, ThreadStates
  <2>. QED
    BY <1>5, <2>1, <2>2, <2>3 DEF PullChunk, TypeOK
<1>6. CASE PullEnd
  BY <1>6 DEF PullEnd, TypeOK
<1>7. CASE PullFails
  BY <1>7 DEF PullFails, TypeOK
<1>8. ASSUME NEW i \in Chunks, CallSucceeds(i) PROVE TypeOK'
  BY <1>8 DEF CallSucceeds, UnitReturns, TypeOK, ThreadStates, Outcomes
<1>9. ASSUME NEW i \in Chunks, CallRetries(i) PROVE TypeOK'
  <2>1. ChunkEntry(i, attempt[i], TRUE) \in LogEntries
    BY EntryType DEF TypeOK
  <2>2. Append(slotAttempts[i], ChunkEntry(i, attempt[i], TRUE)) \in Seq(LogEntries)
    BY <2>1, AppendType DEF TypeOK
  <2>. QED
    BY <1>9, <2>2 DEF CallRetries, TypeOK, ThreadStates
<1>10. ASSUME NEW i \in Chunks, Wakes(i) PROVE TypeOK'
  BY <1>10 DEF Wakes, TypeOK, ThreadStates
<1>11. ASSUME NEW i \in Chunks, CallFails(i) PROVE TypeOK'
  <2>1. ChunkEntry(i, attempt[i], FALSE) \in LogEntries
    BY EntryType DEF TypeOK
  <2>2. WithFinal(slotAttempts[i], ChunkEntry(i, attempt[i], FALSE)) \in Seq(LogEntries)
    BY <2>1, WithFinalType DEF TypeOK
  <2>3. slotAttempts' \in [Chunks -> Seq(LogEntries)]
    BY <1>11, <2>2 DEF CallFails, TypeOK
  <2>4. PICK landed \in BOOLEAN : UnitReturns(i, "failed", landed)
    BY <1>11 DEF CallFails
  <2>5. /\ thread' \in [Chunks -> ThreadStates]
        /\ outcome' \in [Chunks -> Outcomes]
        /\ applied' \in [Chunks -> Nat]
    BY <2>4 DEF UnitReturns, TypeOK, ThreadStates, Outcomes
  <2>. QED
    BY <1>11, <2>3, <2>4, <2>5 DEF CallFails, UnitReturns, TypeOK
<1>12. ASSUME NEW i \in Chunks, CallPanics(i) PROVE TypeOK'
  BY <1>12 DEF CallPanics, UnitReturns, TypeOK, ThreadStates, Outcomes
<1>13. ASSUME NEW i \in Chunks, SendCompletion(i) PROVE TypeOK'
  BY <1>13 DEF SendCompletion, TypeOK, ThreadStates
<1>14. ASSUME NEW i \in Chunks, ThreadExits(i) PROVE TypeOK'
  BY <1>14 DEF ThreadExits, TypeOK, ThreadStates
<1>15. ASSUME NEW i \in Chunks, Receive(i) PROVE TypeOK'
  <2>1. retryAttempts \o slotAttempts[i] \in Seq(LogEntries)
    BY DEF TypeOK
  <2>. QED
    BY <1>15, <2>1 DEF Receive, TypeOK
<1>16. ASSUME NEW i \in Chunks, SerialStep(i) PROVE TypeOK'
  <2>1. retryAttempts \o slotAttempts[i] \in Seq(LogEntries)
    BY DEF TypeOK
  <2>2. InSession("write", i, committed) \in Results /\ Unwound \in Results
    BY DEF InSession, Unwound, Results, TypeOK, Chunks
  <2>3. SerialReturn(i)
    BY <1>16 DEF SerialStep, SerialContinues, SerialFails, SerialUnwinds
  <2>4. /\ thread' \in [Chunks -> ThreadStates]
        /\ received' \subseteq Chunks
        /\ retryAttempts' \in Seq(LogEntries)
    BY <2>1, <2>3 DEF SerialReturn, TypeOK, ThreadStates
  <2>5. inFlight' \in Int
    BY <2>3 DEF SerialReturn, TypeOK
  <2>6. /\ pc' \in {"begin", "beginSleep", "stream", "done"}
        /\ session' \in Sessions
        /\ result' \in Results
    BY <1>16, <2>2, <2>3
    DEF SerialStep, SerialContinues, SerialFails, SerialUnwinds, SerialReturn,
        TypeOK, Sessions
  <2>. QED
    BY <2>3, <2>4, <2>5, <2>6 DEF SerialReturn, TypeOK
<1>17. CASE CommitSucceeds
  <2>1. Success(dispatched) \in Results
    BY DEF Success, Results, TypeOK
  <2>. QED
    BY <1>17, <2>1 DEF CommitSucceeds, EndSession, TypeOK, Sessions
<1>18. CASE CommitFails
  <2>1. InSession("commit", 0, committed) \in Results
    BY DEF InSession, Results, TypeOK
  <2>. QED
    BY <1>18, <2>1 DEF CommitFails, EndSession, TypeOK, Sessions
<1>19. CASE Abandons
  <2>1. writeFailures # {} => Lowest(writeFailures) \in Chunks
    BY LowestIsLeast DEF TypeOK
  <2>2. result' \in Results
    BY <1>19, <2>1
    DEF Abandons, EndSession, InSession, Results, TypeOK, Chunks
  <2>. QED
    BY <1>19, <2>2 DEF Abandons, EndSession, TypeOK, Sessions
<1>20. CASE Unwinds
  BY <1>20 DEF Unwinds, EndSession, Unwound, Results, TypeOK, Sessions
<1>21. CASE UNCHANGED vars
  BY <1>21 DEF vars, TypeOK
<1>. QED
  BY <1>1, <1>2, <1>3, <1>4, <1>5, <1>6, <1>7, <1>8, <1>9, <1>10, <1>11,
     <1>12, <1>13, <1>14, <1>15, <1>16, <1>17, <1>18, <1>19, <1>20, <1>21
  DEF Next, DispatcherStep, Begin, Pull, End, UnitStep, Finished

\* Every state of the write phase is well typed.
THEOREM WritePhaseTypeOK == Spec => []TypeOK
  BY InitTypeOK, NextTypeOK, PTL DEF Spec

\* No unit is tried more often than max_attempts: run_unit's attempt counter
\* never passes the policy's budget.
THEOREM WritePhaseAttemptBudget == Spec => []AttemptBudget
<1> USE WritePhaseAssumption DEF dispatcherVars, unitVars, destinationVars
<1>1. Init => AttemptBudget
  BY DEF Init, AttemptBudget, Chunks
<1>2. TypeOK /\ AttemptBudget /\ [Next]_vars => AttemptBudget'
  <2> SUFFICES ASSUME TypeOK, AttemptBudget, [Next]_vars PROVE AttemptBudget'
    OBVIOUS
  <2> USE DEF TypeOK, AttemptBudget
  <2>1. CASE Begin
    <3>1. CASE BeginSucceeds \/ BeginFails
      BY <3>1 DEF BeginSucceeds, BeginFails
    <3>2. CASE BeginRetries
      BY <3>2 DEF BeginRetries, MayRetry
    <3>3. CASE BeginWakes
      BY <3>3 DEF BeginWakes
    <3>. QED
      BY <2>1, <3>1, <3>2, <3>3 DEF Begin
  <2>2. CASE PullChunk
    <3>1. pc = "stream" /\ pc' = pc /\ beginAttempt' = beginAttempt
      BY <2>2 DEF PullChunk, SlotFree
    <3>2. ASSUME NEW i \in Chunks
          PROVE  /\ attempt'[i] <= MaxAttempts
                 /\ thread'[i] = "sleeping" => attempt'[i] < MaxAttempts
      BY <2>2 DEF PullChunk
    <3>. QED
      BY <3>1, <3>2
  <2>8. CASE PullEnd \/ PullFails
    BY <2>8 DEF PullEnd, PullFails
  <2>3. CASE End
    BY <2>3 DEF End, CommitSucceeds, CommitFails, Abandons, Unwinds, EndSession
  <2>4. ASSUME NEW i \in Chunks, UnitStep(i) PROVE AttemptBudget'
    <3>1. CASE CallRetries(i)
      BY <3>1 DEF CallRetries, MayRetry
    <3>2. CASE Wakes(i)
      BY <3>2 DEF Wakes
    <3>3. CASE CallSucceeds(i) \/ CallFails(i) \/ CallPanics(i)
      BY <3>3 DEF CallSucceeds, CallFails, CallPanics, UnitReturns
    <3>4. CASE SendCompletion(i) \/ ThreadExits(i)
      BY <3>4 DEF SendCompletion, ThreadExits
    <3>. QED
      BY <2>4, <3>1, <3>2, <3>3, <3>4 DEF UnitStep
  <2>5. ASSUME NEW i \in Chunks, Receive(i) PROVE AttemptBudget'
    BY <2>5 DEF Receive
  <2>6. ASSUME NEW i \in Chunks, SerialStep(i) PROVE AttemptBudget'
    BY <2>6 DEF SerialStep, SerialContinues, SerialFails, SerialUnwinds, SerialReturn
  <2>7. CASE UNCHANGED vars
    BY <2>7 DEF vars
  <2>. QED
    BY <2>1, <2>2, <2>3, <2>4, <2>5, <2>6, <2>7, <2>8
    DEF Next, DispatcherStep, Pull, Finished
<1>. QED
  BY <1>1, <1>2, WritePhaseTypeOK, PTL DEF Spec

-----------------------------------------------------------------------------
(* Counting lemmas: what inFlight says about the units not yet answered.   *)

LEMMA ReceivedFinite ==
  ASSUME TypeOK
  PROVE  /\ IsFiniteSet(received) /\ Cardinality(received) \in Nat
         /\ IsFiniteSet(Acknowledged) /\ Cardinality(Acknowledged) \in Nat
  BY ChunksFinite, FS_Subset, FS_CardinalityType DEF TypeOK, Acknowledged

LEMMA DispatchedCount ==
  ASSUME TypeOK
  PROVE  IsFiniteSet(Dispatched) /\ Cardinality(Dispatched) = dispatched
  BY FS_Interval DEF TypeOK, Dispatched

LEMMA ReceivedDispatched ==
  ASSUME TypeOK, SlotInv
  PROVE  received \subseteq Dispatched
  BY DEF TypeOK, SlotInv, Dispatched, Chunks

\* in_flight = 0 means every dispatched unit was answered.
LEMMA AllAnswered ==
  ASSUME TypeOK, SlotInv, CountInv, inFlight = 0
  PROVE  received = Dispatched
<1>1. Cardinality(received) = Cardinality(Dispatched)
  BY DispatchedCount, ReceivedFinite DEF CountInv, TypeOK
<1>. QED
  BY <1>1, DispatchedCount, ReceivedDispatched, FS_Subset

\* An unanswered unit is counted; in the serial loop it is the only one.
LEMMA Unanswered ==
  ASSUME TypeOK, SlotInv, CountInv,
         NEW i \in Dispatched, i \notin received
  PROVE  /\ inFlight > 0
         /\ inFlight = 1 => received = Dispatched \ {i}
<1>1. /\ IsFiniteSet(Dispatched \ {i})
      /\ Cardinality(Dispatched \ {i}) = dispatched - 1
  BY DispatchedCount, FS_RemoveElement
<1>2. received \in SUBSET (Dispatched \ {i})
  BY ReceivedDispatched
<1>3. /\ Cardinality(received) <= dispatched - 1
      /\ Cardinality(received) = dispatched - 1 => received = Dispatched \ {i}
  BY <1>1, <1>2, FS_Subset
<1>. QED
  BY <1>3, ReceivedFinite DEF CountInv, TypeOK
-----------------------------------------------------------------------------
(* The inductive invariant, one lemma per conjunct of IInv.                *)

\* The variables of the slots and the count that only pulling, the slots
\* themselves and the taking of a completion change.
LEMMA QuietSteps ==
  ASSUME Begin \/ PullEnd \/ PullFails \/ End \/ UNCHANGED vars
  PROVE  UNCHANGED <<dispatched, inFlight, received, thread, outcome,
                     applied, committed, writeFailures, writerPanic>>
<1> USE DEF dispatcherVars, unitVars, destinationVars
<1>1. CASE Begin
  BY <1>1 DEF Begin, BeginSucceeds, BeginRetries, BeginWakes, BeginFails
<1>2. CASE PullEnd \/ PullFails
  BY <1>2 DEF PullEnd, PullFails
<1>3. CASE End
  BY <1>3 DEF End, CommitSucceeds, CommitFails, Abandons, Unwinds, EndSession
<1>4. CASE UNCHANGED vars
  BY <1>4 DEF vars
<1>. QED
  BY <1>1, <1>2, <1>3, <1>4

\* The three ways a call ends a unit.
CallEnds(i) == CallSucceeds(i) \/ CallFails(i) \/ CallPanics(i)

\* A call that ends a unit leaves one outcome and at most one application.
LEMMA CallEndEffect ==
  ASSUME TypeOK, NEW i \in Chunks, CallEnds(i)
  PROVE  /\ thread[i] = "calling"
         /\ thread' = [thread EXCEPT ![i] = "returned"]
         /\ \E how \in {"ok", "failed", "panicked"}, landed \in BOOLEAN :
              /\ outcome' = [outcome EXCEPT ![i] = how]
              /\ applied' = [applied EXCEPT ![i] = IF landed THEN @ + 1 ELSE @]
              /\ how = "ok" => landed
              /\ committed' = IF CommitsPerChunk /\ how = "ok"
                              THEN committed + 1 ELSE committed
         /\ UNCHANGED <<pc, dispatcherVars, session, published, result>>
<1>1. CASE CallSucceeds(i)
  BY <1>1 DEF CallSucceeds, UnitReturns, dispatcherVars
<1>2. CASE CallFails(i)
  BY <1>2 DEF CallFails, UnitReturns, dispatcherVars
<1>3. CASE CallPanics(i)
  BY <1>3 DEF CallPanics, UnitReturns, dispatcherVars
<1>. QED
  BY <1>1, <1>2, <1>3 DEF CallEnds

\* The steps of a slot thread that change nothing but the thread.
Moves(i) == CallRetries(i) \/ Wakes(i) \/ SendCompletion(i) \/ ThreadExits(i)

LEMMA MoveEffect ==
  ASSUME NEW i \in Chunks, Moves(i)
  PROVE  /\ \/ /\ thread[i] = "calling"
               /\ thread' = [thread EXCEPT ![i] = "sleeping"]
            \/ /\ thread[i] = "sleeping"
               /\ thread' = [thread EXCEPT ![i] = "calling"]
            \/ /\ thread[i] = "returned" /\ Parallelism > 1
               /\ thread' = [thread EXCEPT ![i] = "sent"]
            \/ /\ thread[i] = "sent"
               /\ thread' = [thread EXCEPT ![i] = "exited"]
         /\ UNCHANGED <<pc, dispatcherVars, outcome, destinationVars, result>>
<1> USE DEF dispatcherVars, destinationVars
<1>1. CASE CallRetries(i)
  BY <1>1 DEF CallRetries
<1>2. CASE Wakes(i)
  BY <1>2 DEF Wakes
<1>3. CASE SendCompletion(i)
  BY <1>3 DEF SendCompletion
<1>4. CASE ThreadExits(i)
  BY <1>4 DEF ThreadExits
<1>. QED
  BY <1>1, <1>2, <1>3, <1>4 DEF Moves

\* The steps the invariant's lemmas distinguish.
LEMMA StepKinds ==
  ASSUME [Next]_vars
  PROVE  \/ Begin \/ PullEnd \/ PullFails \/ End \/ UNCHANGED vars
         \/ PullChunk
         \/ \E i \in Chunks : CallEnds(i) \/ Moves(i) \/ Receive(i) \/ SerialStep(i)
  BY DEF Next, DispatcherStep, Pull, UnitStep, Finished, CallEnds, Moves

LEMMA SlotInvStep ==
  ASSUME IInv, [Next]_vars
  PROVE  SlotInv'
<1> USE WritePhaseAssumption
<1>. TypeOK /\ SlotInv
  BY DEF IInv
<1>1. CASE Begin \/ PullEnd \/ PullFails \/ End \/ UNCHANGED vars
  BY <1>1, QuietSteps DEF SlotInv
<1>2. CASE PullChunk
  <2>1. /\ dispatched \in Chunks /\ dispatched' = dispatched + 1
        /\ thread' = [thread EXCEPT ![dispatched] = "calling"]
        /\ UNCHANGED <<outcome, applied, received>>
    BY <1>2 DEF PullChunk, unitVars, destinationVars, TypeOK, Chunks
  <2>2. outcome[dispatched] = "none" /\ dispatched \notin received
    BY <2>1 DEF SlotInv, Chunks
  <2>. QED
    BY <2>1, <2>2 DEF SlotInv, TypeOK, Chunks
<1>3. ASSUME NEW i \in Chunks, CallEnds(i) PROVE SlotInv'
  <2>1. /\ thread[i] = "calling"
        /\ thread' = [thread EXCEPT ![i] = "returned"]
        /\ UNCHANGED <<dispatched, received>>
    BY <1>3, CallEndEffect DEF dispatcherVars
  <2>2. PICK how \in {"ok", "failed", "panicked"}, landed \in BOOLEAN :
          /\ outcome' = [outcome EXCEPT ![i] = how]
          /\ applied' = [applied EXCEPT ![i] = IF landed THEN @ + 1 ELSE @]
          /\ how = "ok" => landed
    BY <1>3, CallEndEffect
  <2>3. applied[i] = 0
    BY <2>1 DEF SlotInv
  <2>. QED
    BY <2>1, <2>2, <2>3 DEF SlotInv, TypeOK
<1>4. ASSUME NEW i \in Chunks, Moves(i) PROVE SlotInv'
  BY <1>4, MoveEffect DEF SlotInv, TypeOK, dispatcherVars, destinationVars
<1>5. ASSUME NEW i \in Chunks, Receive(i) PROVE SlotInv'
  BY <1>5 DEF Receive, SlotInv, TypeOK, unitVars, destinationVars
<1>6. ASSUME NEW i \in Chunks, SerialStep(i) PROVE SlotInv'
  <2>1. SerialReturn(i)
    BY <1>6 DEF SerialStep, SerialContinues, SerialFails, SerialUnwinds
  <2>. QED
    BY <2>1 DEF SerialReturn, SlotInv, TypeOK
<1>. QED
  BY <1>1, <1>2, <1>3, <1>4, <1>5, <1>6, StepKinds
LEMMA CountInvStep ==
  ASSUME IInv, [Next]_vars
  PROVE  CountInv'
<1> USE WritePhaseAssumption
<1>. TypeOK /\ SlotInv /\ CountInv
  BY DEF IInv
<1>1. CASE Begin \/ PullEnd \/ PullFails \/ End \/ UNCHANGED vars
  BY <1>1, QuietSteps DEF CountInv, Acknowledged
<1>2. CASE PullChunk
  <2>1. /\ dispatched' = dispatched + 1 /\ inFlight' = inFlight + 1
        /\ inFlight < Parallelism
        /\ UNCHANGED <<outcome, committed, received>>
    BY <1>2 DEF PullChunk, SlotFree, unitVars, destinationVars
  <2>. QED
    BY <2>1, ReceivedFinite DEF CountInv, TypeOK, Acknowledged
<1>3. ASSUME NEW i \in Chunks, CallEnds(i) PROVE CountInv'
  <2>1. /\ thread[i] = "calling"
        /\ UNCHANGED <<dispatched, inFlight, received>>
    BY <1>3, CallEndEffect DEF dispatcherVars
  <2>2. PICK how \in {"ok", "failed", "panicked"} :
          /\ outcome' = [outcome EXCEPT ![i] = how]
          /\ committed' = IF CommitsPerChunk /\ how = "ok"
                          THEN committed + 1 ELSE committed
    BY <1>3, CallEndEffect
  <2>3. i \notin Acknowledged
    BY <2>1 DEF SlotInv, Acknowledged
  <2>4. Acknowledged' = IF how = "ok" THEN Acknowledged \union {i} ELSE Acknowledged
    BY <2>2, <2>3 DEF Acknowledged, TypeOK
  <2>5. Cardinality(Acknowledged \union {i}) = Cardinality(Acknowledged) + 1
    BY <2>3, ReceivedFinite, FS_AddElement
  <2>6. committed' = IF CommitsPerChunk THEN Cardinality(Acknowledged') ELSE 0
    BY <2>2, <2>4, <2>5 DEF CountInv
  <2>. QED
    BY <2>1, <2>6 DEF CountInv
<1>4. ASSUME NEW i \in Chunks, Moves(i) PROVE CountInv'
  BY <1>4, MoveEffect DEF CountInv, Acknowledged, dispatcherVars, destinationVars
<1>5. ASSUME NEW i \in Chunks, Receive(i) \/ SerialReturn(i) PROVE CountInv'
  <2>1. /\ received' = received \union {i} /\ inFlight' = inFlight - 1
        /\ UNCHANGED <<dispatched, outcome, committed>>
    BY <1>5 DEF Receive, SerialReturn, unitVars, destinationVars
  <2>2. i \notin received /\ i \in Dispatched
    BY <1>5, SMTT(30) DEF Receive, SerialReturn, SlotInv, TypeOK, Dispatched, Chunks
  <2>3. inFlight > 0
    BY <2>2, Unanswered
  <2>4. Cardinality(received') = Cardinality(received) + 1
    BY <2>1, <2>2, ReceivedFinite, FS_AddElement
  <2>. QED
    BY <2>1, <2>3, <2>4, ReceivedFinite, SMTT(30) DEF CountInv, Acknowledged, TypeOK
<1>6. ASSUME NEW i \in Chunks, SerialStep(i) PROVE CountInv'
  BY <1>5, <1>6 DEF SerialStep, SerialContinues, SerialFails, SerialUnwinds
<1>. QED
  BY <1>1, <1>2, <1>3, <1>4, <1>5, <1>6, StepKinds

LEMMA FailureInvStep ==
  ASSUME IInv, [Next]_vars
  PROVE  FailureInv'
<1> USE WritePhaseAssumption
<1>. TypeOK /\ SlotInv /\ CountInv /\ FailureInv /\ SessionInv
  BY DEF IInv
<1>1. CASE PullFails
  BY <1>1 DEF PullFails, FailureInv, NothingFailed, unitVars
<1>2. CASE Begin \/ PullEnd \/ End \/ UNCHANGED vars
  <2>1. UNCHANGED <<received, outcome, writeFailures, writerPanic>>
    BY <1>2, QuietSteps
  <2>2. UNCHANGED <<halted, sourceFailed>> /\ (pc' # "done" => pc # "done")
    BY <1>2 DEF Begin, BeginSucceeds, BeginRetries, BeginWakes, BeginFails,
       PullEnd, End, CommitSucceeds, CommitFails, Abandons, Unwinds, EndSession,
       vars, dispatcherVars
  <2>. QED
    BY <2>1, <2>2 DEF FailureInv, NothingFailed
<1>3. CASE PullChunk
  BY <1>3 DEF PullChunk, FailureInv, NothingFailed
<1>4. ASSUME NEW i \in Chunks, CallEnds(i) PROVE FailureInv'
  <2>1. thread[i] = "calling" /\ UNCHANGED <<pc, dispatcherVars>>
    BY <1>4, CallEndEffect
  <2>2. PICK how \in {"ok", "failed", "panicked"} :
          outcome' = [outcome EXCEPT ![i] = how]
    BY <1>4, CallEndEffect
  <2>3. i \notin received
    BY <2>1 DEF SlotInv
  <2>. QED
    BY <2>1, <2>2, <2>3 DEF FailureInv, NothingFailed, TypeOK, dispatcherVars
<1>5. ASSUME NEW i \in Chunks, Moves(i) PROVE FailureInv'
  BY <1>5, MoveEffect DEF FailureInv, NothingFailed, dispatcherVars
<1>6. ASSUME NEW i \in Chunks, Receive(i) PROVE FailureInv'
  <2>1. thread[i] \in {"sent", "exited"} /\ i \notin received /\ outcome' = outcome
    BY <1>6 DEF Receive, unitVars
  <2>2. outcome[i] \in {"ok", "failed", "panicked"}
    BY <2>1 DEF SlotInv, TypeOK, Outcomes
  <2>3. Parallelism # 1
    BY <2>1 DEF SlotInv
  <2>. QED
    BY <1>6, <2>1, <2>2, <2>3 DEF Receive, FailureInv, NothingFailed, TypeOK
<1>7. ASSUME NEW i \in Chunks, SerialStep(i) PROVE FailureInv'
  <2>1. SerialReturn(i) /\ (outcome[i] = "ok" \/ pc' = "done")
    BY <1>7 DEF SerialStep, SerialContinues, SerialFails, SerialUnwinds
  <2>. QED
    BY <2>1 DEF SerialReturn, FailureInv, NothingFailed
<1>. QED
  BY <1>1, <1>2, <1>3, <1>4, <1>5, <1>6, <1>7, StepKinds
\* A serial unit returns only when no other thread is left.
LEMMA SerialJoins ==
  ASSUME IInv, NEW i \in Chunks, SerialReturn(i)
  PROVE  /\ Joined'
         /\ received = Dispatched \ {i}
         /\ i \in Dispatched
<1> USE WritePhaseAssumption
<1>. TypeOK /\ SlotInv /\ CountInv
  BY DEF IInv
<1>1. /\ Parallelism = 1 /\ thread[i] = "returned"
      /\ thread' = [thread EXCEPT ![i] = "exited"]
  BY DEF SerialReturn
<1>2. i \in Dispatched /\ i \notin received
  BY <1>1 DEF SlotInv, TypeOK, Dispatched, Chunks
<1>3. inFlight = 1
  BY <1>1, <1>2, Unanswered DEF CountInv
<1>4. received = Dispatched \ {i}
  BY <1>2, <1>3, Unanswered
<1>5. ASSUME NEW j \in Chunks, j # i PROVE thread[j] \in {"idle", "exited"}
  <2>1. CASE j \in Dispatched
    BY <1>1, <1>4, <1>5, <2>1 DEF SlotInv
  <2>2. CASE j \notin Dispatched
    BY <2>2 DEF SlotInv, TypeOK, Dispatched, Chunks
  <2>. QED
    BY <2>1, <2>2
<1>. QED
  BY <1>1, <1>2, <1>4, <1>5 DEF Joined, TypeOK

\* Once the phase is done no slot thread takes a step.
LEMMA DoneIsQuiet ==
  ASSUME IInv, pc = "done", NEW i \in Chunks
  PROVE  ~(CallEnds(i) \/ Moves(i) \/ Receive(i) \/ SerialStep(i))
<1>1. thread[i] \in {"idle", "exited"}
  BY DEF IInv, SessionInv, Joined
<1>2. TypeOK
  BY DEF IInv
<1>. QED
  BY <1>1, <1>2, CallEndEffect, MoveEffect
  DEF Receive, SerialStep, SerialContinues, SerialFails, SerialUnwinds, SerialReturn

\* Once the phase is done no step changes what happened.
LEMMA DoneChangesNothing ==
  ASSUME IInv, [Next]_vars, pc = "done"
  PROVE  UNCHANGED vars
<1>1. ~Begin /\ ~End /\ ~PullEnd /\ ~PullFails /\ ~PullChunk
  BY DEF Begin, BeginSucceeds, BeginRetries, BeginWakes, BeginFails, PullChunk,
     PullEnd, PullFails, SlotFree, End, CommitSucceeds, CommitFails, Abandons,
     Unwinds, EndSession, LoopLeft
<1>2. \A i \in Chunks : ~(CallEnds(i) \/ Moves(i) \/ Receive(i) \/ SerialStep(i))
  BY DoneIsQuiet
<1>. QED
  BY <1>1, <1>2, StepKinds

LEMMA SessionInvStep ==
  ASSUME IInv, [Next]_vars
  PROVE  SessionInv'
<1> USE WritePhaseAssumption
<1>. TypeOK /\ SlotInv /\ CountInv /\ SessionInv
  BY DEF IInv
<1>1. CASE Begin
  <2>1. pc \in {"begin", "beginSleep"} /\ UNCHANGED <<dispatched, sourceDone, thread, published>>
    BY <1>1 DEF Begin, BeginSucceeds, BeginRetries, BeginWakes, BeginFails,
                dispatcherVars, unitVars, destinationVars
  <2>2. Joined'
    BY <2>1 DEF SessionInv, SlotInv, Joined, Chunks
  <2>3. \/ pc' = "stream" /\ session' = "open" /\ result' = result
        \/ pc' \in {"begin", "beginSleep"} /\ UNCHANGED <<session, result>>
        \/ pc' = "done" /\ session' = session /\ result' = BeforeSession
    BY <1>1 DEF Begin, BeginSucceeds, BeginRetries, BeginWakes, BeginFails, destinationVars
  <2>. QED
    BY <2>1, <2>2, <2>3 DEF SessionInv, BeforeSession
<1>2. CASE PullChunk
  BY <1>2 DEF PullChunk, SlotFree, SessionInv, TypeOK, destinationVars
<1>3. CASE PullEnd \/ PullFails
  BY <1>3 DEF PullEnd, PullFails, SlotFree, SessionInv, Joined, unitVars, destinationVars
<1>4. CASE End
  <2>1. PICK how \in {"committed", "commit_failed", "abandoned", "dropped"},
             visible \in BOOLEAN, returned \in Results :
          /\ EndSession(how, visible, returned)
          /\ returned.kind # "pending"
          /\ visible = published \/ visible = TRUE
    <3>1. CASE CommitSucceeds
      <4>1. Success(dispatched) \in Results /\ Success(dispatched).kind # "pending"
        BY DEF Success, Results, TypeOK
      <4>. QED
        BY <3>1, <4>1 DEF CommitSucceeds
    <3>2. CASE CommitFails
      <4>1. /\ InSession("commit", 0, committed) \in Results
            /\ InSession("commit", 0, committed).kind # "pending"
        BY DEF InSession, Results, TypeOK
      <4>. QED
        BY <3>2, <4>1 DEF CommitFails, TypeOK
    <3>3. CASE Abandons
      <4>1. writeFailures # {} => Lowest(writeFailures) \in Chunks
        BY LowestIsLeast DEF TypeOK
      <4>. DEFINE r == IF writeFailures # {}
                       THEN InSession("write", Lowest(writeFailures), committed)
                       ELSE InSession("source", dispatched, committed)
      <4>2. r \in Results /\ r.kind # "pending"
        BY <4>1 DEF InSession, Results, TypeOK, Chunks
      <4>. QED
        BY <3>3, <4>2 DEF Abandons, TypeOK
    <3>4. CASE Unwinds
      <4>1. Unwound \in Results /\ Unwound.kind # "pending"
        BY DEF Unwound, Results, TypeOK
      <4>. QED
        BY <3>4, <4>1 DEF Unwinds, TypeOK
    <3>. QED
      BY <1>4, <3>1, <3>2, <3>3, <3>4 DEF End
  <2>2. Joined /\ UNCHANGED <<dispatched, sourceDone, thread>>
    BY <2>1 DEF EndSession, LoopLeft, dispatcherVars, unitVars
  <2>3. /\ pc' = "done" /\ session' = how /\ published' = visible
        /\ result' = returned
    BY <2>1 DEF EndSession
  <2>. QED
    BY <2>1, <2>2, <2>3 DEF SessionInv, Joined
<1>5. CASE UNCHANGED vars
  BY <1>5 DEF vars, dispatcherVars, unitVars, destinationVars, SessionInv, Joined
<1>6. ASSUME NEW i \in Chunks, CallEnds(i) \/ Moves(i) \/ Receive(i) PROVE SessionInv'
  <2>1. pc # "done"
    BY <1>6, DoneIsQuiet
  <2>2. UNCHANGED <<pc, dispatched, sourceDone, session, published, result>>
    <3>1. CASE CallEnds(i)
      BY <3>1, CallEndEffect DEF dispatcherVars
    <3>2. CASE Moves(i)
      BY <3>2, MoveEffect DEF dispatcherVars, destinationVars
    <3>3. CASE Receive(i)
      BY <3>3 DEF Receive, destinationVars
    <3>. QED
      BY <1>6, <3>1, <3>2, <3>3
  <2>. QED
    BY <2>1, <2>2 DEF SessionInv
<1>7. ASSUME NEW i \in Chunks, SerialStep(i) PROVE SessionInv'
  <2>1. SerialReturn(i)
    BY <1>7 DEF SerialStep, SerialContinues, SerialFails, SerialUnwinds
  <2>2. Joined'
    BY <2>1, SerialJoins
  <2>3. pc = "stream" /\ UNCHANGED <<dispatched, sourceDone, published>>
    BY <2>1 DEF SerialReturn
  <2>4. \/ UNCHANGED <<pc, session, result>>
        \/ pc' = "done" /\ session' = "dropped" /\ result'.kind # "pending"
    BY <1>7 DEF SerialStep, SerialContinues, SerialFails, SerialUnwinds, InSession, Unwound
  <2>. QED
    BY <2>2, <2>3, <2>4 DEF SessionInv
<1>. QED
  BY <1>1, <1>2, <1>3, <1>4, <1>5, <1>6, <1>7, StepKinds
\* What the load reports, in one name: the three result facts of IInv.
ResultFacts == SuccessIsWhole /\ FirstFailureSurfaces /\ CommittedCountHonest

\* When the loop is left without a panic, every dispatched unit was answered
\* and is either acknowledged or in write_failures.
LEMMA LoopLeftIsAnswered ==
  ASSUME IInv, LoopLeft, ~writerPanic
  PROVE  \A j \in Dispatched :
           outcome[j] = "ok" \/ (outcome[j] = "failed" /\ j \in writeFailures)
<1>1. received = Dispatched
  BY AllAnswered DEF IInv, LoopLeft
<1>2. FailureInv /\ pc # "done"
  BY DEF IInv, LoopLeft
<1>3. \A j \in received :
        outcome[j] = "ok" \/ (outcome[j] = "failed" /\ j \in writeFailures)
  BY <1>2 DEF FailureInv
<1>. QED
  BY <1>1, <1>3

\* Rows land only from dispatched units, and an acknowledged unit's rows did.
LEMMA LandedAreDispatched ==
  ASSUME TypeOK, SlotInv
  PROVE  Landed \subseteq Dispatched /\ Acknowledged \subseteq Landed
<1>1. ASSUME NEW j \in Chunks, j \notin Dispatched PROVE applied[j] = 0
  <2>1. thread[j] = "idle"
    BY <1>1 DEF SlotInv, TypeOK, Dispatched, Chunks
  <2>. QED
    BY <2>1 DEF SlotInv
<1>. QED
  BY <1>1 DEF SlotInv, TypeOK, Landed, Acknowledged

LEMMA EndResultFacts ==
  ASSUME IInv, End
  PROVE  ResultFacts'
<1> USE WritePhaseAssumption
<1>. TypeOK /\ SlotInv /\ CountInv /\ FailureInv /\ SessionInv /\ LoopLeft
  BY DEF IInv, End, CommitSucceeds, CommitFails, Abandons, Unwinds, EndSession
<1>0. UNCHANGED <<sourceDone, dispatched, applied, outcome, committed>>
  BY DEF End, CommitSucceeds, CommitFails, Abandons, Unwinds, EndSession,
         dispatcherVars, unitVars
<1>1. CASE CommitSucceeds
  <2>1. /\ sourceDone' /\ published' /\ result' = Success(dispatched)
        /\ NothingFailed
    BY <1>1 DEF CommitSucceeds, EndSession, LoopLeft, FailureInv, dispatcherVars, NothingFailed
  <2>2. \A j \in Dispatched : applied[j] = 1
    BY <2>1, LoopLeftIsAnswered DEF NothingFailed, SlotInv, Dispatched, Chunks, TypeOK
  <2>. QED
    BY <1>0, <2>1, <2>2 DEF ResultFacts, SuccessIsWhole, FirstFailureSurfaces,
       CommittedCountHonest, Success, Dispatched
<1>2. CASE CommitFails
  <2>1. result' = InSession("commit", 0, committed) /\ NothingFailed
    BY <1>2 DEF CommitFails, EndSession
  <2>2. \A j \in Dispatched : outcome[j] = "ok"
    BY <2>1, LoopLeftIsAnswered DEF NothingFailed
  <2>3. Landed = Acknowledged
    BY <2>2, LandedAreDispatched DEF Landed, Acknowledged
  <2>. QED
    BY <1>0, <2>1, <2>3 DEF ResultFacts, SuccessIsWhole, FirstFailureSurfaces,
       CommittedCountHonest, InSession, CountInv, Landed, Acknowledged
<1>3. CASE Abandons
  <2>1. /\ ~writerPanic /\ published' = published
        /\ result' = IF writeFailures # {}
                     THEN InSession("write", Lowest(writeFailures), committed)
                     ELSE InSession("source", dispatched, committed)
    BY <1>3 DEF Abandons, EndSession
  <2>2. \A j \in Landed \ Acknowledged : outcome[j] = "failed"
    BY <2>1, LoopLeftIsAnswered
    DEF SlotInv, Landed, Acknowledged, Dispatched, Chunks, TypeOK
  <2>3. Acknowledged \subseteq Landed
    BY DEF SlotInv, Landed, Acknowledged
  <2>4. CommittedCountHonest'
    BY <1>0, <2>1, <2>2, <2>3
    DEF CommittedCountHonest, InSession, CountInv, SessionInv, LoopLeft,
        Landed, Acknowledged
  <2>5. FirstFailureSurfaces'
    <3>1. CASE writeFailures # {}
      <4>1. /\ Lowest(writeFailures) \in writeFailures
            /\ \A j \in writeFailures : Lowest(writeFailures) <= j
        BY <3>1, LowestIsLeast DEF TypeOK
      <4>2. \A j \in 0 .. Lowest(writeFailures) - 1 : outcome[j] = "ok"
        <5>1. Lowest(writeFailures) \in Dispatched
          BY <4>1, ReceivedDispatched DEF FailureInv
        <5>2. \A j \in 0 .. Lowest(writeFailures) - 1 :
                j \in Dispatched /\ j \notin writeFailures
          BY <4>1, <5>1 DEF Dispatched, TypeOK, Chunks
        <5>. QED
          BY <2>1, <5>2, LoopLeftIsAnswered
      <4>. QED
        BY <1>0, <2>1, <3>1, <4>1, <4>2
        DEF FirstFailureSurfaces, InSession, FailureInv
    <3>2. CASE writeFailures = {}
      <4>1. \A j \in Dispatched : outcome[j] = "ok"
        BY <2>1, <3>2, LoopLeftIsAnswered
      <4>2. Dispatched \subseteq Acknowledged
        BY <4>1 DEF Acknowledged, Dispatched, Chunks, TypeOK
      <4>. QED
        BY <1>0, <2>1, <3>2, <4>1, <4>2
        DEF FirstFailureSurfaces, InSession, Dispatched, Acknowledged
    <3>. QED
      BY <3>1, <3>2
  <2>6. SuccessIsWhole'
    BY <2>1 DEF SuccessIsWhole, InSession
  <2>. QED
    BY <2>4, <2>5, <2>6 DEF ResultFacts
<1>4. CASE Unwinds
  BY <1>4 DEF Unwinds, EndSession, Unwound, ResultFacts, SuccessIsWhole,
              FirstFailureSurfaces, CommittedCountHonest
<1>. QED
  BY <1>1, <1>2, <1>3, <1>4 DEF End

LEMMA SerialResultFacts ==
  ASSUME IInv, NEW i \in Chunks, SerialStep(i)
  PROVE  ResultFacts'
<1> USE WritePhaseAssumption
<1>. TypeOK /\ SlotInv /\ CountInv /\ FailureInv /\ SessionInv
  BY DEF IInv
<1>1. SerialReturn(i)
  BY DEF SerialStep, SerialContinues, SerialFails, SerialUnwinds
<1>2. UNCHANGED <<dispatched, outcome, applied, committed, published>>
      /\ pc = "stream" /\ Parallelism = 1
  BY <1>1 DEF SerialReturn
<1>3. CASE SerialContinues(i)
  <2>1. result'.kind = "pending"
    BY <1>2, <1>3 DEF SerialContinues, SessionInv
  <2>. QED
    BY <2>1 DEF ResultFacts, SuccessIsWhole, FirstFailureSurfaces, CommittedCountHonest
<1>4. CASE SerialFails(i)
  <2>1. result' = InSession("write", i, committed) /\ outcome[i] = "failed"
    BY <1>4 DEF SerialFails
  <2>2. received = Dispatched \ {i} /\ i \in Dispatched
    BY <1>1, SerialJoins
  <2>3. \A j \in Dispatched \ {i} : outcome[j] = "ok"
    BY <1>2, <2>2 DEF FailureInv
  <2>4. \A j \in 0 .. i - 1 : outcome[j] = "ok"
    BY <2>2, <2>3 DEF Dispatched, TypeOK
  <2>5. \A j \in Landed \ Acknowledged : outcome[j] = "failed"
    BY <2>1, <2>3, LandedAreDispatched DEF Landed, Acknowledged
  <2>6. Acknowledged \subseteq Landed
    BY DEF SlotInv, Landed, Acknowledged
  <2>7. CommittedCountHonest'
    BY <1>2, <2>1, <2>5, <2>6
    DEF CommittedCountHonest, InSession, CountInv, SessionInv, Landed, Acknowledged
  <2>. QED
    BY <1>2, <2>1, <2>4, <2>7
    DEF ResultFacts, SuccessIsWhole, FirstFailureSurfaces, InSession
<1>5. CASE SerialUnwinds(i)
  BY <1>5 DEF SerialUnwinds, Unwound, ResultFacts, SuccessIsWhole,
              FirstFailureSurfaces, CommittedCountHonest
<1>. QED
  BY <1>3, <1>4, <1>5 DEF SerialStep

LEMMA ResultFactsStep ==
  ASSUME IInv, [Next]_vars
  PROVE  ResultFacts'
<1>1. CASE End
  BY <1>1, EndResultFacts
<1>2. ASSUME NEW i \in Chunks, SerialStep(i) PROVE ResultFacts'
  BY <1>2, SerialResultFacts
<1>3. CASE Begin \/ PullEnd \/ PullFails \/ PullChunk
  <2>1. pc # "done" /\ (result' = result \/ result' = BeforeSession)
    <3>1. CASE Begin
      BY <3>1 DEF Begin, BeginSucceeds, BeginRetries, BeginWakes, BeginFails
    <3>2. CASE PullEnd \/ PullFails \/ PullChunk
      BY <3>2 DEF PullEnd, PullFails, PullChunk, SlotFree
    <3>. QED
      BY <1>3, <3>1, <3>2
  <2>2. result.kind = "pending"
    BY <2>1 DEF IInv, SessionInv
  <2>3. result'.kind \in {"pending", "before_session"}
    BY <2>1, <2>2 DEF BeforeSession
  <2>. QED
    BY <2>3 DEF ResultFacts, SuccessIsWhole, FirstFailureSurfaces, CommittedCountHonest
<1>4. CASE UNCHANGED vars
  <2>1. ResultFacts
    BY DEF IInv, ResultFacts
  <2>. QED
    BY <1>4, <2>1 DEF vars, dispatcherVars, unitVars, destinationVars, ResultFacts,
       SuccessIsWhole, FirstFailureSurfaces, CommittedCountHonest,
       Dispatched, Acknowledged, Landed
<1>5. ASSUME NEW i \in Chunks, CallEnds(i) \/ Moves(i) \/ Receive(i)
      PROVE  ResultFacts'
  <2>1. pc # "done"
    BY <1>5, DoneIsQuiet
  <2>2. UNCHANGED result
    <3>1. CASE CallEnds(i)
      BY <3>1, CallEndEffect DEF IInv
    <3>2. CASE Moves(i) \/ Receive(i)
      BY <3>2, MoveEffect DEF Receive
    <3>. QED
      BY <1>5, <3>1, <3>2
  <2>3. result'.kind = "pending"
    BY <2>1, <2>2 DEF IInv, SessionInv
  <2>. QED
    BY <2>3 DEF ResultFacts, SuccessIsWhole, FirstFailureSurfaces, CommittedCountHonest
<1>. QED
  BY <1>1, <1>2, <1>3, <1>4, <1>5, StepKinds
-----------------------------------------------------------------------------
(* The theorems.                                                           *)

LEMMA InitIInv == Init => IInv
<1> SUFFICES ASSUME Init PROVE IInv
  OBVIOUS
<1> USE WritePhaseAssumption
<1>1. TypeOK
  BY InitTypeOK
<1>2. SlotInv
  BY DEF Init, SlotInv, Chunks
<1>3. CountInv
  <2>1. Acknowledged = {}
    BY DEF Init, Acknowledged
  <2>2. Cardinality({}) = 0
    BY FS_EmptySet
  <2>. QED
    BY <2>1, <2>2 DEF Init, CountInv
<1>4. FailureInv
  BY DEF Init, FailureInv, NothingFailed
<1>5. SessionInv
  BY DEF Init, SessionInv, Pending
<1>6. ResultFacts
  BY DEF Init, Pending, ResultFacts, SuccessIsWhole, FirstFailureSurfaces,
         CommittedCountHonest
<1>. QED
  BY <1>1, <1>2, <1>3, <1>4, <1>5, <1>6 DEF IInv, ResultFacts

LEMMA NextIInv == IInv /\ [Next]_vars => IInv'
<1> SUFFICES ASSUME IInv, [Next]_vars PROVE IInv'
  OBVIOUS
<1>1. TypeOK'
  BY NextTypeOK DEF IInv
<1>2. SlotInv' /\ CountInv' /\ FailureInv' /\ SessionInv'
  BY SlotInvStep, CountInvStep, FailureInvStep, SessionInvStep
<1>3. ResultFacts'
  BY ResultFactsStep
<1>. QED
  BY <1>1, <1>2, <1>3 DEF IInv, ResultFacts

\* The inductive invariant holds: slots, window, failures, session and the
\* facts a load reports stay in step under every interleaving.
THEOREM WritePhaseInvariant == Spec => []IInv
  BY InitIInv, NextIInv, PTL DEF Spec

\* No chunk's rows reach the destination twice, for any window and budget.
THEOREM WritePhaseAtMostOnce == Spec => []AtMostOnce
<1>1. IInv => AtMostOnce
  BY DEF IInv, SlotInv, AtMostOnce
<1>. QED
  BY <1>1, WritePhaseInvariant, PTL

\* run_windowed_write_phase drains its slots before it ends the session.
THEOREM WritePhaseDrained == Spec => []DrainedBeforeEnd
<1>1. IInv => DrainedBeforeEnd
  <2> SUFFICES ASSUME IInv, NEW i \in Writing PROVE session = "open"
    BY DEF DrainedBeforeEnd
  <2>1. thread[i] \notin {"idle", "exited"} /\ i \in Chunks
    BY DEF Writing
  <2>2. pc # "done"
    BY <2>1 DEF IInv, SessionInv, Joined
  <2>3. dispatched # 0
    BY <2>1 DEF IInv, SlotInv, TypeOK, Chunks
  <2>. QED
    BY <2>2, <2>3 DEF IInv, SessionInv, TypeOK
<1>. QED
  BY <1>1, WritePhaseInvariant, PTL

\* The window holds at most Parallelism unanswered units.
THEOREM WritePhaseWindowBound == Spec => []WindowBound
<1>1. IInv => WindowBound
  <2> SUFFICES ASSUME IInv PROVE WindowBound
    OBVIOUS
  <2> USE WritePhaseAssumption
  <2>. TypeOK /\ SlotInv /\ CountInv
    BY DEF IInv
  <2>. DEFINE Unanswd == { i \in Chunks :
                             thread[i] \in {"calling", "sleeping", "returned"} }
  <2>1. Unanswd \in SUBSET (Dispatched \ received)
    <3> SUFFICES ASSUME NEW i \in Unanswd PROVE i \in Dispatched \ received
      OBVIOUS
    <3>1. i \in Chunks /\ thread[i] \in {"calling", "sleeping", "returned"}
      OBVIOUS
    <3>2. ~(i >= dispatched) /\ i \notin received
      BY <3>1 DEF SlotInv
    <3>. QED
      BY <3>1, <3>2 DEF Dispatched, Chunks, TypeOK
  <2>2. /\ IsFiniteSet(Dispatched \ received)
        /\ Cardinality(Dispatched \ received) =
             Cardinality(Dispatched) - Cardinality(Dispatched \cap received)
    BY DispatchedCount, FS_Difference
  <2>3. Dispatched \cap received = received
    BY ReceivedDispatched
  <2>4. Cardinality(Dispatched \ received) = inFlight
    BY <2>2, <2>3, DispatchedCount DEF CountInv
  <2>5. Cardinality(Unanswd) <= inFlight /\ Cardinality(Unanswd) \in Nat
    BY <2>1, <2>2, <2>4, FS_Subset, FS_CardinalityType
  <2>. QED
    BY <2>5 DEF WindowBound, CountInv, TypeOK
<1>. QED
  BY <1>1, WritePhaseInvariant, PTL

\* A reported success covers the whole stream, visibly and exactly once.
THEOREM WritePhaseSuccessIsWhole == Spec => []SuccessIsWhole
<1>1. IInv => SuccessIsWhole
  BY DEF IInv
<1>. QED
  BY <1>1, WritePhaseInvariant, PTL

\* The surfaced failure is the first in stream order.
THEOREM WritePhaseFirstFailure == Spec => []FirstFailureSurfaces
<1>1. IInv => FirstFailureSurfaces
  BY DEF IInv
<1>. QED
  BY <1>1, WritePhaseInvariant, PTL

\* The committed count a failed load reports is what the destination holds.
THEOREM WritePhaseCommittedCount == Spec => []CommittedCountHonest
<1>1. IInv => CommittedCountHonest
  BY DEF IInv
<1>. QED
  BY <1>1, WritePhaseInvariant, PTL

\* At parallelism 1 a chunk is pulled only when no unit is unanswered and none
\* has failed, so every chunk before the last one pulled is acknowledged.
LEMMA SerialInvStep ==
  ASSUME IInv, SerialInv, [Next]_vars
  PROVE  SerialInv'
<1> USE WritePhaseAssumption
<1>. TypeOK /\ SlotInv /\ CountInv /\ FailureInv
  BY DEF IInv
<1>1. CASE Begin \/ PullEnd \/ PullFails \/ End \/ UNCHANGED vars
  BY <1>1, QuietSteps DEF SerialInv
<1>2. CASE PullChunk
  <2> SUFFICES ASSUME Parallelism = 1, NEW j \in Chunks, j < dispatched' - 1
               PROVE  outcome'[j] = "ok"
    BY DEF SerialInv
  <2>1. /\ dispatched' = dispatched + 1 /\ outcome' = outcome
        /\ ~halted /\ pc = "stream" /\ inFlight < Parallelism
    BY <1>2 DEF PullChunk, SlotFree, unitVars
  <2>2. inFlight = 0
    BY <2>1 DEF CountInv
  <2>3. received = Dispatched
    BY <2>2, AllAnswered
  <2>4. j \in received
    BY <2>1, <2>3 DEF Dispatched, Chunks, TypeOK
  <2>5. writeFailures = {} /\ ~writerPanic
    BY <2>1 DEF FailureInv, NothingFailed
  <2>. QED
    BY <2>1, <2>4, <2>5 DEF FailureInv
<1>3. ASSUME NEW i \in Chunks, CallEnds(i) PROVE SerialInv'
  <2>1. thread[i] = "calling" /\ UNCHANGED dispatched
    BY <1>3, CallEndEffect DEF dispatcherVars
  <2>2. PICK how \in {"ok", "failed", "panicked"} :
          outcome' = [outcome EXCEPT ![i] = how]
    BY <1>3, CallEndEffect
  <2>3. outcome[i] = "none"
    BY <2>1 DEF SlotInv
  <2>. QED
    BY <2>1, <2>2, <2>3 DEF SerialInv, TypeOK
<1>4. ASSUME NEW i \in Chunks, Moves(i) \/ Receive(i) \/ SerialStep(i)
      PROVE  SerialInv'
  <2>1. UNCHANGED <<dispatched, outcome>>
    <3>1. CASE Moves(i)
      BY <3>1, MoveEffect DEF dispatcherVars
    <3>2. CASE Receive(i)
      BY <3>2 DEF Receive, unitVars
    <3>3. CASE SerialStep(i)
      BY <3>3 DEF SerialStep, SerialContinues, SerialFails, SerialUnwinds,
                  SerialReturn
    <3>. QED
      BY <1>4, <3>1, <3>2, <3>3
  <2>. QED
    BY <2>1 DEF SerialInv
<1>. QED
  BY <1>1, <1>2, <1>3, <1>4, StepKinds

\* The serial loop's landed chunks: all but perhaps the last one pulled.
LEMMA SerialLanded ==
  ASSUME IInv, SerialInv, Parallelism = 1
  PROVE  \E n \in {dispatched - 1, dispatched} :
           /\ n \in Nat
           /\ Landed = 0 .. n - 1
           /\ 0 .. dispatched - 2 \subseteq Acknowledged
<1>. TypeOK /\ SlotInv
  BY DEF IInv
<1>1. 0 .. dispatched - 2 \subseteq Acknowledged
  <2> SUFFICES ASSUME NEW j \in 0 .. dispatched - 2 PROVE j \in Acknowledged
    BY Zenon
  <2>1. j \in Chunks /\ j < dispatched - 1
    BY WritePhaseAssumption DEF TypeOK, Chunks
  <2>. QED
    BY <2>1 DEF SerialInv, Acknowledged
<1>2. Landed \subseteq 0 .. dispatched - 1 /\ Acknowledged \subseteq Landed
  BY LandedAreDispatched DEF Dispatched
<1>3. dispatched \in Nat
  BY DEF TypeOK
<1>4. CASE dispatched = 0
  BY <1>1, <1>2, <1>4
<1>5. CASE dispatched # 0 /\ dispatched - 1 \in Landed
  <2>1. 0 .. dispatched - 2 \subseteq Landed
    BY <1>1, <1>2
  <2>2. ASSUME NEW j \in 0 .. dispatched - 1 PROVE j \in Landed
    BY <1>3, <1>5, <2>1
  <2>3. Landed = 0 .. dispatched - 1
    BY <1>2, <2>2
  <2>. QED
    BY <1>1, <1>3, <2>3
<1>6. CASE dispatched # 0 /\ dispatched - 1 \notin Landed
  <2>1. 0 .. dispatched - 2 \subseteq Landed
    BY <1>1, <1>2
  <2>2. ASSUME NEW j \in Landed PROVE j \in 0 .. dispatched - 2
    BY <1>2, <1>3, <1>6
  <2>3. (dispatched - 1) - 1 = dispatched - 2
    BY <1>3
  <2>4. Landed = 0 .. (dispatched - 1) - 1
    BY <2>1, <2>2, <2>3
  <2>. QED
    BY <1>1, <1>3, <1>6, <2>4
<1>. QED
  BY <1>4, <1>5, <1>6

\* At parallelism 1 the destination always holds a prefix of the stream, at
\* most one chunk longer than the committed count a failed append reports.
THEOREM WritePhaseSerialPrefix == Spec => []SerialPrefix
<1>1. Init => SerialInv
  BY WritePhaseAssumption DEF Init, SerialInv, Chunks
<1>2. IInv /\ SerialInv /\ [Next]_vars => SerialInv'
  BY SerialInvStep
<1>3. IInv /\ SerialInv => SerialPrefix
  <2> SUFFICES ASSUME IInv, SerialInv, Parallelism = 1
               PROVE  /\ Landed = 0 .. Cardinality(Landed) - 1
                      /\ result.kind = "in_session" /\ CommitsPerChunk =>
                           Cardinality(Landed) - result.committed \in {0, 1}
    BY DEF SerialPrefix
  <2>. TypeOK /\ SlotInv
    BY DEF IInv
  <2>1. PICK n \in {dispatched - 1, dispatched} :
          n \in Nat /\ Landed = 0 .. n - 1 /\ 0 .. dispatched - 2 \subseteq Acknowledged
    BY SerialLanded
  <2>2. Cardinality(Landed) = n /\ IsFiniteSet(Landed)
    BY <2>1, FS_Interval
  <2>3. ASSUME result.kind = "in_session", CommitsPerChunk
        PROVE  Cardinality(Landed) - result.committed \in {0, 1}
    <3>1. result.committed = Cardinality(Acknowledged) /\ Acknowledged \subseteq Landed
      BY <2>3 DEF IInv, CommittedCountHonest
    <3>2. /\ Cardinality(Acknowledged) <= n
          /\ Cardinality(Acknowledged) \in Nat
      BY <2>2, <3>1, ReceivedFinite, FS_Subset
    <3>3. dispatched \in Nat
      BY DEF TypeOK
    <3>4. Cardinality(0 .. dispatched - 2) <= Cardinality(Acknowledged)
      BY <2>1, ReceivedFinite, FS_Subset
    <3>5. dispatched > 0 => Cardinality(0 .. dispatched - 2) = dispatched - 1
      BY <3>3, FS_Interval
    <3>6. n - Cardinality(Acknowledged) \in {0, 1}
      BY <2>1, <3>2, <3>3, <3>4, <3>5
    <3>. QED
      BY <2>2, <3>1, <3>6
  <2>. QED
    BY <2>1, <2>2, <2>3
<1>. QED
  BY <1>1, <1>2, <1>3, WritePhaseInvariant, PTL DEF Spec

-----------------------------------------------------------------------------
(* The retry log: what the sort by unit_order makes of it.                 *)

\* unit_order is a strict order on log entries.
LEMMA EntryOrder ==
  ASSUME NEW e \in LogEntries, NEW f \in LogEntries, NEW g \in LogEntries
  PROVE  /\ ~EntryBefore(e, e)
         /\ EntryBefore(e, f) => ~EntryBefore(f, e)
         /\ EntryBefore(e, f) /\ EntryBefore(f, g) => EntryBefore(e, g)
<1>1. /\ e.rank \in Int /\ e.chunk \in Int /\ e.attempt \in Int
      /\ f.rank \in Int /\ f.chunk \in Int /\ f.attempt \in Int
      /\ g.rank \in Int /\ g.chunk \in Int /\ g.attempt \in Int
  BY DEF LogEntries
<1>. QED
  BY <1>1 DEF EntryBefore

\* Entries of a log that unit_order tells apart come out of the sort each
\* once and in strictly ascending order.
LEMMA SortedLogResult ==
  ASSUME NEW log \in Seq(LogEntries),
         \A m, n \in DOMAIN log :
           m # n => EntryBefore(log[m], log[n]) \/ EntryBefore(log[n], log[m])
  PROVE  /\ SortedLog(log) \in Seq(LogEntries)
         /\ Len(SortedLog(log)) = Len(log)
         /\ Range(SortedLog(log)) = Range(log)
         /\ \A k \in 1 .. Len(log) - 1 :
              EntryBefore(SortedLog(log)[k], SortedLog(log)[k + 1])
<1> DEFINE D == DOMAIN log
           before(m, n) == EntryBefore(log[m], log[n])
           upto(n) == { m \in D : before(m, n) \/ m = n }
           place == [n \in D |-> Place(log, n)]
           at(k) == CHOOSE n \in D : Place(log, n) = k
<1>1. /\ D = 1 .. Len(log) /\ Len(log) \in Nat
      /\ \A n \in D : log[n] \in LogEntries
  OBVIOUS
<1>2. IsFiniteSet(D) /\ Cardinality(D) = Len(log)
  <2>1. IsFiniteSet(1 .. Len(log)) /\ Cardinality(1 .. Len(log)) = Len(log)
    <3>1. Len(log) \in Int /\ (1 > Len(log) => Len(log) = 0)
      OBVIOUS
    <3>. QED
      BY <3>1, FS_Interval
  <2>. QED
    BY <1>1, <2>1
<1>3. /\ \A m \in D : ~before(m, m)
      /\ \A m, n \in D : before(m, n) => ~before(n, m)
      /\ \A m, n \in D : m # n => before(m, n) \/ before(n, m)
  BY <1>1, EntryOrder
<1>4. \A l, m, n \in D : before(l, m) /\ before(m, n) => before(l, n)
  BY <1>1, EntryOrder
<1>5. \A n \in D : Place(log, n) = Cardinality(upto(n))
  <2> SUFFICES ASSUME NEW n \in D
               PROVE  Place(log, n) = Cardinality(upto(n))
    OBVIOUS
  <2> DEFINE spot == { m \in D : before(m, n) \/ (m <= n /\ ~before(n, m)) }
  <2>1. Place(log, n) = Cardinality(spot)
    BY DEF Place
  <2>2. ASSUME NEW m \in D
        PROVE  (before(m, n) \/ (m <= n /\ ~before(n, m))) <=> (before(m, n) \/ m = n)
    <3> HIDE DEF before
    <3>. QED
      BY <1>1, <1>3
  <2>3. spot = upto(n)
    <3> HIDE DEF before
    <3>. QED
      BY <2>2
  <2>. QED
    BY <2>1, <2>3
<1> HIDE DEF before
<1>6. ASSUME NEW n \in D
      PROVE  IsFiniteSet(upto(n)) /\ Cardinality(upto(n)) \in 1 .. Cardinality(D)
  <2>1. upto(n) \subseteq D /\ n \in upto(n)
    OBVIOUS
  <2> HIDE DEF upto
  <2>2. IsFiniteSet(upto(n)) /\ Cardinality(upto(n)) <= Cardinality(D)
    BY <1>2, <2>1, FS_Subset
  <2>3. Cardinality(upto(n)) \in Nat /\ Cardinality(upto(n)) # 0
    BY <2>1, <2>2, FS_CardinalityType, FS_EmptySet
  <2>. QED
    BY <1>1, <1>2, <2>2, <2>3
<1>7. ASSUME NEW m \in D, NEW n \in D, before(m, n)
      PROVE  Place(log, m) < Place(log, n)
  <2>1. upto(m) \subseteq upto(n) /\ n \in upto(n) /\ n \notin upto(m)
    BY <1>3, <1>4, <1>7
  <2> HIDE DEF upto
  <2>2. Cardinality(upto(m)) <= Cardinality(upto(n))
    BY <1>6, <2>1, FS_Subset
  <2>3. Cardinality(upto(m)) # Cardinality(upto(n))
    BY <1>6, <2>1, FS_Subset
  <2>. QED
    BY <1>1, <1>2, <1>5, <1>6, <2>2, <2>3
<1>8. place \in [D -> 1 .. Cardinality(D)]
  BY <1>5, <1>6
<1>9. ASSUME NEW m \in D, NEW n \in D, place[m] = place[n] PROVE m = n
  <2>1. Place(log, m) = Place(log, n)
    BY <1>9
  <2>2. Place(log, m) \in Int
    <3> HIDE DEF upto, D
    <3>. QED
      BY <1>2, <1>5, <1>6
  <2>3. ~before(m, n) /\ ~before(n, m)
    BY <1>7, <2>1, <2>2
  <2>. QED
    BY <1>3, <2>3
<1>10. \A k \in 1 .. Len(log) : \E n \in D : Place(log, n) = k
  <2>1. \A k \in 1 .. Cardinality(D) : \E n \in D : place[n] = k
    <3> HIDE DEF place, D
    <3>. QED
      BY <1>2, <1>8, <1>9, Ranking
  <2>. QED
    BY <1>2, <2>1
<1>11. ASSUME NEW k \in 1 .. Len(log) PROVE at(k) \in D /\ Place(log, at(k)) = k
  BY <1>10
<1>12. ASSUME NEW n \in D PROVE Place(log, n) \in D /\ at(Place(log, n)) = n
  <2>1. Place(log, n) \in 1 .. Len(log)
    BY <1>2, <1>5, <1>6
  <2>2. at(Place(log, n)) \in D /\ Place(log, at(Place(log, n))) = Place(log, n)
    BY <1>11, <2>1
  <2> HIDE DEF at
  <2>. QED
    BY <1>1, <1>9, <2>1, <2>2
<1>13. SortedLog(log) = [k \in D |-> log[at(k)]]
  BY DEF SortedLog
<1> HIDE DEF at, upto, place
<1>14. SortedLog(log) \in Seq(LogEntries) /\ Len(SortedLog(log)) = Len(log)
  BY <1>1, <1>11, <1>13
<1>15. Range(SortedLog(log)) = Range(log)
  <2>1. ASSUME NEW n \in D PROVE log[n] \in Range(SortedLog(log))
    BY <1>12, <1>13 DEF Range
  <2>2. ASSUME NEW e \in Range(SortedLog(log)) PROVE e \in Range(log)
    BY <1>1, <1>11, <1>13 DEF Range
  <2>. QED
    BY <2>1, <2>2 DEF Range
<1>16. ASSUME NEW k \in 1 .. Len(log) - 1
       PROVE  EntryBefore(SortedLog(log)[k], SortedLog(log)[k + 1])
  <2>1. k \in D /\ k + 1 \in D /\ k < k + 1
    BY <1>1
  <2>2. /\ at(k) \in D /\ Place(log, at(k)) = k
        /\ at(k + 1) \in D /\ Place(log, at(k + 1)) = k + 1
    BY <1>1, <1>11, <2>1
  <2>3. at(k) # at(k + 1) /\ ~before(at(k + 1), at(k))
    BY <1>1, <1>7, <2>1, <2>2
  <2>4. before(at(k), at(k + 1))
    BY <1>3, <2>2, <2>3
  <2>. QED
    BY <1>13, <2>1, <2>4 DEF before
<1>. QED
  BY <1>14, <1>15, <1>16

\* One more failed attempt of a unit, with and without a retry after it.
LEMMA UnitLogGrows ==
  ASSUME NEW rank, NEW chunk, NEW n \in Nat, n >= 1
  PROVE  /\ UnitLog(rank, chunk, n + 1, FALSE) =
              UnitLog(rank, chunk, n, FALSE) \union {Entry(rank, chunk, n, TRUE)}
         /\ UnitLog(rank, chunk, n, TRUE) =
              IF n > 1
              THEN UnitLog(rank, chunk, n, FALSE) \union {Entry(rank, chunk, n, FALSE)}
              ELSE UnitLog(rank, chunk, n, FALSE)
         /\ Entry(rank, chunk, n, TRUE) \notin UnitLog(rank, chunk, n, FALSE)
         /\ Entry(rank, chunk, n, FALSE) \notin UnitLog(rank, chunk, n, FALSE)
<1> DEFINE tried(m) == { Entry(rank, chunk, a, TRUE) : a \in 1 .. m - 1 }
<1>1. \A m : UnitLog(rank, chunk, m, FALSE) = tried(m)
  BY DEF UnitLog
<1>2. UnitLog(rank, chunk, n, TRUE) =
        IF n > 1 THEN tried(n) \union {Entry(rank, chunk, n, FALSE)} ELSE tried(n)
  BY DEF UnitLog
<1>3. tried(n + 1) = tried(n) \union {Entry(rank, chunk, n, TRUE)}
  <2>1. 1 .. (n + 1) - 1 = (1 .. n - 1) \union {n}
    OBVIOUS
  <2>. QED
    BY <2>1
<1>4. \A e \in tried(n) : e.attempt # n
  BY DEF Entry
<1>5. /\ Entry(rank, chunk, n, TRUE).attempt = n
      /\ Entry(rank, chunk, n, FALSE).attempt = n
  BY DEF Entry
<1>6. /\ Entry(rank, chunk, n, TRUE) \notin tried(n)
      /\ Entry(rank, chunk, n, FALSE) \notin tried(n)
  <2> HIDE DEF tried
  <2>. QED
    BY <1>4, <1>5, Zenon
<1> HIDE DEF tried
<1>. QED
  BY <1>1, <1>2, <1>3, <1>6

\* A unit's entries are of the unit, and their attempts tell them apart.
LEMMA UnitLogKeys ==
  ASSUME NEW rank \in {0, 1}, NEW chunk \in Nat, NEW n \in Nat,
         NEW failed \in BOOLEAN
  PROVE  /\ UnitLog(rank, chunk, n, failed) \subseteq LogEntries
         /\ \A e \in UnitLog(rank, chunk, n, failed) :
              e.rank = rank /\ e.chunk = chunk
         /\ \A e, f \in UnitLog(rank, chunk, n, failed) :
              e # f => e.attempt # f.attempt
<1> DEFINE all == UnitLog(rank, chunk, n, failed)
<1>1. ASSUME NEW e \in all
      PROVE  \E a \in 1 .. n : \/ a < n /\ e = Entry(rank, chunk, a, TRUE)
                               \/ a = n /\ e = Entry(rank, chunk, a, FALSE)
  <2>1. CASE e \in { Entry(rank, chunk, a, TRUE) : a \in 1 .. n - 1 }
    <3>1. PICK a \in 1 .. n - 1 : e = Entry(rank, chunk, a, TRUE)
      BY <2>1, Zenon
    <3>2. a \in 1 .. n /\ a < n
      OBVIOUS
    <3>. QED
      BY <3>1, <3>2, Zenon
  <2>2. CASE e \notin { Entry(rank, chunk, a, TRUE) : a \in 1 .. n - 1 }
    <3>1. n > 1 /\ e = Entry(rank, chunk, n, FALSE)
      BY <2>2, Zenon DEF UnitLog
    <3>2. n \in 1 .. n
      BY <3>1
    <3>. QED
      BY <3>1, <3>2, Zenon
  <2>. QED
    BY <2>1, <2>2
<1> HIDE DEF all
<1>2. ASSUME NEW e \in all
      PROVE  e \in LogEntries /\ e.rank = rank /\ e.chunk = chunk
  <2>1. PICK a \in 1 .. n : \/ a < n /\ e = Entry(rank, chunk, a, TRUE)
                            \/ a = n /\ e = Entry(rank, chunk, a, FALSE)
    BY <1>1, Zenon
  <2>2. ASSUME NEW b \in BOOLEAN
        PROVE  LET x == Entry(rank, chunk, a, b)
               IN  x \in LogEntries /\ x.rank = rank /\ x.chunk = chunk
    BY DEF Entry, LogEntries
  <2>. QED
    BY <2>1, <2>2, Zenon
<1>3. ASSUME NEW e \in all, NEW f \in all, e.attempt = f.attempt PROVE e = f
  <2>1. PICK a \in 1 .. n : \/ a < n /\ e = Entry(rank, chunk, a, TRUE)
                            \/ a = n /\ e = Entry(rank, chunk, a, FALSE)
    BY <1>1, Zenon
  <2>2. PICK b \in 1 .. n : \/ b < n /\ f = Entry(rank, chunk, b, TRUE)
                            \/ b = n /\ f = Entry(rank, chunk, b, FALSE)
    BY <1>1, Zenon
  <2>3. e.attempt = a /\ f.attempt = b
    BY <2>1, <2>2 DEF Entry
  <2>4. a = b
    BY <1>3, <2>3
  <2>5. a < n <=> b < n
    BY <2>4
  <2>6. ~(a < n /\ b = n) /\ ~(a = n /\ b < n)
    BY <2>4
  <2>. QED
    BY <2>1, <2>2, <2>4, <2>6, Zenon
<1>. QED
  BY <1>2, <1>3 DEF all

\* run_unit's two ways of logging keep a unit's log exact.
LEMMA LogGrows ==
  ASSUME NEW rank \in {0, 1}, NEW chunk \in Nat, NEW n \in Nat, n >= 1,
         NEW log \in Seq(LogEntries), IsInjective(log),
         Range(log) = UnitLog(rank, chunk, n, FALSE)
  PROVE  LET more == Append(log, Entry(rank, chunk, n, TRUE))
             final == WithFinal(log, Entry(rank, chunk, n, FALSE))
         IN /\ IsInjective(more) /\ Range(more) = UnitLog(rank, chunk, n + 1, FALSE)
            /\ IsInjective(final) /\ Range(final) = UnitLog(rank, chunk, n, TRUE)
<1> DEFINE retried == Entry(rank, chunk, n, TRUE)
           last == Entry(rank, chunk, n, FALSE)
<1>1. retried \in LogEntries /\ last \in LogEntries /\ last.attempt = n
  BY DEF Entry, LogEntries
<1>2. retried \notin Range(log) /\ last \notin Range(log)
  <2>1. /\ retried \notin UnitLog(rank, chunk, n, FALSE)
        /\ last \notin UnitLog(rank, chunk, n, FALSE)
    BY UnitLogGrows
  <2>. QED
    BY <2>1, Zenon
<1> HIDE DEF retried, last
<1>3. ASSUME NEW e \in LogEntries, e \notin Range(log)
      PROVE  /\ IsInjective(Append(log, e))
             /\ Range(Append(log, e)) = Range(log) \union {e}
  BY <1>3, AppendFresh, ZenonT(60)
<1>4. /\ UnitLog(rank, chunk, n + 1, FALSE) = Range(log) \union {retried}
      /\ UnitLog(rank, chunk, n, TRUE) =
           IF n > 1 THEN Range(log) \union {last} ELSE Range(log)
  BY UnitLogGrows, ZenonT(60) DEF retried, last
<1>5. WithFinal(log, last) = IF n > 1 THEN Append(log, last) ELSE log
  BY <1>1 DEF WithFinal
<1>6. /\ IsInjective(WithFinal(log, last))
      /\ Range(WithFinal(log, last)) = UnitLog(rank, chunk, n, TRUE)
  BY <1>1, <1>2, <1>3, <1>4, <1>5, Zenon
<1>7. /\ IsInjective(Append(log, retried))
      /\ Range(Append(log, retried)) = UnitLog(rank, chunk, n + 1, FALSE)
  BY <1>1, <1>2, <1>3, <1>4, Zenon
<1>. QED
  BY <1>6, <1>7 DEF retried, last

\* A unit tried at most once has an empty log.
LEMMA UnitLogEmpty ==
  ASSUME NEW rank, NEW chunk, NEW n \in {0, 1}, NEW failed \in BOOLEAN
  PROVE  UnitLog(rank, chunk, n, failed) = {}
<1>1. { Entry(rank, chunk, a, TRUE) : a \in 1 .. n - 1 } = {}
  <2>1. 1 .. n - 1 = {}
    OBVIOUS
  <2>. QED
    BY <2>1, Zenon
<1>2. ~(n > 1)
  OBVIOUS
<1>. QED
  BY <1>1, <1>2, Zenon DEF UnitLog

\* What the logs so far hold, unit by unit.
LEMMA ChunkLogIs ==
  ASSUME TypeOK, NEW i \in Chunks
  PROVE  /\ ChunkLog(i) \subseteq LogEntries
         /\ \A e \in ChunkLog(i) : e.rank = 1 /\ e.chunk = i
         /\ \A e, f \in ChunkLog(i) : e # f => e.attempt # f.attempt
<1> DEFINE n == IF thread[i] = "sleeping" THEN attempt[i] + 1 ELSE attempt[i]
           failed == outcome[i] = "failed"
<1>1. n \in Nat /\ i \in Nat /\ attempt[i] \in Nat
  BY DEF TypeOK, Chunks
<1>2. failed \in BOOLEAN
  BY Zenon
<1>3. ChunkLog(i) = UnitLog(1, i, n, failed)
  BY DEF ChunkLog
<1> HIDE DEF failed, n
<1>. QED
  BY <1>1, <1>2, <1>3, UnitLogKeys

LEMMA BeginLogIs ==
  ASSUME TypeOK
  PROVE  /\ BeginLog \subseteq LogEntries
         /\ \A e \in BeginLog : e.rank = 0 /\ e.chunk = 0
         /\ \A e, f \in BeginLog : e # f => e.attempt # f.attempt
<1> DEFINE n == IF pc = "beginSleep" THEN beginAttempt + 1 ELSE beginAttempt
           failed == result.kind = "before_session"
<1>1. n \in Nat
  BY DEF TypeOK
<1>2. failed \in BOOLEAN
  BY Zenon
<1>3. BeginLog = UnitLog(0, 0, n, failed)
  BY DEF BeginLog
<1> HIDE DEF failed, n
<1>. QED
  BY <1>1, <1>2, <1>3, UnitLogKeys

\* A step of one slot that leaves the orchestrator's log alone.
LEMMA LogFrame ==
  ASSUME LogInv, NEW i \in Chunks, i \in received => ChunkLog(i)' = ChunkLog(i),
         UNCHANGED <<beginAttempt, retryAttempts, received, BeginLog>>,
         pc' # "done",
         \A j \in Chunks \ {i} :
           /\ attempt'[j] = attempt[j] /\ slotAttempts'[j] = slotAttempts[j]
           /\ thread'[j] = thread[j] /\ outcome'[j] = outcome[j],
         thread'[i] = "idle" <=> attempt'[i] = 0,
         IsInjective(slotAttempts'[i]), Range(slotAttempts'[i]) = ChunkLog(i)',
         received \subseteq Chunks
  PROVE  LogInv'
<1>1. \A j \in Chunks \ {i} : ChunkLog(j)' = ChunkLog(j)
  BY DEF ChunkLog
<1>2. \A j \in received : ChunkLog(j)' = ChunkLog(j)
  BY <1>1
<1>3. UNION { ChunkLog(j)' : j \in received } = UNION { ChunkLog(j) : j \in received }
  BY <1>2
<1>4. \A j \in Chunks :
        /\ thread'[j] = "idle" <=> attempt'[j] = 0
        /\ IsInjective(slotAttempts'[j]) /\ Range(slotAttempts'[j]) = ChunkLog(j)'
  BY <1>1 DEF LogInv
<1>. QED
  BY <1>3, <1>4 DEF LogInv

\* The slot threads' steps keep every log exact.
LEMMA SlotLogStep ==
  ASSUME IInv, LogInv, NEW i \in Chunks, CallEnds(i) \/ Moves(i)
  PROVE  LogInv'
<1>. TypeOK /\ SlotInv /\ SessionInv /\ TypeOK'
  <2>1. [Next]_vars
    BY DEF CallEnds, Moves, Next, UnitStep
  <2>. QED
    BY <2>1, NextTypeOK DEF IInv
<1>1. /\ UNCHANGED <<pc, beginAttempt, retryAttempts, received, result>>
      /\ pc # "done"
  <2>1. UNCHANGED <<pc, dispatcherVars, result>>
    BY CallEndEffect, MoveEffect
  <2>2. UNCHANGED <<beginAttempt, retryAttempts>>
    BY DEF CallEnds, Moves, CallSucceeds, CallFails, CallPanics, UnitReturns,
           CallRetries, Wakes, SendCompletion, ThreadExits
  <2>. QED
    BY <2>1, <2>2, DoneIsQuiet DEF dispatcherVars
<1>2. UNCHANGED BeginLog
  BY <1>1 DEF BeginLog
<1>3. /\ thread[i] = "idle" <=> attempt[i] = 0
      /\ IsInjective(slotAttempts[i]) /\ Range(slotAttempts[i]) = ChunkLog(i)
      /\ attempt[i] \in Nat /\ slotAttempts[i] \in Seq(LogEntries) /\ i \in Nat
      /\ received \subseteq Chunks
  BY DEF LogInv, TypeOK, Chunks
<1>4. CASE CallSucceeds(i) \/ CallPanics(i) \/ SendCompletion(i) \/ ThreadExits(i)
  <2>1. /\ thread[i] \notin {"idle", "sleeping"}
        /\ \E to \in {"returned", "sent", "exited"} :
             thread' = [thread EXCEPT ![i] = to]
        /\ UNCHANGED <<attempt, slotAttempts>>
    BY <1>4 DEF CallSucceeds, CallPanics, UnitReturns, SendCompletion, ThreadExits
  <2>2. /\ \A j \in Chunks \ {i} : outcome'[j] = outcome[j]
        /\ outcome'[i] = "failed" <=> outcome[i] = "failed"
    <3>1. CASE CallSucceeds(i) \/ CallPanics(i)
      BY <3>1 DEF CallSucceeds, CallPanics, UnitReturns, SlotInv, TypeOK
    <3>2. CASE SendCompletion(i) \/ ThreadExits(i)
      BY <3>2 DEF SendCompletion, ThreadExits
    <3>. QED
      BY <1>4, <3>1, <3>2
  <2>3. thread'[i] \notin {"idle", "sleeping"}
    BY <2>1 DEF TypeOK
  <2>4. ChunkLog(i)' = ChunkLog(i)
    BY <2>1, <2>2, <2>3 DEF ChunkLog, UnitLog
  <2>5. \A j \in Chunks \ {i} : thread'[j] = thread[j]
    BY <2>1 DEF TypeOK
  <2>. QED
    BY <1>1, <1>2, <1>3, <2>1, <2>2, <2>3, <2>4, <2>5, LogFrame
<1>5. CASE CallFails(i)
  <2>1. /\ thread[i] = "calling" /\ UNCHANGED attempt
        /\ thread' = [thread EXCEPT ![i] = "returned"]
        /\ outcome' = [outcome EXCEPT ![i] = "failed"]
        /\ slotAttempts' = [slotAttempts EXCEPT
              ![i] = WithFinal(slotAttempts[i], ChunkEntry(i, attempt[i], FALSE))]
    BY <1>5 DEF CallFails, UnitReturns
  <2>2. outcome[i] # "failed" /\ attempt[i] >= 1 /\ i \notin received
    BY <1>3, <2>1 DEF SlotInv
  <2>3. ChunkLog(i) = UnitLog(1, i, attempt[i], FALSE)
    BY <2>1, <2>2 DEF ChunkLog, UnitLog
  <2>4. ChunkLog(i)' = UnitLog(1, i, attempt[i], TRUE)
    BY <2>1 DEF ChunkLog, UnitLog, TypeOK
  <2>5. slotAttempts'[i] = WithFinal(slotAttempts[i], Entry(1, i, attempt[i], FALSE))
    BY <2>1 DEF TypeOK, ChunkEntry
  <2>6. IsInjective(slotAttempts'[i]) /\ Range(slotAttempts'[i]) = ChunkLog(i)'
    BY <1>3, <2>2, <2>3, <2>4, <2>5, LogGrows, ZenonT(60)
  <2>7. /\ \A j \in Chunks \ {i} :
             /\ slotAttempts'[j] = slotAttempts[j] /\ thread'[j] = thread[j]
             /\ outcome'[j] = outcome[j]
        /\ thread'[i] = "returned"
    BY <2>1 DEF TypeOK
  <2>. QED
    BY <1>1, <1>2, <1>3, <2>1, <2>2, <2>6, <2>7, LogFrame
<1>6. CASE CallRetries(i)
  <2>1. /\ thread[i] = "calling" /\ UNCHANGED <<attempt, outcome>>
        /\ thread' = [thread EXCEPT ![i] = "sleeping"]
        /\ slotAttempts' = [slotAttempts EXCEPT
              ![i] = Append(slotAttempts[i], ChunkEntry(i, attempt[i], TRUE))]
    BY <1>6 DEF CallRetries
  <2>2. outcome[i] # "failed" /\ attempt[i] >= 1 /\ i \notin received
    BY <1>3, <2>1 DEF SlotInv
  <2>3. ChunkLog(i) = UnitLog(1, i, attempt[i], FALSE)
    BY <2>1, <2>2 DEF ChunkLog, UnitLog
  <2>4. ChunkLog(i)' = UnitLog(1, i, attempt[i] + 1, FALSE)
    BY <2>1, <2>2 DEF ChunkLog, UnitLog, TypeOK
  <2>5. slotAttempts'[i] = Append(slotAttempts[i], Entry(1, i, attempt[i], TRUE))
    BY <2>1 DEF TypeOK, ChunkEntry
  <2>6. IsInjective(slotAttempts'[i]) /\ Range(slotAttempts'[i]) = ChunkLog(i)'
    <3> DEFINE more == Append(slotAttempts[i], Entry(1, i, attempt[i], TRUE))
    <3>1. IsInjective(more) /\ Range(more) = UnitLog(1, i, attempt[i] + 1, FALSE)
      BY <1>3, <2>2, <2>3, LogGrows, ZenonT(60)
    <3>. QED
      BY <2>4, <2>5, <3>1, Zenon
  <2>7. /\ \A j \in Chunks \ {i} :
             slotAttempts'[j] = slotAttempts[j] /\ thread'[j] = thread[j]
        /\ thread'[i] = "sleeping"
    BY <2>1 DEF TypeOK
  <2>. QED
    BY <1>1, <1>2, <1>3, <2>1, <2>2, <2>6, <2>7, LogFrame
<1>7. CASE Wakes(i)
  <2>1. /\ thread[i] = "sleeping" /\ UNCHANGED <<slotAttempts, outcome>>
        /\ thread' = [thread EXCEPT ![i] = "calling"]
        /\ attempt' = [attempt EXCEPT ![i] = attempt[i] + 1]
    BY <1>7 DEF Wakes
  <2>2. i \notin received
    BY <2>1 DEF SlotInv
  <2>3. /\ \A j \in Chunks \ {i} : attempt'[j] = attempt[j] /\ thread'[j] = thread[j]
        /\ attempt'[i] = attempt[i] + 1 /\ thread'[i] = "calling"
    BY <2>1 DEF TypeOK
  <2>4. ChunkLog(i)' = ChunkLog(i)
    BY <2>1, <2>3 DEF ChunkLog
  <2>. QED
    BY <1>1, <1>2, <1>3, <2>1, <2>2, <2>3, <2>4, LogFrame
<1>. QED
  BY <1>4, <1>5, <1>6, <1>7 DEF CallEnds, Moves

\* Taking a completion: the unit's log joins the orchestrator's.
LEMMA TakenLog ==
  ASSUME TypeOK, LogInv, NEW i \in Chunks, i \notin received
  PROVE  /\ IsInjective(retryAttempts \o slotAttempts[i])
         /\ Range(retryAttempts \o slotAttempts[i]) =
              BeginLog \union UNION { ChunkLog(j) : j \in received \union {i} }
<1>1. /\ retryAttempts \in Seq(LogEntries) /\ slotAttempts[i] \in Seq(LogEntries)
      /\ IsInjective(retryAttempts) /\ IsInjective(slotAttempts[i])
      /\ Range(slotAttempts[i]) = ChunkLog(i) /\ received \subseteq Chunks
      /\ Range(retryAttempts) = BeginLog \union UNION { ChunkLog(j) : j \in received }
  BY DEF TypeOK, LogInv
<1>2. ASSUME NEW e \in Range(retryAttempts), e \in ChunkLog(i) PROVE FALSE
  <2>1. e.rank = 1 /\ e.chunk = i
    BY <1>2, ChunkLogIs
  <2>2. CASE e \in BeginLog
    BY <2>1, <2>2, BeginLogIs
  <2>3. CASE e \notin BeginLog
    <3>1. PICK j \in received : e \in ChunkLog(j)
      BY <1>1, <1>2, <2>3
    <3>2. e.chunk = j
      BY <1>1, <3>1, ChunkLogIs
    <3>. QED
      BY <2>1, <3>1, <3>2
  <2>. QED
    BY <2>2, <2>3
<1>3. Range(retryAttempts) \intersect Range(slotAttempts[i]) = {}
  BY <1>1, <1>2
<1>4. IsInjective(retryAttempts \o slotAttempts[i])
  BY <1>1, <1>3, InjectiveConcat
<1>5. Range(retryAttempts \o slotAttempts[i]) = Range(retryAttempts) \union ChunkLog(i)
  BY <1>1, RangeConcatenation
<1>6. UNION { ChunkLog(j) : j \in received \union {i} } =
        (UNION { ChunkLog(j) : j \in received }) \union ChunkLog(i)
  OBVIOUS
<1>. QED
  BY <1>1, <1>4, <1>5, <1>6

\* The dispatcher's steps keep the orchestrator's log exact.
LEMMA LogInvStep ==
  ASSUME IInv, LogInv, [Next]_vars
  PROVE  LogInv'
<1> USE WritePhaseAssumption
<1>. TypeOK /\ SlotInv /\ CountInv /\ FailureInv /\ SessionInv
  BY DEF IInv
<1>1. CASE Begin
  <2>1. /\ received = {} /\ Dispatched = {}
        /\ pc \in {"begin", "beginSleep"} /\ result.kind = "pending"
    <3>1. dispatched = 0 /\ result.kind = "pending" /\ pc \in {"begin", "beginSleep"}
      BY <1>1 DEF Begin, BeginSucceeds, BeginRetries, BeginWakes, BeginFails, SessionInv
    <3>. QED
      BY <3>1, ReceivedDispatched DEF Dispatched
  <2>2. Range(retryAttempts) = BeginLog
    BY <2>1 DEF LogInv
  <2>3. /\ UNCHANGED <<thread, attempt, slotAttempts, outcome, received, dispatched>>
        /\ beginAttempt \in Nat /\ beginAttempt >= 1
        /\ retryAttempts \in Seq(LogEntries) /\ IsInjective(retryAttempts)
    BY <1>1 DEF Begin, BeginSucceeds, BeginRetries, BeginWakes, BeginFails,
                dispatcherVars, unitVars, TypeOK, LogInv
  <2>4. ASSUME beginAttempt' >= 1, IsInjective(retryAttempts'),
               Range(retryAttempts') = BeginLog'
        PROVE  LogInv'
    <3>1. \A i \in Chunks : ChunkLog(i)' = ChunkLog(i)
      BY <2>3 DEF ChunkLog
    <3>2. received' = {} /\ Dispatched' = {}
      BY <2>1, <2>3 DEF Dispatched
    <3>. QED
      BY <2>3, <2>4, <3>1, <3>2 DEF LogInv
  <2>5. pc = "begin" => BeginLog = UnitLog(0, 0, beginAttempt, FALSE)
    BY <2>1 DEF BeginLog, UnitLog
  <2>6. CASE BeginSucceeds \/ BeginWakes
    <3>1. BeginLog' = BeginLog /\ beginAttempt' >= 1 /\ retryAttempts' = retryAttempts
      BY <2>3, <2>6 DEF BeginSucceeds, BeginWakes, BeginLog
    <3>. QED
      BY <2>2, <2>3, <2>4, <3>1
  <2>7. CASE BeginRetries
    <3>1. /\ pc = "begin" /\ pc' = "beginSleep" /\ UNCHANGED <<beginAttempt, result>>
          /\ retryAttempts' = Append(retryAttempts, Entry(0, 0, beginAttempt, TRUE))
      BY <2>7 DEF BeginRetries, BeginEntry
    <3>2. BeginLog' = UnitLog(0, 0, beginAttempt + 1, FALSE)
      BY <2>1, <3>1 DEF BeginLog, UnitLog
    <3> DEFINE more == Append(retryAttempts, Entry(0, 0, beginAttempt, TRUE))
    <3>3. IsInjective(more) /\ Range(more) = UnitLog(0, 0, beginAttempt + 1, FALSE)
      BY <2>2, <2>3, <2>5, <3>1, LogGrows
    <3>. QED
      BY <2>3, <2>4, <3>1, <3>2, <3>3, Zenon
  <2>8. CASE BeginFails
    <3>1. /\ pc = "begin" /\ pc' = "done" /\ UNCHANGED beginAttempt
          /\ result'.kind = "before_session"
          /\ retryAttempts' = WithFinal(retryAttempts, Entry(0, 0, beginAttempt, FALSE))
      BY <2>8 DEF BeginFails, BeginEntry, BeforeSession
    <3>2. BeginLog' = UnitLog(0, 0, beginAttempt, TRUE)
      BY <3>1 DEF BeginLog, UnitLog
    <3> DEFINE final == WithFinal(retryAttempts, Entry(0, 0, beginAttempt, FALSE))
    <3>3. IsInjective(final) /\ Range(final) = UnitLog(0, 0, beginAttempt, TRUE)
      BY <2>2, <2>3, <2>5, <3>1, LogGrows
    <3>. QED
      BY <2>3, <2>4, <3>1, <3>2, <3>3, Zenon
  <2>. QED
    BY <1>1, <2>6, <2>7, <2>8 DEF Begin
<1>2. CASE PullChunk
  <2>1. PICK d \in Chunks : d = dispatched
    BY <1>2 DEF PullChunk, TypeOK, Chunks
  <2>2. /\ thread' = [thread EXCEPT ![d] = "calling"]
        /\ attempt' = [attempt EXCEPT ![d] = 1]
        /\ pc = "stream"
        /\ UNCHANGED <<pc, beginAttempt, retryAttempts, received, slotAttempts,
                       outcome, result>>
    BY <1>2, <2>1 DEF PullChunk, SlotFree
  <2>3. thread[d] = "idle" /\ d \notin received
    BY <2>1 DEF SlotInv, Chunks
  <2>4. attempt[d] = 0
    BY <2>3 DEF LogInv
  <2>5. /\ \A j \in Chunks \ {d} :
             /\ thread'[j] = thread[j] /\ attempt'[j] = attempt[j]
             /\ slotAttempts'[j] = slotAttempts[j] /\ outcome'[j] = outcome[j]
        /\ thread'[d] = "calling" /\ attempt'[d] = 1
    BY <2>2 DEF TypeOK
  <2>6. ChunkLog(d) = {} /\ ChunkLog(d)' = {}
    <3>1. (outcome[d] = "failed") \in BOOLEAN
      BY Zenon
    <3>2. /\ UnitLog(1, d, 0, outcome[d] = "failed") = {}
          /\ UnitLog(1, d, 1, outcome[d] = "failed") = {}
      BY <3>1, UnitLogEmpty
    <3>3. /\ ChunkLog(d) = UnitLog(1, d, 0, outcome[d] = "failed")
          /\ ChunkLog(d)' = UnitLog(1, d, 1, outcome[d] = "failed")
      BY <2>2, <2>3, <2>4, <2>5, Zenon DEF ChunkLog
    <3>. QED
      BY <3>2, <3>3, Zenon
  <2>7. UNCHANGED BeginLog
    BY <2>2 DEF BeginLog
  <2>8. /\ IsInjective(slotAttempts'[d])
        /\ Range(slotAttempts'[d]) = ChunkLog(d)'
    BY <2>2, <2>6 DEF LogInv
  <2>9. pc' # "done" /\ received \subseteq Chunks
    BY <2>2 DEF TypeOK
  <2>. QED
    BY <2>2, <2>3, <2>5, <2>7, <2>8, <2>9, LogFrame
<1>3. CASE PullEnd \/ PullFails \/ End \/ UNCHANGED vars
  <2>1. UNCHANGED <<thread, attempt, slotAttempts, outcome, received, dispatched,
                    beginAttempt, retryAttempts>>
    BY <1>3 DEF PullEnd, PullFails, End, CommitSucceeds, CommitFails, Abandons,
       Unwinds, EndSession, vars, dispatcherVars, unitVars
  <2>2. BeginLog' = BeginLog
    <3>1. CASE PullEnd \/ PullFails \/ UNCHANGED vars
      BY <3>1 DEF PullEnd, PullFails, vars, BeginLog
    <3>2. CASE End
      <4>1. /\ pc = "stream" /\ pc' = "done"
            /\ result'.kind \in {"success", "in_session", "panic"}
        <5>1. CASE CommitSucceeds
          BY <5>1 DEF CommitSucceeds, EndSession, LoopLeft, Success
        <5>2. CASE CommitFails
          BY <5>2 DEF CommitFails, EndSession, LoopLeft, InSession
        <5>3. CASE Abandons
          BY <5>3 DEF Abandons, EndSession, LoopLeft, InSession
        <5>4. CASE Unwinds
          BY <5>4 DEF Unwinds, EndSession, LoopLeft, Unwound
        <5>. QED
          BY <3>2, <5>1, <5>2, <5>3, <5>4 DEF End
      <4>2. result.kind = "pending"
        BY <4>1 DEF SessionInv
      <4>. QED
        BY <2>1, <4>1, <4>2 DEF BeginLog, UnitLog
    <3>. QED
      BY <1>3, <3>1, <3>2
  <2>3. \A i \in Chunks : ChunkLog(i)' = ChunkLog(i)
    BY <2>1 DEF ChunkLog
  <2>4. pc' = "done" => received = Dispatched
    <3>1. CASE PullEnd \/ PullFails
      BY <3>1 DEF PullEnd, PullFails, SlotFree
    <3>2. CASE UNCHANGED vars
      BY <3>2 DEF vars, LogInv
    <3>3. CASE End
      <4>1. LoopLeft
        BY <3>3 DEF End, CommitSucceeds, CommitFails, Abandons, Unwinds, EndSession
      <4>. QED
        BY <4>1, AllAnswered DEF LoopLeft
    <3>. QED
      BY <1>3, <3>1, <3>2, <3>3
  <2>5. Dispatched' = Dispatched /\ received \subseteq Chunks
    BY <2>1 DEF Dispatched, TypeOK
  <2>6. UNION { ChunkLog(j)' : j \in received' } = UNION { ChunkLog(j) : j \in received }
    BY <2>1, <2>3, <2>5
  <2>. QED
    BY <2>1, <2>2, <2>3, <2>4, <2>5, <2>6 DEF LogInv
<1>4. ASSUME NEW i \in Chunks, CallEnds(i) \/ Moves(i) PROVE LogInv'
  BY <1>4, SlotLogStep
<1>5. ASSUME NEW i \in Chunks, Receive(i) \/ SerialStep(i) PROVE LogInv'
  <2>1. /\ received' = received \union {i}
        /\ retryAttempts' = retryAttempts \o slotAttempts[i]
        /\ UNCHANGED <<beginAttempt, attempt, slotAttempts, outcome, dispatched>>
        /\ pc = "stream" /\ i \notin received
    BY <1>5 DEF Receive, SerialStep, SerialContinues, SerialFails, SerialUnwinds,
       SerialReturn, unitVars, SlotInv
  <2>2. \/ thread' = thread
        \/ thread[i] = "returned" /\ thread' = [thread EXCEPT ![i] = "exited"]
    BY <1>5 DEF Receive, SerialStep, SerialContinues, SerialFails, SerialUnwinds,
       SerialReturn, unitVars
  <2>3. /\ \A j \in Chunks : thread'[j] = "idle" <=> thread[j] = "idle"
        /\ \A j \in Chunks : thread'[j] = "sleeping" <=> thread[j] = "sleeping"
    BY <2>2 DEF TypeOK
  <2>4. \A j \in Chunks : ChunkLog(j)' = ChunkLog(j)
    BY <2>1, <2>3 DEF ChunkLog
  <2>5. BeginLog' = BeginLog
    <3>1. pc' # "beginSleep" /\ (result'.kind # "before_session")
      <4>1. result.kind = "pending"
        BY <2>1 DEF SessionInv
      <4>. QED
        BY <1>5, <2>1, <4>1 DEF Receive, SerialStep, SerialContinues, SerialFails,
           SerialUnwinds, InSession, Unwound
    <3>2. pc # "beginSleep" /\ result.kind # "before_session"
      BY <2>1 DEF SessionInv
    <3>. QED
      BY <2>1, <3>1, <3>2 DEF BeginLog, UnitLog
  <2>6. /\ IsInjective(retryAttempts')
        /\ Range(retryAttempts') =
             BeginLog \union UNION { ChunkLog(j) : j \in received' }
    BY <2>1, TakenLog
  <2>7. UNION { ChunkLog(j)' : j \in received' } = UNION { ChunkLog(j) : j \in received' }
    <3>1. received' \subseteq Chunks
      BY <2>1 DEF TypeOK
    <3>. QED
      BY <2>4, <3>1
  <2>8. pc' = "done" => received' = Dispatched'
    <3>1. CASE Receive(i)
      BY <2>1, <3>1 DEF Receive
    <3>2. CASE SerialStep(i)
      <4>1. SerialReturn(i)
        BY <3>2 DEF SerialStep, SerialContinues, SerialFails, SerialUnwinds
      <4>2. received = Dispatched \ {i} /\ i \in Dispatched
        BY <4>1, SerialJoins
      <4>3. Dispatched' = Dispatched
        BY <2>1 DEF Dispatched
      <4>. QED
        BY <2>1, <4>2, <4>3
    <3>. QED
      BY <1>5, <3>1, <3>2
  <2>9. \A j \in Chunks :
          /\ thread'[j] = "idle" <=> attempt'[j] = 0
          /\ IsInjective(slotAttempts'[j]) /\ Range(slotAttempts'[j]) = ChunkLog(j)'
    BY <2>1, <2>3, <2>4 DEF LogInv
  <2>10. beginAttempt' >= 1
    BY <2>1 DEF LogInv
  <2>. QED
    BY <2>5, <2>6, <2>7, <2>8, <2>9, <2>10 DEF LogInv
<1>. QED
  BY <1>1, <1>2, <1>3, <1>4, <1>5, StepKinds

LEMMA InitLogInv == Init => LogInv
<1> SUFFICES ASSUME Init PROVE LogInv
  OBVIOUS
<1>1. IsInjective(<<>>) /\ Range(<<>>) = {}
  BY DEF IsInjective, Range
<1>2. \A i \in Chunks : ChunkLog(i) = {}
  BY DEF Init, ChunkLog, UnitLog
<1>3. BeginLog = {}
  BY DEF Init, BeginLog, UnitLog, Pending
<1>4. \A i \in Chunks :
        /\ thread[i] = "idle" <=> attempt[i] = 0
        /\ IsInjective(slotAttempts[i]) /\ Range(slotAttempts[i]) = ChunkLog(i)
  BY <1>1, <1>2 DEF Init
<1>5. /\ IsInjective(retryAttempts) /\ Range(retryAttempts) = {}
      /\ beginAttempt >= 1 /\ pc # "done"
  BY <1>1 DEF Init
<1>6. UNION { ChunkLog(i) : i \in received } = {}
  BY DEF Init
<1>. QED
  BY <1>3, <1>4, <1>5, <1>6 DEF LogInv

\* The reported retry log is the serial one: every failed attempt of every
\* retried unit once, in unit_order, whatever order the completions took.
THEOREM WritePhaseRetryLog == Spec => []RetryLogIsSerial
<1>1. IInv /\ LogInv => RetryLogIsSerial
  <2> SUFFICES ASSUME IInv, LogInv, result.kind \notin {"pending", "panic"}
               PROVE
                 LET log == ReportedAttempts
                     beginLog == UnitLog(0, 0, beginAttempt,
                                         result.kind = "before_session")
                     chunkLog(i) == UnitLog(1, i, attempt[i], outcome[i] = "failed")
                 IN  /\ { log[k] : k \in 1 .. Len(log) } =
                          beginLog \union UNION { chunkLog(i) : i \in Dispatched }
                     /\ \A k \in 1 .. Len(log) - 1 : EntryBefore(log[k], log[k + 1])
    BY DEF RetryLogIsSerial
  <2>. TypeOK /\ SessionInv
    BY DEF IInv
  <2>1. pc = "done" /\ Joined /\ received = Dispatched
    BY DEF SessionInv, LogInv
  <2> DEFINE all == BeginLog \union UNION { ChunkLog(i) : i \in Dispatched }
             log == retryAttempts
  <2>2. /\ log \in Seq(LogEntries) /\ IsInjective(log) /\ Range(log) = all
        /\ Dispatched \subseteq Chunks
    BY <2>1 DEF LogInv, TypeOK
  <2>3. ASSUME NEW e \in all, NEW f \in all, e # f
        PROVE  EntryBefore(e, f) \/ EntryBefore(f, e)
    <3>1. \A x \in all : \/ x \in BeginLog
                         \/ \E i \in Chunks : x \in ChunkLog(i)
      BY <2>2
    <3>2. e \in LogEntries /\ f \in LogEntries
      BY <3>1, BeginLogIs, ChunkLogIs
    <3>3. e.rank = f.rank /\ e.chunk = f.chunk => e.attempt # f.attempt
      <4>1. CASE e \in BeginLog /\ f \in BeginLog
        BY <2>3, <4>1, BeginLogIs
      <4>2. CASE e \in BeginLog /\ f \notin BeginLog
        <5>1. PICK i \in Chunks : f \in ChunkLog(i)
          BY <3>1, <4>2
        <5>2. e.rank = 0 /\ f.rank = 1
          BY <4>2, <5>1, BeginLogIs, ChunkLogIs
        <5>. QED
          BY <5>2
      <4>3. CASE e \notin BeginLog /\ f \in BeginLog
        <5>1. PICK i \in Chunks : e \in ChunkLog(i)
          BY <3>1, <4>3
        <5>2. e.rank = 1 /\ f.rank = 0
          BY <4>3, <5>1, BeginLogIs, ChunkLogIs
        <5>. QED
          BY <5>2
      <4>4. CASE e \notin BeginLog /\ f \notin BeginLog
        <5>1. PICK i \in Chunks : e \in ChunkLog(i)
          BY <3>1, <4>4
        <5>2. PICK j \in Chunks : f \in ChunkLog(j)
          BY <3>1, <4>4
        <5>3. e.chunk = i /\ f.chunk = j
          BY <5>1, <5>2, ChunkLogIs
        <5>4. i = j => f \in ChunkLog(i)
          BY <5>2
        <5>5. f \in ChunkLog(i) => e.attempt # f.attempt
          BY <2>3, <5>1, ChunkLogIs
        <5>. QED
          BY <5>3, <5>4, <5>5
      <4>. QED
        BY <4>1, <4>2, <4>3, <4>4
    <3>4. /\ e.rank \in Int /\ e.chunk \in Int /\ e.attempt \in Int
          /\ f.rank \in Int /\ f.chunk \in Int /\ f.attempt \in Int
      BY <3>2 DEF LogEntries
    <3>. QED
      BY <3>3, <3>4 DEF EntryBefore
  <2>4. \A m, n \in DOMAIN log :
          m # n => EntryBefore(log[m], log[n]) \/ EntryBefore(log[n], log[m])
    <3>1. \A m \in DOMAIN log : log[m] \in all
      BY <2>2 DEF Range
    <3>2. \A m, n \in DOMAIN log : m # n => log[m] # log[n]
      BY <2>2 DEF IsInjective
    <3> HIDE DEF all, log
    <3>. QED
      BY <2>3, <3>1, <3>2
  <2> HIDE DEF log
  <2>5. /\ SortedLog(log) \in Seq(LogEntries)
        /\ Len(SortedLog(log)) = Len(log)
        /\ Range(SortedLog(log)) = all
        /\ \A k \in 1 .. Len(log) - 1 :
             EntryBefore(SortedLog(log)[k], SortedLog(log)[k + 1])
    <3> HIDE DEF all
    <3>. QED
      BY <2>2, <2>4, SortedLogResult
  <2>6. ReportedAttempts = SortedLog(log)
    BY DEF ReportedAttempts, log
  <2>7. { ReportedAttempts[k] : k \in 1 .. Len(ReportedAttempts) } = all
    <3> HIDE DEF all
    <3>. QED
      BY <2>5, <2>6 DEF Range
  <2>8. BeginLog = UnitLog(0, 0, beginAttempt, result.kind = "before_session")
    BY <2>1 DEF BeginLog
  <2>9. \A i \in Dispatched :
          ChunkLog(i) = UnitLog(1, i, attempt[i], outcome[i] = "failed")
    <3>1. \A i \in Dispatched : thread[i] # "sleeping"
      BY <2>1, <2>2 DEF Joined
    <3>. QED
      BY <3>1, Zenon DEF ChunkLog
  <2>10. UNION { ChunkLog(i) : i \in Dispatched } =
           UNION { UnitLog(1, i, attempt[i], outcome[i] = "failed") : i \in Dispatched }
    <3>1. { ChunkLog(i) : i \in Dispatched } =
            { UnitLog(1, i, attempt[i], outcome[i] = "failed") : i \in Dispatched }
      BY <2>9, ZenonT(60)
    <3>. QED
      BY <3>1, Zenon
  <2>. QED
    BY <2>5, <2>6, <2>7, <2>8, <2>10, Zenon
<1>2. IInv /\ LogInv /\ [Next]_vars => LogInv'
  BY LogInvStep
<1>. QED
  BY <1>1, <1>2, InitLogInv, WritePhaseInvariant, PTL DEF Spec

\* After a failure nothing more is pulled, and a returned result is final.
THEOREM WritePhaseNoStepBack == Spec => NoStepBack
<1>1. ASSUME IInv, [Next]_vars, halted
      PROVE  dispatched' = dispatched /\ halted'
  <2>1. CASE Begin \/ PullEnd \/ PullFails \/ End \/ UNCHANGED vars
    <3>1. UNCHANGED dispatched
      BY <2>1, QuietSteps
    <3>2. halted' = halted
      BY <1>1, <2>1 DEF Begin, BeginSucceeds, BeginRetries, BeginWakes, BeginFails,
         PullEnd, PullFails, SlotFree, End, CommitSucceeds, CommitFails, Abandons,
         Unwinds, EndSession, vars, dispatcherVars
    <3>. QED
      BY <1>1, <3>1, <3>2
  <2>2. CASE PullChunk
    BY <1>1, <2>2 DEF PullChunk, SlotFree
  <2>3. ASSUME NEW i \in Chunks,
               CallEnds(i) \/ Moves(i) \/ Receive(i) \/ SerialStep(i)
        PROVE  dispatched' = dispatched /\ halted'
    <3>1. CASE CallEnds(i)
      BY <1>1, <3>1, CallEndEffect DEF IInv, dispatcherVars
    <3>2. CASE Moves(i)
      BY <1>1, <3>2, MoveEffect DEF dispatcherVars
    <3>3. CASE Receive(i)
      BY <1>1, <3>3 DEF Receive
    <3>4. CASE SerialStep(i)
      BY <1>1, <3>4 DEF SerialStep, SerialContinues, SerialFails, SerialUnwinds,
                        SerialReturn
    <3>. QED
      BY <2>3, <3>1, <3>2, <3>3, <3>4
  <2>. QED
    BY <1>1, <2>1, <2>2, <2>3, StepKinds
<1>2. ASSUME IInv, [Next]_vars, result.kind # "pending"
      PROVE  UNCHANGED <<result, applied, session>>
  <2>1. pc = "done"
    BY <1>2 DEF IInv, SessionInv
  <2>. QED
    BY <1>2, <2>1, DoneChangesNothing DEF vars, destinationVars
<1>3. IInv /\ [Next]_vars =>
        [/\ halted => dispatched' = dispatched /\ halted'
         /\ result.kind # "pending" => UNCHANGED <<result, applied, session>>]_vars
  BY <1>1, <1>2
<1>. QED
  BY <1>3, WritePhaseInvariant, PTL DEF NoStepBack, Spec

\* Every initial state of the write phase is one of the delivery contract.
LEMMA ContractInit == Init => Contract!Init
  BY DEF Init, Contract!Init, Contract!Chunks, Chunks, PhaseBar, Pending

\* While the phase runs on, the contract's phase is open.
LEMMA OpenWhilePending ==
  ASSUME IInv, [Next]_vars, pc' # "done"
  PROVE  PhaseBar = "open" /\ PhaseBar' = "open"
<1>1. IInv'
  BY NextIInv
<1>2. pc # "done"
  BY DoneChangesNothing DEF vars
<1>3. result.kind = "pending" /\ result'.kind = "pending"
  BY <1>1, <1>2 DEF IInv, SessionInv
<1>. QED
  BY <1>3 DEF PhaseBar

\* A write phase that ends without success gives the contract up.
LEMMA EndsInFailure ==
  ASSUME IInv, [Next]_vars, pc # "done", UNCHANGED <<dispatched, applied>>,
         result'.kind \notin {"pending", "success"}
  PROVE  Contract!GiveUp
<1>1. result.kind = "pending"
  BY DEF IInv, SessionInv
<1>. QED
  BY <1>1 DEF Contract!GiveUp, PhaseBar

\* Every step of the write phase is a step of the contract or leaves it alone.
LEMMA ContractStep ==
  ASSUME IInv, [Next]_vars
  PROVE  [Contract!Next]_Contract!vars
<1> USE WritePhaseAssumption
<1>. TypeOK /\ SlotInv /\ CountInv /\ FailureInv /\ SessionInv
  BY DEF IInv
<1>1. CASE Begin \/ PullEnd \/ PullFails
  <2>1. UNCHANGED <<dispatched, applied>> /\ pc # "done"
    BY <1>1, QuietSteps DEF Begin, BeginSucceeds, BeginRetries, BeginWakes,
       BeginFails, PullEnd, PullFails, SlotFree
  <2>2. CASE pc' # "done"
    BY <2>1, <2>2, OpenWhilePending DEF Contract!vars
  <2>3. CASE pc' = "done"
    <3>1. BeginFails
      BY <1>1, <2>3 DEF Begin, BeginSucceeds, BeginRetries, BeginWakes, PullEnd,
         PullFails, SlotFree
    <3>2. result'.kind = "before_session"
      BY <3>1 DEF BeginFails, BeforeSession
    <3>. QED
      BY <2>1, <3>2, EndsInFailure DEF Contract!Next
  <2>. QED
    BY <2>2, <2>3
<1>2. CASE PullChunk
  <2>1. /\ pc = "stream" /\ pc' = "stream"
        /\ dispatched < MaxChunks /\ dispatched' = dispatched + 1
        /\ applied' = applied
    BY <1>2 DEF PullChunk, SlotFree, destinationVars
  <2>2. Contract!Take
    BY <2>1, OpenWhilePending DEF Contract!Take
  <2>. QED
    BY <2>2 DEF Contract!Next
<1>3. CASE End
  <2>1. LoopLeft /\ UNCHANGED <<dispatched, applied>>
    BY <1>3, QuietSteps DEF End, CommitSucceeds, CommitFails, Abandons, Unwinds, EndSession
  <2>2. pc # "done"
    BY <2>1 DEF LoopLeft
  <2>3. CASE CommitSucceeds
    <3>1. /\ result' = Success(dispatched) /\ ~halted /\ ~writerPanic
          /\ writeFailures = {}
      BY <2>3 DEF CommitSucceeds, EndSession, FailureInv, NothingFailed
    <3>2. \A j \in Dispatched : outcome[j] = "ok"
      BY <2>1, <3>1, LoopLeftIsAnswered
    <3>3. \A j \in Dispatched : applied[j] = 1
      BY <3>2 DEF SlotInv, Dispatched, Chunks, TypeOK
    <3>4. dispatched > 0
      BY <2>1, <3>1 DEF LoopLeft, SessionInv
    <3>5. PhaseBar = "open" /\ PhaseBar' = "kept"
      BY <2>2, <3>1 DEF SessionInv, PhaseBar, Success
    <3>6. Contract!Keep
      BY <2>1, <3>3, <3>4, <3>5 DEF Contract!Keep, Dispatched
    <3>. QED
      BY <3>6 DEF Contract!Next
  <2>4. ASSUME CommitFails \/ Abandons \/ Unwinds
        PROVE  result'.kind \in {"in_session", "panic"}
    <3>1. CASE CommitFails
      BY <3>1 DEF CommitFails, EndSession, InSession
    <3>2. CASE Abandons
      BY <3>2 DEF Abandons, EndSession, InSession
    <3>3. CASE Unwinds
      BY <3>3 DEF Unwinds, EndSession, Unwound
    <3>. QED
      BY <2>4, <3>1, <3>2, <3>3
  <2>5. CASE CommitFails \/ Abandons \/ Unwinds
    BY <2>1, <2>2, <2>4, <2>5, EndsInFailure DEF Contract!Next
  <2>. QED
    BY <1>3, <2>3, <2>5 DEF End
<1>4. CASE UNCHANGED vars
  BY <1>4 DEF vars, dispatcherVars, destinationVars, Contract!vars, PhaseBar
<1>5. ASSUME NEW i \in Chunks, CallEnds(i)
      PROVE  [Contract!Next]_Contract!vars
  <2>1. /\ thread[i] = "calling"
        /\ UNCHANGED <<pc, dispatched>>
    BY <1>5, CallEndEffect DEF dispatcherVars
  <2>2. PICK landed \in BOOLEAN :
          applied' = [applied EXCEPT ![i] = IF landed THEN @ + 1 ELSE @]
    BY <1>5, CallEndEffect
  <2>3. pc' # "done"
    BY <1>5, <2>1, DoneIsQuiet
  <2>4. applied[i] = 0 /\ i < dispatched
    BY <2>1 DEF SlotInv, TypeOK, Chunks
  <2>5. CASE landed
    <3>1. Contract!Deliver(i)
      BY <2>1, <2>2, <2>3, <2>4, <2>5, OpenWhilePending DEF Contract!Deliver, TypeOK
    <3>. QED
      BY <3>1 DEF Contract!Next, Contract!Chunks, Chunks
  <2>6. CASE ~landed
    <3>1. applied' = applied
      BY <2>2, <2>6 DEF TypeOK
    <3>. QED
      BY <2>1, <2>3, <3>1, OpenWhilePending DEF Contract!vars
  <2>. QED
    BY <2>5, <2>6
<1>6. ASSUME NEW i \in Chunks, Moves(i) \/ Receive(i)
      PROVE  [Contract!Next]_Contract!vars
  <2>1. UNCHANGED <<pc, dispatched, applied>>
    <3>1. CASE Moves(i)
      BY <3>1, MoveEffect DEF dispatcherVars, destinationVars
    <3>2. CASE Receive(i)
      BY <3>2 DEF Receive, destinationVars
    <3>. QED
      BY <1>6, <3>1, <3>2
  <2>2. pc' # "done"
    BY <1>6, <2>1, DoneIsQuiet
  <2>. QED
    BY <2>1, <2>2, OpenWhilePending DEF Contract!vars
<1>7. ASSUME NEW i \in Chunks, SerialStep(i)
      PROVE  [Contract!Next]_Contract!vars
  <2>1. pc = "stream" /\ UNCHANGED <<dispatched, applied>>
    BY <1>7 DEF SerialStep, SerialContinues, SerialFails, SerialUnwinds, SerialReturn
  <2>2. CASE SerialContinues(i)
    BY <2>1, <2>2, OpenWhilePending DEF SerialContinues, Contract!vars
  <2>3. CASE SerialFails(i) \/ SerialUnwinds(i)
    <3>1. result'.kind \in {"in_session", "panic"}
      BY <2>3 DEF SerialFails, SerialUnwinds, InSession, Unwound
    <3>. QED
      BY <2>1, <3>1, EndsInFailure DEF Contract!Next
  <2>. QED
    BY <1>7, <2>2, <2>3 DEF SerialStep
<1>. QED
  BY <1>1, <1>2, <1>3, <1>4, <1>5, <1>6, <1>7, StepKinds

\* The dispatcher, its slots, retries, reordering and panics implement the
\* delivery contract, for every stream length, window and retry budget.
THEOREM WritePhaseImplementsContract == Spec => ImplementsContract
<1>1. Init => Contract!Init
  BY ContractInit
<1>2. IInv /\ [Next]_vars => [Contract!Next]_Contract!vars
  BY ContractStep
<1>. QED
  BY <1>1, <1>2, WritePhaseInvariant, PTL DEF Spec, ImplementsContract, Contract!Spec

=============================================================================
