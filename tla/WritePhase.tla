----------------------------- MODULE WritePhase -----------------------------
(***************************************************************************)
(* The write phase of a load: dispatch.rs with the retry engine of         *)
(* retry.rs inside every unit.  One dispatcher pulls the source's chunks   *)
(* in order and writes them through one destination write session, up to   *)
(* Parallelism chunks at a time, each chunk on a slot thread that retries  *)
(* on its own; the dispatcher then commits or abandons the session.        *)
(*                                                                         *)
(* The source and the destination are the two ports of connector.rs; they  *)
(* appear through their contracts only.  A write_chunk that fails          *)
(* transient has committed nothing (the Transience contract); one that     *)
(* fails terminal, or panics, may have landed or not.                      *)
(***************************************************************************)
EXTENDS Integers, Sequences, FiniteSets, Functions

CONSTANTS
  MaxChunks,        \* bound: the longest chunk stream the source yields
  Parallelism,      \* the effective parallelism, at least 1
  MaxAttempts,      \* RetryPolicy.max_attempts, at least 1
  CommitsPerChunk   \* TRUE: append, each chunk commits on its own;
                    \* FALSE: full refresh and merge, one terminal commit

ASSUME WritePhaseAssumption ==
  /\ MaxChunks \in Nat \ {0}
  /\ Parallelism \in Nat \ {0}
  /\ MaxAttempts \in Nat \ {0}
  /\ CommitsPerChunk \in BOOLEAN

Chunks == 0 .. MaxChunks - 1

VARIABLES
  pc,             \* the dispatcher: where it is in run_write_phase
  beginAttempt,   \* run_unit's attempt counter for the Begin unit
  dispatched,     \* chunks handed to a write slot so far
  inFlight,       \* completions the dispatcher still waits for
  sourceDone,     \* the chunk iterator returned None
  halted,         \* a unit failed terminally or a pull failed
  sourceFailed,   \* source_failure is Some
  writeFailures,  \* the chunk indexes in write_failures
  writerPanic,    \* writer_panic is Some
  retryAttempts,  \* the attempt log the orchestrator holds
  thread,         \* chunk -> what its slot thread is doing
  attempt,        \* chunk -> run_unit's attempt counter
  slotAttempts,   \* chunk -> the slot's own attempt log
  outcome,        \* chunk -> how its unit ended
  received,       \* chunks whose completion the dispatcher took
  session,        \* the destination write session
  applied,        \* chunk -> how often the destination took its rows
  committed,      \* chunks the destination itself counts as committed
  published,      \* the rows taken so far are visible in the dataset
  result          \* what run_write_phase returned

dispatcherVars == <<dispatched, inFlight, sourceDone, halted, sourceFailed,
                    writeFailures, writerPanic, received>>
unitVars == <<thread, attempt, slotAttempts, outcome>>
destinationVars == <<session, applied, committed, published>>
vars == <<pc, beginAttempt, dispatcherVars, retryAttempts, unitVars,
          destinationVars, result>>

-----------------------------------------------------------------------------
(* Attempt log entries: the unit's rank and chunk index in unit_order, the *)
(* attempt, and whether a wait and a retry followed it.                    *)

Entry(rank, chunk, n, retried) ==
  [rank |-> rank, chunk |-> chunk, attempt |-> n, retried |-> retried]

BeginEntry(n, retried) == Entry(0, 0, n, retried)
ChunkEntry(i, n, retried) == Entry(1, i, n, retried)

\* Definitions named Bug... are not part of the model: each is a plausible
\* mistake in the code it stands before, and the runs are shown to catch it.

\* run_unit's retry condition, for a failure its originator called transient.
MayRetry(n) == n < MaxAttempts

\* The final failure of a unit joins the log only if the unit was retried.
WithFinal(log, entry) == IF entry.attempt > 1 THEN Append(log, entry) ELSE log

EntryBefore(e, f) ==
  \/ e.rank < f.rank
  \/ e.rank = f.rank /\ e.chunk < f.chunk
  \/ e.rank = f.rank /\ e.chunk = f.chunk /\ e.attempt < f.attempt

(* What run_write_phase returns: Ok, BeforeSession, InSession, or an       *)
(* unwinding panic.  cause and chunk name the surfaced failure.            *)

Pending == [kind |-> "pending", cause |-> "none", chunk |-> 0, committed |-> 0]
BeforeSession ==
  [kind |-> "before_session", cause |-> "begin", chunk |-> 0, committed |-> 0]
InSession(cause, chunk, count) ==
  [kind |-> "in_session", cause |-> cause, chunk |-> chunk, committed |-> count]
Success(count) ==
  [kind |-> "success", cause |-> "none", chunk |-> count, committed |-> count]
Unwound == [kind |-> "panic", cause |-> "write", chunk |-> 0, committed |-> 0]

BugHighest(S) == CHOOSE i \in S : \A j \in S : j <= i

Lowest(S) == CHOOSE i \in S : \A j \in S : i <= j

\* thread::scope returns only after every slot thread ended.
Joined == \A i \in Chunks : thread[i] \in {"idle", "exited"}

BugLeaveUndrained == pc = "stream" /\ (halted \/ sourceDone)

\* The windowed path's post-scope code, and the end of the serial loop.
LoopLeft ==
  /\ pc = "stream"
  /\ inFlight = 0
  /\ halted \/ sourceDone
  /\ Joined

-----------------------------------------------------------------------------
Init ==
  /\ pc = "begin"
  /\ beginAttempt = 1
  /\ dispatched = 0
  /\ inFlight = 0
  /\ sourceDone = FALSE
  /\ halted = FALSE
  /\ sourceFailed = FALSE
  /\ writeFailures = {}
  /\ writerPanic = FALSE
  /\ retryAttempts = <<>>
  /\ thread = [i \in Chunks |-> "idle"]
  /\ attempt = [i \in Chunks |-> 0]
  /\ slotAttempts = [i \in Chunks |-> <<>>]
  /\ outcome = [i \in Chunks |-> "none"]
  /\ received = {}
  /\ session = "none"
  /\ applied = [i \in Chunks |-> 0]
  /\ committed = 0
  /\ published = CommitsPerChunk
  /\ result = Pending

(***************************************************************************)
(* The Begin unit                                                          *)
(***************************************************************************)
BeginSucceeds ==
  /\ pc = "begin"
  /\ pc' = "stream"
  /\ session' = "open"
  /\ UNCHANGED <<beginAttempt, dispatcherVars, retryAttempts, unitVars,
                 applied, committed, published, result>>

BeginRetries ==
  /\ pc = "begin"
  /\ MayRetry(beginAttempt)
  /\ retryAttempts' = Append(retryAttempts, BeginEntry(beginAttempt, TRUE))
  /\ pc' = "beginSleep"
  /\ UNCHANGED <<beginAttempt, dispatcherVars, unitVars, destinationVars,
                 result>>

BeginWakes ==
  /\ pc = "beginSleep"
  /\ pc' = "begin"
  /\ beginAttempt' = beginAttempt + 1
  /\ UNCHANGED <<dispatcherVars, retryAttempts, unitVars, destinationVars,
                 result>>

BeginFails ==
  /\ pc = "begin"
  /\ retryAttempts' = WithFinal(retryAttempts, BeginEntry(beginAttempt, FALSE))
  /\ result' = BeforeSession
  /\ pc' = "done"
  /\ UNCHANGED <<beginAttempt, dispatcherVars, unitVars, destinationVars>>

(***************************************************************************)
(* The dispatcher pulls the source while a slot is free                    *)
(***************************************************************************)
BugPullAfterFailure ==
  pc = "stream" /\ ~sourceDone /\ inFlight < Parallelism

SlotFree == pc = "stream" /\ ~halted /\ ~sourceDone /\ inFlight < Parallelism

PullChunk ==
  /\ SlotFree
  /\ dispatched < MaxChunks
  /\ dispatched' = dispatched + 1
  /\ inFlight' = inFlight + 1
  /\ thread' = [thread EXCEPT ![dispatched] = "calling"]
  /\ attempt' = [attempt EXCEPT ![dispatched] = 1]
  /\ UNCHANGED <<pc, beginAttempt, sourceDone, halted, sourceFailed,
                 writeFailures, writerPanic, received, retryAttempts,
                 slotAttempts, outcome, destinationVars, result>>

\* A stream holds at least one chunk: an empty survivor run yields one.
PullEnd ==
  /\ SlotFree
  /\ dispatched > 0
  /\ sourceDone' = TRUE
  /\ UNCHANGED <<pc, beginAttempt, dispatched, inFlight, halted, sourceFailed,
                 writeFailures, writerPanic, received, retryAttempts,
                 unitVars, destinationVars, result>>

PullFails ==
  /\ SlotFree
  /\ sourceFailed' = TRUE
  /\ halted' = TRUE
  /\ UNCHANGED <<pc, beginAttempt, dispatched, inFlight, sourceDone,
                 writeFailures, writerPanic, received, retryAttempts,
                 unitVars, destinationVars, result>>

(***************************************************************************)
(* One WriteChunk unit, run by its slot thread (serial: inline)            *)
(***************************************************************************)
UnitReturns(i, how, landed) ==
  /\ thread' = [thread EXCEPT ![i] = "returned"]
  /\ outcome' = [outcome EXCEPT ![i] = how]
  /\ applied' = [applied EXCEPT ![i] = IF landed THEN @ + 1 ELSE @]
  /\ UNCHANGED <<pc, beginAttempt, dispatcherVars, retryAttempts, attempt,
                 session, published, result>>

CallSucceeds(i) ==
  /\ thread[i] = "calling"
  /\ UnitReturns(i, "ok", TRUE)
  /\ committed' = IF CommitsPerChunk THEN committed + 1 ELSE committed
  /\ UNCHANGED slotAttempts

\* A retry that starts the unit afresh, its counter and its log with it.
BugRestartUnit(i) ==
  /\ thread[i] = "calling"
  /\ slotAttempts' = [slotAttempts EXCEPT ![i] = <<>>]
  /\ attempt' = [attempt EXCEPT ![i] = 0]
  /\ thread' = [thread EXCEPT ![i] = "sleeping"]
  /\ UNCHANGED <<pc, beginAttempt, dispatcherVars, retryAttempts, outcome,
                 destinationVars, result>>

CallRetries(i) ==
  /\ thread[i] = "calling"
  /\ MayRetry(attempt[i])
  /\ slotAttempts' = [slotAttempts EXCEPT
                        ![i] = Append(@, ChunkEntry(i, attempt[i], TRUE))]
  /\ thread' = [thread EXCEPT ![i] = "sleeping"]
  /\ UNCHANGED <<pc, beginAttempt, dispatcherVars, retryAttempts, attempt,
                 outcome, destinationVars, result>>

Wakes(i) ==
  /\ thread[i] = "sleeping"
  /\ thread' = [thread EXCEPT ![i] = "calling"]
  /\ attempt' = [attempt EXCEPT ![i] = @ + 1]
  /\ UNCHANGED <<pc, beginAttempt, dispatcherVars, retryAttempts,
                 slotAttempts, outcome, destinationVars, result>>

BugFailureCounted(i) ==
  /\ thread[i] = "calling"
  /\ UnitReturns(i, "failed", TRUE)
  /\ slotAttempts' = [slotAttempts EXCEPT
                        ![i] = WithFinal(@, ChunkEntry(i, attempt[i], FALSE))]
  /\ committed' = committed + 1

CallFails(i) ==
  /\ thread[i] = "calling"
  /\ \E landed \in BOOLEAN : UnitReturns(i, "failed", landed)
  /\ slotAttempts' = [slotAttempts EXCEPT
                        ![i] = WithFinal(@, ChunkEntry(i, attempt[i], FALSE))]
  /\ UNCHANGED committed

CallPanics(i) ==
  /\ thread[i] = "calling"
  /\ \E landed \in BOOLEAN : UnitReturns(i, "panicked", landed)
  /\ UNCHANGED <<slotAttempts, committed>>

(***************************************************************************)
(* Completions above parallelism 1: sent once per dispatched unit, taken   *)
(* in whatever order the slots sent them.  The thread ends after its send. *)
(***************************************************************************)
SendCompletion(i) ==
  /\ Parallelism > 1
  /\ thread[i] = "returned"
  /\ thread' = [thread EXCEPT ![i] = "sent"]
  /\ UNCHANGED <<pc, beginAttempt, dispatcherVars, retryAttempts, attempt,
                 slotAttempts, outcome, destinationVars, result>>

ThreadExits(i) ==
  /\ thread[i] = "sent"
  /\ thread' = [thread EXCEPT ![i] = "exited"]
  /\ UNCHANGED <<pc, beginAttempt, dispatcherVars, retryAttempts, attempt,
                 slotAttempts, outcome, destinationVars, result>>

Receive(i) ==
  /\ pc = "stream"
  /\ ~SlotFree
  /\ inFlight > 0
  /\ thread[i] \in {"sent", "exited"} /\ i \notin received
  /\ received' = received \union {i}
  /\ inFlight' = inFlight - 1
  /\ retryAttempts' = retryAttempts \o slotAttempts[i]
  /\ halted' = (halted \/ outcome[i] # "ok")
  /\ writeFailures' = IF outcome[i] = "failed"
                      THEN writeFailures \union {i} ELSE writeFailures
  /\ writerPanic' = (writerPanic \/ outcome[i] = "panicked")
  /\ UNCHANGED <<pc, beginAttempt, dispatched, sourceDone, sourceFailed,
                 unitVars, destinationVars, result>>

(***************************************************************************)
(* The serial loop takes its unit's result inline.  A failed write carries *)
(* its own committed count and drops the writer; a panic unwinds.          *)
(***************************************************************************)
SerialReturn(i) ==
  /\ Parallelism = 1
  /\ pc = "stream"
  /\ thread[i] = "returned"
  /\ thread' = [thread EXCEPT ![i] = "exited"]
  /\ received' = received \union {i}
  /\ inFlight' = inFlight - 1
  /\ retryAttempts' = retryAttempts \o slotAttempts[i]
  /\ UNCHANGED <<beginAttempt, dispatched, sourceDone, halted, sourceFailed,
                 writeFailures, writerPanic, attempt, slotAttempts, outcome,
                 applied, committed, published>>

BugContinueAfterFailure(i) ==
  /\ SerialReturn(i)
  /\ outcome[i] # "panicked"
  /\ UNCHANGED <<pc, session, result>>

SerialContinues(i) ==
  /\ SerialReturn(i)
  /\ outcome[i] = "ok"
  /\ UNCHANGED <<pc, session, result>>

SerialFails(i) ==
  /\ SerialReturn(i)
  /\ outcome[i] = "failed"
  /\ result' = InSession("write", i, committed)
  /\ session' = "dropped"
  /\ pc' = "done"

SerialUnwinds(i) ==
  /\ SerialReturn(i)
  /\ outcome[i] = "panicked"
  /\ result' = Unwound
  /\ session' = "dropped"
  /\ pc' = "done"

(***************************************************************************)
(* Ending the session                                                      *)
(***************************************************************************)
EndSession(how, visible, returned) ==
  /\ LoopLeft
  /\ session' = how
  /\ published' = visible
  /\ result' = returned
  /\ pc' = "done"
  /\ UNCHANGED <<beginAttempt, dispatcherVars, retryAttempts, unitVars,
                 applied, committed>>

BugSourceFailureForgotten == writeFailures = {} /\ ~writerPanic

NothingFailed == writeFailures = {} /\ ~sourceFailed /\ ~writerPanic

BugCommitRegardless ==
  EndSession("committed", TRUE, Success(dispatched))

CommitSucceeds ==
  /\ NothingFailed
  /\ EndSession("committed", TRUE, Success(dispatched))

\* The commit consumed the writer; a lost acknowledgement leaves it unknown
\* whether the rows became visible.
CommitFails ==
  /\ NothingFailed
  /\ \E visible \in {published, TRUE} :
       EndSession("commit_failed", visible, InSession("commit", 0, committed))

Abandons ==
  /\ ~writerPanic
  /\ ~NothingFailed
  /\ EndSession("abandoned", published,
                IF writeFailures # {}
                THEN InSession("write", Lowest(writeFailures), committed)
                ELSE InSession("source", dispatched, committed))

Unwinds ==
  /\ writerPanic
  /\ EndSession("dropped", published, Unwound)

-----------------------------------------------------------------------------
Begin == BeginSucceeds \/ BeginRetries \/ BeginWakes \/ BeginFails

Pull == PullChunk \/ PullEnd \/ PullFails

UnitStep(i) ==
  \/ CallSucceeds(i) \/ CallRetries(i) \/ Wakes(i) \/ CallFails(i)
  \/ CallPanics(i) \/ SendCompletion(i) \/ ThreadExits(i)

SerialStep(i) == SerialContinues(i) \/ SerialFails(i) \/ SerialUnwinds(i)

End == CommitSucceeds \/ CommitFails \/ Abandons \/ Unwinds

DispatcherStep ==
  Begin \/ Pull \/ End \/ \E i \in Chunks : Receive(i) \/ SerialStep(i)

\* The load is over: the only state in which nothing happens any more.
Finished == pc = "done" /\ UNCHANGED vars

Next == DispatcherStep \/ (\E i \in Chunks : UnitStep(i)) \/ Finished

Spec == Init /\ [][Next]_vars

\* Destination calls and sleeps return, and the operating system schedules
\* every thread; nothing is assumed about their order or relative speed.
Fairness ==
  /\ WF_vars(DispatcherStep)
  /\ \A i \in Chunks : WF_vars(UnitStep(i))

FairSpec == Spec /\ Fairness
-----------------------------------------------------------------------------
BugArrivalOrder == retryAttempts

(* Where a stable sort by unit_order puts the entry at n.                  *)
Place(log, n) ==
  Cardinality({ m \in DOMAIN log :
                  \/ EntryBefore(log[m], log[n])
                  \/ m <= n /\ ~EntryBefore(log[n], log[m]) })

SortedLog(log) ==
  [k \in DOMAIN log |-> log[CHOOSE n \in DOMAIN log : Place(log, n) = k]]

(* report_value sorts the log before it is reported.                       *)
ReportedAttempts == SortedLog(retryAttempts)

\* The log of one unit that was tried n times: every failed attempt, and
\* nothing at all of a unit that was never retried.
UnitLog(rank, chunk, n, failed) ==
  { Entry(rank, chunk, a, TRUE) : a \in 1 .. n - 1 } \union
  IF failed /\ n > 1 THEN { Entry(rank, chunk, n, FALSE) } ELSE {}

Landed == { i \in Chunks : applied[i] > 0 }
Acknowledged == { i \in Chunks : outcome[i] = "ok" }
Dispatched == 0 .. dispatched - 1

\* Slots that may still reach the destination.
Writing == { i \in Chunks : thread[i] \in {"calling", "sleeping"} }

ThreadStates == {"idle", "calling", "sleeping", "returned", "sent", "exited"}
Outcomes == {"none", "ok", "failed", "panicked"}
Sessions ==
  {"none", "open", "committed", "commit_failed", "abandoned", "dropped"}
Results ==
  [kind : {"pending", "before_session", "in_session", "success", "panic"},
   cause : {"none", "begin", "write", "source", "commit"},
   chunk : 0 .. MaxChunks, committed : Nat]
LogEntries ==
  [rank : {0, 1}, chunk : Nat, attempt : Nat, retried : BOOLEAN]

\* Every variable of the dispatcher, its slots and the session keeps its type.
TypeOK ==
  /\ pc \in {"begin", "beginSleep", "stream", "done"}
  /\ beginAttempt \in Nat
  /\ dispatched \in 0 .. MaxChunks
  /\ inFlight \in Int
  /\ sourceDone \in BOOLEAN /\ halted \in BOOLEAN /\ sourceFailed \in BOOLEAN
  /\ writeFailures \subseteq Chunks
  /\ writerPanic \in BOOLEAN
  /\ retryAttempts \in Seq(LogEntries)
  /\ thread \in [Chunks -> ThreadStates]
  /\ attempt \in [Chunks -> Nat]
  /\ slotAttempts \in [Chunks -> Seq(LogEntries)]
  /\ outcome \in [Chunks -> Outcomes]
  /\ received \subseteq Chunks
  /\ session \in Sessions
  /\ applied \in [Chunks -> Nat]
  /\ committed \in Nat
  /\ published \in BOOLEAN
  /\ result \in Results

\* No unit is tried more often than the policy allows, and a unit waits only
\* for an attempt it still has (run_unit).
AttemptBudget ==
  /\ beginAttempt <= MaxAttempts
  /\ pc = "beginSleep" => beginAttempt < MaxAttempts
  /\ \A i \in Chunks :
       /\ attempt[i] <= MaxAttempts
       /\ thread[i] = "sleeping" => attempt[i] < MaxAttempts

\* At most Parallelism units are unanswered at once, whatever order their
\* completions come back in: the window of run_windowed_write_phase.
WindowBound ==
  Cardinality({ i \in Chunks :
                  thread[i] \in {"calling", "sleeping", "returned"} })
    <= Parallelism

\* No slot can reach the destination once the session has been committed,
\* abandoned or dropped: run_windowed_write_phase drains before it ends.
DrainedBeforeEnd == Writing # {} => session = "open"

\* Retries, reordering and panics never make the destination take a chunk's
\* rows twice.
AtMostOnce == \A i \in Chunks : applied[i] <= 1

\* A load that reports success took every chunk of the whole stream exactly
\* once, counts exactly those chunks, and made them visible.
SuccessIsWhole ==
  result.kind = "success" =>
    /\ sourceDone
    /\ result.chunk = dispatched
    /\ \A i \in Dispatched : applied[i] = 1
    /\ published

\* The failure surfaced is the first one in stream order: every chunk below
\* it was written, whatever the wall-clock order of the completions
\* (ADR-0051's lowest-chunk-index rule).
FirstFailureSurfaces ==
  result.kind = "in_session" =>
    /\ result.cause = "write" => outcome[result.chunk] = "failed"
    /\ result.cause = "source" => Dispatched \subseteq Acknowledged
    /\ result.cause \in {"write", "source"} =>
         \A j \in 0 .. result.chunk - 1 : outcome[j] = "ok"

\* The committed count of a failed load is what the destination holds: in
\* append mode every acknowledged chunk, whichever slot wrote it and however
\* late, and any further landed chunk is one whose write failed.  Otherwise
\* nothing is visible, unless the commit itself failed.
CommittedCountHonest ==
  result.kind = "in_session" =>
    IF CommitsPerChunk
    THEN /\ result.committed = Cardinality(Acknowledged)
         /\ Acknowledged \subseteq Landed
         /\ \A i \in Landed \ Acknowledged : outcome[i] = "failed"
    ELSE /\ result.committed = 0
         /\ published => result.cause = "commit"

\* The reported retry log holds every failed attempt of every retried unit
\* once and nothing else, in the order a serial load would log it, whatever
\* the completion order of the slots (ADR-0050, ADR-0053).
RetryLogIsSerial ==
  LET log == ReportedAttempts
      beginLog == UnitLog(0, 0, beginAttempt, result.kind = "before_session")
      chunkLog(i) == UnitLog(1, i, attempt[i], outcome[i] = "failed")
  IN  result.kind \notin {"pending", "panic"} =>
        /\ { log[k] : k \in 1 .. Len(log) } =
             beginLog \union UNION { chunkLog(i) : i \in Dispatched }
        /\ \A k \in 1 .. Len(log) - 1 : EntryBefore(log[k], log[k + 1])

\* At parallelism 1 the destination holds a prefix of the stream at every
\* moment, at most one chunk longer than the committed count a failed append
\* reports (ADR-0047: "exactly that prefix").
SerialPrefix ==
  Parallelism = 1 =>
    /\ Landed = 0 .. Cardinality(Landed) - 1
    /\ result.kind = "in_session" /\ CommitsPerChunk =>
         Cardinality(Landed) - result.committed \in {0, 1}

\* Once the dispatcher knows of a failure it pulls nothing more, and what it
\* returned never changes again.
NoStepBack ==
  [][/\ halted => dispatched' = dispatched /\ halted'
     /\ result.kind # "pending" => UNCHANGED <<result, applied, session>>]_vars

\* The write phase returns: no slot waits for a free slot, no completion is
\* lost to a panic, and no retry goes on for ever.
Terminates == <>(pc = "done")

-----------------------------------------------------------------------------
(* The inductive invariant behind the theorems of WritePhaseProofs.        *)

\* Slots: which thread states go with which outcome and which effect.
SlotInv ==
  \A i \in Chunks :
    /\ thread[i] = "idle" <=> i >= dispatched
    /\ outcome[i] = "none" <=> thread[i] \in {"idle", "calling", "sleeping"}
    /\ outcome[i] = "none" => applied[i] = 0
    /\ outcome[i] = "ok" => applied[i] = 1
    /\ applied[i] <= 1
    /\ i \in received => thread[i] \in {"sent", "exited"}
    /\ Parallelism = 1 => thread[i] # "sent"
    /\ Parallelism = 1 /\ thread[i] = "exited" => i \in received

\* in_flight is the number of dispatched units not yet answered.
CountInv ==
  /\ inFlight = dispatched - Cardinality(received)
  /\ inFlight \in 0 .. Parallelism
  /\ committed = IF CommitsPerChunk THEN Cardinality(Acknowledged) ELSE 0

\* While the loop runs, every answered failure is held in write_failures or
\* writer_panic, and any failure halts; the serial path holds none.
FailureInv ==
  /\ \A i \in writeFailures : i \in received /\ outcome[i] = "failed"
  /\ halted <=> ~NothingFailed
  /\ Parallelism = 1 => writeFailures = {} /\ ~writerPanic
  /\ pc # "done" =>
       \A i \in received : \/ outcome[i] = "ok"
                           \/ outcome[i] = "failed" /\ i \in writeFailures
                           \/ outcome[i] = "panicked" /\ writerPanic

\* The session is open exactly while the loop runs, and the loop is left
\* only when no thread is left.
SessionInv ==
  /\ pc \in {"begin", "beginSleep"} => session = "none" /\ dispatched = 0
  /\ session = "open" <=> pc = "stream"
  /\ pc # "done" <=> result.kind = "pending"
  /\ pc = "done" => Joined
  /\ ~CommitsPerChunk /\ pc # "done" => ~published
  /\ CommitsPerChunk => published
  /\ sourceDone => dispatched > 0

\* The serial loop pulls a chunk only after it took an acknowledgement of
\* every one before.
SerialInv ==
  Parallelism = 1 => \A i \in Chunks : i < dispatched - 1 => outcome[i] = "ok"

\* What unit i has failed at so far; a sleeping unit will be tried again.
ChunkLog(i) ==
  UnitLog(1, i, IF thread[i] = "sleeping" THEN attempt[i] + 1 ELSE attempt[i],
          outcome[i] = "failed")

BeginLog ==
  UnitLog(0, 0, IF pc = "beginSleep" THEN beginAttempt + 1 ELSE beginAttempt,
          result.kind = "before_session")

\* Every slot's log holds its unit's failed attempts once each, and the
\* orchestrator's those of the Begin unit and of the answered units; when the
\* phase is done, every unit was answered.
LogInv ==
  /\ beginAttempt >= 1
  /\ \A i \in Chunks :
       /\ thread[i] = "idle" <=> attempt[i] = 0
       /\ IsInjective(slotAttempts[i]) /\ Range(slotAttempts[i]) = ChunkLog(i)
  /\ IsInjective(retryAttempts)
  /\ Range(retryAttempts) = BeginLog \union UNION { ChunkLog(i) : i \in received }
  /\ pc = "done" => received = Dispatched

IInv ==
  /\ TypeOK /\ SlotInv /\ CountInv /\ FailureInv /\ SessionInv
  /\ SuccessIsWhole /\ FirstFailureSurfaces /\ CommittedCountHonest

-----------------------------------------------------------------------------
(* The refinement mapping onto DeliveryContract.                           *)
PhaseBar ==
  IF result.kind = "pending" THEN "open"
  ELSE IF result.kind = "success" THEN "kept" ELSE "failed"

Contract == INSTANCE DeliveryContract
              WITH phase <- PhaseBar, taken <- dispatched, delivered <- applied

\* The dispatcher, its slots and retries implement the delivery contract.
ImplementsContract == Contract!Spec

=============================================================================
