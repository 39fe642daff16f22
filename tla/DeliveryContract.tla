-------------------------- MODULE DeliveryContract --------------------------
(***************************************************************************)
(* What the write phase promises the load that calls it: chunks are taken  *)
(* from the source in order, the destination takes each at most once and   *)
(* only while the phase runs, the phase is over exactly once, and it is    *)
(* over with success only when every chunk taken was delivered.            *)
(***************************************************************************)
EXTENDS Naturals

CONSTANT MaxChunks

Chunks == 0 .. MaxChunks - 1

VARIABLES
  phase,      \* "open", then for ever "kept" or "failed"
  taken,      \* chunks pulled from the source
  delivered   \* chunk -> how often the destination took it

vars == <<phase, taken, delivered>>

Init ==
  /\ phase = "open"
  /\ taken = 0
  /\ delivered = [i \in Chunks |-> 0]

Take ==
  /\ phase = "open"
  /\ taken < MaxChunks
  /\ taken' = taken + 1
  /\ UNCHANGED <<phase, delivered>>

Deliver(i) ==
  /\ phase = "open"
  /\ i < taken
  /\ delivered[i] = 0
  /\ delivered' = [delivered EXCEPT ![i] = 1]
  /\ UNCHANGED <<phase, taken>>

Keep ==
  /\ phase = "open"
  /\ taken > 0
  /\ \A i \in 0 .. taken - 1 : delivered[i] = 1
  /\ phase' = "kept"
  /\ UNCHANGED <<taken, delivered>>

GiveUp ==
  /\ phase = "open"
  /\ phase' = "failed"
  /\ UNCHANGED <<taken, delivered>>

Next == Take \/ (\E i \in Chunks : Deliver(i)) \/ Keep \/ GiveUp

Spec == Init /\ [][Next]_vars
=============================================================================
