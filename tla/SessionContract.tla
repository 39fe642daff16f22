-------------------------- MODULE SessionContract --------------------------
(***************************************************************************)
(* What a destination's write sessions promise to the load and to whoever  *)
(* reads the destination (the DestinationWriter port): a session that      *)
(* replaces or updates shows nothing of what it was handed until it lands, *)
(* all of it in one step; one that adds shows each chunk as it lands; and  *)
(* success is reported only by a session that has landed.  What a report   *)
(* has said stays true: nothing moves until the next session opens.        *)
(***************************************************************************)
EXTENDS Naturals

CONSTANT Records

Kinds == {"replacing", "updating", "adding"}

VARIABLES
  kind,      \* how the session writes: full refresh, merge or append
  handed,    \* the records it was handed and accepted
  content,   \* the records whose values a reader sees
  end        \* "open", "landed", then "kept" or "ended" until the next opens

vars == <<kind, handed, content, end>>

Init ==
  /\ kind \in Kinds
  /\ handed = {}
  /\ content \in SUBSET Records
  /\ end \in {"open", "ended"}

\* A session that cannot be opened ends at once.
Open ==
  /\ end \in {"kept", "ended"}
  /\ kind' \in Kinds
  /\ handed' = {}
  /\ end' \in {"open", "ended"}
  /\ UNCHANGED content

\* write_chunk takes a chunk.
Hand ==
  /\ end = "open"
  /\ handed \subseteq handed' /\ handed' \in SUBSET Records
  /\ content' = IF kind = "adding" THEN content \union handed' ELSE content
  /\ UNCHANGED <<kind, end>>

\* commit takes effect, whatever then becomes of its answer.
Landed ==
  CASE kind = "replacing" -> content' = handed
    [] kind = "updating"  -> /\ handed \subseteq content'
                             /\ content' \subseteq content \union handed
    [] kind = "adding"    -> handed \subseteq content /\ content' = content

Land ==
  /\ end = "open"
  /\ Landed
  /\ end' \in {"landed", "kept", "ended"}
  /\ UNCHANGED <<kind, handed>>

Keep ==
  /\ end = "landed"
  /\ end' = "kept"
  /\ UNCHANGED <<kind, handed, content>>

\* A failure, an abandoned session or a process that died: of one that adds,
\* the chunk that was on its way may be there.
GiveUp ==
  /\ end \in {"open", "landed"}
  /\ end' = "ended"
  /\ \/ UNCHANGED content
     \/ /\ kind = "adding" /\ end = "open"
        /\ content \subseteq content' /\ content' \in SUBSET Records
  /\ UNCHANGED <<kind, handed>>

Next == Open \/ Hand \/ Land \/ Keep \/ GiveUp

Spec == Init /\ [][Next]_vars
=============================================================================
