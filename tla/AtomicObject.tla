--------------------------- MODULE AtomicObject ----------------------------
(***************************************************************************)
(* What a multi-request writer promises its caller: the buffers it         *)
(* acknowledged form a log; the object appears at most once, as a whole,   *)
(* with exactly that log, and the log grows no more from then on; close    *)
(* succeeds only when the object is there.                                 *)
(***************************************************************************)
EXTENDS Sequences

CONSTANTS Data, Absent

VARIABLES log,     \* acknowledged buffers
          object,  \* what a reader of the path sees
          phase    \* "open", "closed" or "aborted"

objVars == <<log, object, phase>>

ObjInit == log = <<>> /\ object = Absent /\ phase = "open"

Acknowledge(b) ==
  /\ phase = "open" /\ object = Absent
  /\ log' = Append(log, b)
  /\ UNCHANGED <<object, phase>>

Publish ==
  /\ object = Absent
  /\ object' = log
  /\ UNCHANGED <<log, phase>>

Close ==
  /\ phase = "open"
  /\ object' = log
  /\ phase' = "closed"
  /\ UNCHANGED log

GiveUp ==
  /\ phase = "open"
  /\ phase' = "aborted"
  /\ UNCHANGED <<log, object>>

ObjNext == Publish \/ Close \/ GiveUp \/ \E b \in Data : Acknowledge(b)

ObjSpec == ObjInit /\ [][ObjNext]_objVars
=============================================================================
