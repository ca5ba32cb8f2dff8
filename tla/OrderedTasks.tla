--------------------------- MODULE OrderedTasks ----------------------------
(***************************************************************************)
(* What ConcurrentTasks promises its owner, whatever runs in parallel      *)
(* behind it: a first-in first-out pipe.  An accepted input is handed out  *)
(* once, in the order of acceptance, unless the owner clears the pipe or   *)
(* the pipe breaks on an error that is not temporary; a broken pipe        *)
(* accepts and hands out nothing more.                                     *)
(***************************************************************************)
EXTENDS Sequences

CONSTANT Inputs

VARIABLES queue,   \* accepted, not handed out
          out,     \* handed out
          broken

absVars == <<queue, out, broken>>

AbsInit == queue = <<>> /\ out = <<>> /\ broken = FALSE

Accept(i) ==
  /\ ~broken
  /\ queue' = Append(queue, i)
  /\ UNCHANGED <<out, broken>>

HandOut ==
  /\ ~broken
  /\ queue # <<>>
  /\ out' = Append(out, Head(queue))
  /\ queue' = Tail(queue)
  /\ UNCHANGED broken

Discard == queue' = <<>> /\ UNCHANGED <<out, broken>>

Break == queue' = <<>> /\ broken' = TRUE /\ UNCHANGED out

AbsNext == HandOut \/ Discard \/ Break \/ \E i \in Inputs : Accept(i)

AbsSpec == AbsInit /\ [][AbsNext]_absVars
=============================================================================
