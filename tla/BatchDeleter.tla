--------------------------- MODULE BatchDeleter ----------------------------
(***************************************************************************)
(* BatchDeleter of core/src/raw/oio/delete/batch_delete.rs, called through *)
(* the Deleter of core/src/types/delete/deleter.rs.                        *)
(*                                                                         *)
(* delete(path) puts the path into a set and flushes the set once it holds *)
(* max_batch_size paths; close flushes until the set is empty.  A flush    *)
(* sends one request (delete_once for a single path, delete_batch for      *)
(* more) and awaits it; the caller may drop the call there.  A path stands *)
(* for a (path, OpDelete) pair.                                            *)
(*                                                                         *)
(* The service is external.  It may refuse a request, answer for a part of *)
(* the batch only, or delete some paths although the request fails (the    *)
(* answer is lost, or the caller stopped waiting).                         *)
(*                                                                         *)
(* The names every module has carry the prefix BD, so that a module can    *)
(* extend this one beside another component.                               *)
(***************************************************************************)
EXTENDS Naturals, FiniteSets

CONSTANTS Paths,         \* the paths the caller may delete
          MaxBatchSize,  \* delete_max_size of the service
          MaxFailures    \* bound: failed or dropped flushes

ASSUME DeleterAssumption ==
  /\ IsFiniteSet(Paths)
  /\ MaxBatchSize \in Nat \ {0}
  /\ MaxFailures \in Nat

VARIABLES buffer,     \* HashSet<(String, OpDelete)>
          flushing,   \* "idle", or the flush of "delete" or "close" is awaited
          arg,        \* the path of the last delete call
          reply,      \* how the last call ended
          existing,   \* the service: paths that still exist
          requested,  \* history: paths given to delete
          failures    \* how much of the bound is used

bdVars == <<buffer, flushing, arg, reply, existing, requested, failures>>

Nobody == "nobody"

BDInit ==
  /\ buffer = {}
  /\ flushing = "idle" /\ arg = Nobody /\ reply = "none"
  /\ existing = Paths
  /\ requested = {}
  /\ failures = 0

Return(r) == flushing' = "idle" /\ reply' = r

Failed(r) ==
  /\ failures < MaxFailures
  /\ failures' = failures + 1
  /\ Return(r)

---------------------------------------------------------------------------
(* delete(path) and close() up to the flush.                               *)

DeleteCall(p) ==
  /\ flushing = "idle"
  /\ buffer' = buffer \cup {p}
  /\ arg' = p
  /\ requested' = requested \cup {p}
  /\ IF Cardinality(buffer') >= MaxBatchSize
     THEN flushing' = "delete" /\ reply' = "none"
     ELSE Return("deleteOk")
  /\ UNCHANGED <<existing, failures>>

\* Mutant: an empty buffer is flushed.
CloseCallAlways ==
  /\ flushing = "idle"
  /\ flushing' = "close" /\ reply' = "none"
  /\ UNCHANGED <<buffer, arg, existing, requested, failures>>

CloseCall ==
  /\ flushing = "idle"
  /\ IF buffer = {} THEN Return("closeOk") ELSE flushing' = "close" /\ reply' = "none"
  /\ UNCHANGED <<buffer, arg, existing, requested, failures>>

\* Mutant: close flushes once.
FlushedOnce == Return(IF flushing = "delete" THEN "deleteOk" ELSE "closeOk")

\* flush_buffer returned Ok: delete is done; close is done with an empty
\* buffer and flushes again otherwise.  (Its "made no progress" error needs an
\* Ok(0) with a buffer that is not empty, which flush_buffer never returns.)
Flushed ==
  IF flushing = "delete" THEN Return("deleteOk")
  ELSE IF buffer' = {} THEN Return("closeOk")
  ELSE UNCHANGED <<flushing, reply>>

ErrOf == [delete |-> "deleteErr", close |-> "closeErr"]

---------------------------------------------------------------------------
(* The awaited request.                                                    *)

\* delete_once succeeded.
OnceOk ==
  /\ flushing # "idle" /\ Cardinality(buffer) = 1
  /\ existing' = existing \ buffer
  /\ buffer' = {}
  /\ Flushed
  /\ UNCHANGED <<arg, requested, failures>>

\* Mutant: the whole batch leaves the buffer.
BatchForgetsFailed(ok, perm) ==
  /\ flushing # "idle" /\ Cardinality(buffer) > 1
  /\ ok # {}
  /\ existing' = existing \ ok
  /\ buffer' = {}
  /\ \/ perm = {} /\ Flushed /\ UNCHANGED failures
     \/ perm # {} /\ Failed(ErrOf[flushing])
  /\ UNCHANGED <<arg, requested>>

\* Mutant: what was deleted stays in the buffer.
BatchKeepsDeleted(ok, perm) ==
  /\ flushing # "idle" /\ Cardinality(buffer) > 1
  /\ ok # {}
  /\ existing' = existing \ ok
  /\ buffer' = buffer
  /\ \/ perm = {} /\ Flushed /\ UNCHANGED failures
     \/ perm # {} /\ Failed(ErrOf[flushing])
  /\ UNCHANGED <<arg, requested>>

\* delete_batch answered for every path: `ok` were deleted and leave the
\* buffer, the others stay; one that failed for good makes the flush fail.
BatchAnswered(ok, perm) ==
  /\ flushing # "idle" /\ Cardinality(buffer) > 1
  /\ ok # {}
  /\ existing' = existing \ ok
  /\ buffer' = buffer \ ok
  /\ \/ perm = {} /\ Flushed /\ UNCHANGED failures
     \/ perm # {} /\ Failed(ErrOf[flushing])
  /\ UNCHANGED <<arg, requested>>

\* Every other answer is an error and leaves the buffer alone: no success at
\* all, an answer of the wrong size, or a failed request.  Some paths may be
\* gone all the same.
RequestFailed ==
  /\ flushing # "idle"
  /\ \E some \in SUBSET buffer : existing' = existing \ some
  /\ Failed(ErrOf[flushing])
  /\ UNCHANGED <<buffer, arg, requested>>

\* The caller drops the call; the request may still be served.
DropCall ==
  /\ flushing # "idle"
  /\ \E some \in SUBSET buffer : existing' = existing \ some
  /\ Failed("dropped")
  /\ UNCHANGED <<buffer, arg, requested>>

BDNext ==
  \/ \E p \in Paths : DeleteCall(p)
  \/ CloseCall
  \/ OnceOk
  \/ \E ok \in SUBSET buffer : \E perm \in SUBSET (buffer \ ok) : BatchAnswered(ok, perm)
  \/ RequestFailed
  \/ DropCall

BDSpec == BDInit /\ [][BDNext]_bdVars

\* The caller polls the call it made and the service answers it.
Answer ==
  \/ OnceOk
  \/ \E ok \in SUBSET buffer : \E perm \in SUBSET (buffer \ ok) : BatchAnswered(ok, perm)

BDFairSpec == BDSpec /\ WF_bdVars(Answer)

---------------------------------------------------------------------------
(* Properties *)

\* The type of every variable; a flush is awaited only with paths to delete.
BDTypeOK ==
  /\ buffer \subseteq Paths
  /\ flushing \in {"idle", "delete", "close"}
  /\ flushing # "idle" => buffer # {}
  /\ arg \in Paths \cup {Nobody}
  /\ reply \in {"none", "deleteOk", "deleteErr", "closeOk", "closeErr", "dropped"}
  /\ existing \subseteq Paths
  /\ requested \subseteq Paths
  /\ failures \in 0..MaxFailures

\* A path given to delete is still in the buffer or gone from the service,
\* after any mix of partial answers, failures, dropped and repeated calls
\* (batch_delete.rs:81-129).
NothingForgotten == requested \cap existing \subseteq buffer

\* "ensure all queued deletions are executed" (oio/delete/api.rs:51): close
\* returns Ok only when no path given to delete exists any more.
ClosedIsDeleted == reply = "closeOk" => requested \cap existing = {}

\* With answers that come, a close that was called returns: every round that
\* does not fail deletes something.
CloseReturns == (flushing = "close") ~> (flushing = "idle")

\* "Err(err): An error occurred and the deletion request was not queued"
\* (oio/delete/api.rs:39).
ErrMeansNotQueued == reply = "deleteErr" => arg \notin buffer

\* "Maximum size supported for single delete operations" (capability.rs:152)
\* bounds the batch of every request.
BatchWithinLimit == flushing # "idle" => Cardinality(buffer) <= MaxBatchSize
=============================================================================
