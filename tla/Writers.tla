------------------------------ MODULE Writers ------------------------------
(***************************************************************************)
(* The writers of core/src/raw/oio/write that publish an object at its     *)
(* close: MultipartWriter, BlockWriter and PositionWriter on top of        *)
(* ConcurrentTasks, and OneShotWriter; behind the CompleteWriter of        *)
(* core/src/layers/complete.rs that every operator puts in front of them.  *)
(* Their steps are the same but for what `kind` says: a BlockWriter has no *)
(* upload to initiate and no part numbers, a PositionWriter has an open    *)
(* file all the time and writes its last buffer after the others.          *)
(*                                                                         *)
(* A caller has one call of write, close or abort under way (&mut self)    *)
(* and repeats a failed one as RetryLayer or a user does.  A call          *)
(* suspended at an `.await` may be dropped there.  A buffer given to write *)
(* is a number; an object is the sequence of the buffers it is made of.    *)
(*                                                                         *)
(* The storage service is external.  A request whose future failed, timed  *)
(* out or was dropped may still take effect later: it is put on the wire,  *)
(* from which the service may take it at any moment or never.              *)
(***************************************************************************)
EXTENDS TaskQueue

CONSTANTS Kinds,          \* the writers: "multipart", "block", "position", "oneshot"
          Concurrents,    \* values of options.concurrent of the writer
          Prefetch,       \* 8192 in the code
          Orderly,        \* the caller is orderly, see MayCall
          MaxWrites,      \* bound: buffers the caller writes
          MaxTemp,        \* bound: temporary errors and timeouts
          MaxDrops,       \* bound: suspended calls dropped by the caller
          NoObject        \* the object does not exist (a model value)

ASSUME WriterAssumption ==
  /\ Kinds \subseteq {"multipart", "block", "position", "oneshot"}
  /\ Concurrents \subseteq Nat
  /\ Prefetch \in Nat
  /\ Orderly \in BOOLEAN
  /\ MaxWrites \in Nat
  /\ MaxTemp \in Nat
  /\ MaxDrops \in Nat

VARIABLES
  kind, concurrent,  \* the writer, and the concurrency of its tasks
  q,         \* the other fields of tasks: ConcurrentTasks<WriteInput, MultipartPart>
  uploadId,  \* upload_id.is_some(), or `started` of BlockWriter; TRUE for
             \*   PositionWriter, FALSE for OneShotWriter
  parts,     \* the MultipartPart list or block_ids, each named by its PartId;
             \*   for PositionWriter, history: the positions written
  cache,     \* the buffer held back, NoData when None
  nextPart,  \* next_part_number or next_offset; for BlockWriter, history:
             \*   blocks accepted
  inner,     \* CompleteWriter.inner.is_some()
  size,      \* CompleteWriter.size
  state,     \* CompleteWriter.state
  pc,        \* where the caller's call is suspended
  arg,       \* the buffer of a write that is under way
  srv,       \* the service: the upload, its parts, the object, lost uploads
  wire,      \* requests nobody waits for any more
  acked,     \* history: buffers write returned Ok for
  last,      \* the largest buffer acknowledged
  ended,     \* history: "open", then "closed" or "aborted" once that returned Ok
  tried,     \* history: the kinds of calls that were made and did not succeed;
             \*   "size": a close found a size that does not match
  temps, drops

options == <<kind, concurrent>>
client == <<q, uploadId, parts, cache, nextPart>>
front  == <<inner, size, state>>
ghost  == <<acked, last, ended, tried>>
vars   == <<options, client, front, pc, arg, srv, wire, ghost, temps, drops>>

NoData == 0
Buffers == 1..MaxWrites

\* A block gets a new Uuid each time it is submitted.  Blocks of the same
\* buffer are not told apart, so the buffer stands for the Uuid.
PartId == IF kind = "block" THEN cache ELSE nextPart

\* What complete_part or complete_block is given; a PositionWriter closes its
\* file at the size it has written.
Listed == IF kind = "position" THEN [k \in 1..nextPart |-> k - 1] ELSE parts

PartInput(n, b) == [part |-> n, bytes |-> b]

Init ==
  /\ kind \in Kinds /\ concurrent \in Concurrents
  /\ q = NewQueue
  /\ uploadId = (kind = "position") /\ parts = <<>> /\ cache = NoData /\ nextPart = 0
  /\ inner = TRUE /\ size = 0 /\ state = "Open"
  /\ pc = "idle" /\ arg = NoData
  /\ srv = [upload |-> IF kind = "position" THEN "live" ELSE "none", stored |-> <<>>, object |-> NoObject, lost |-> 0]
  /\ wire = {}
  /\ acked = <<>> /\ last = 0 /\ ended = "open" /\ tried = {}
  /\ temps = 0 /\ drops = 0

---------------------------------------------------------------------------
(* The service (external).  Parts are kept by number; writing one again    *)
(* replaces it.  Completing lists the parts by number and publishes them,  *)
(* once; a completed or aborted upload accepts nothing more.  Blocks       *)
(* belong to no upload: they stay until they are listed, or expire.  The   *)
(* file of a PositionWriter is like an upload, renamed into place when it  *)
(* is closed; nobody checks that it has no holes.                          *)

Accepts(s) == kind = "block" \/ s.upload = "live"

\* Part n+1 of `stored` is part number n; NoData where none was uploaded.
StorePart(s, i) ==
  IF ~Accepts(s) THEN s
  ELSE LET grown == [k \in 1..(IF Len(s.stored) > i.part THEN Len(s.stored)
                                                         ELSE i.part + 1)
                       |-> IF k <= Len(s.stored) THEN s.stored[k] ELSE NoData]
       IN  [s EXCEPT !.stored = [grown EXCEPT ![i.part + 1] = i.bytes]]

Stored(s, n) == IF n < Len(s.stored) THEN s.stored[n + 1] ELSE NoData

CanComplete(s, list) ==
  /\ Accepts(s)
  /\ kind = "position" \/ \A k \in 1..Len(list) : Stored(s, list[k]) # NoData

Complete(s, list) ==
  IF CanComplete(s, list)
  THEN [s EXCEPT !.upload = IF kind = "block" THEN @ ELSE "completed",
                 !.object = [k \in 1..Len(list) |-> Stored(s, list[k])]]
  ELSE s

AbortUpload(s) ==
  IF s.upload = "live" THEN [s EXCEPT !.upload = "aborted"] ELSE s

\* write_once puts the whole object; an empty Buffer is the empty object.
PutOnce(s, body) ==
  [s EXCEPT !.object = IF body = NoData THEN <<>> ELSE <<body>>]

Initiate(s) == [s EXCEPT !.upload = "live"]

\* The effect of a request that arrives when nobody waits for its answer.
\* An upload whose id never reached the writer is lost.
Arrive(s, r) ==
  CASE r.op = "part"     -> StorePart(s, r.input)
    [] r.op = "complete" -> Complete(s, r.list)
    [] r.op = "abort"    -> AbortUpload(s)
    [] r.op = "once"     -> PutOnce(s, r.body)
    [] r.op = "initiate" -> [s EXCEPT !.lost = @ + 1]

\* The request the suspended call waits for, if it waits for one.
Request ==
  CASE pc = "initiate" -> [op |-> "initiate"]
    [] pc = "once"     -> [op |-> "once", body |-> cache]
    [] pc = "complete" -> [op |-> "complete", list |-> Listed]
    [] pc = "abort"    -> [op |-> "abort"]
    [] pc \in {"writeInline", "closeInline", "flush"} ->
         [op |-> "part", input |-> PartInput(PartId, cache)]

\* The requests of the tasks that run: on the wire once their handles are
\* dropped.
RunningRequests(qq) ==
  {[op |-> "part", input |-> qq.tasks[k].input] : k \in Running(qq)}

WireArrive ==
  /\ \E r \in wire : srv' = Arrive(srv, r) /\ wire' = wire \ {r}
  /\ UNCHANGED <<options, client, front, pc, arg, ghost, temps, drops>>

---------------------------------------------------------------------------
(* Returning from a call.  CompleteWriter keeps `inner` when a call fails  *)
(* and clears it when close or abort succeeds.                             *)

Kind ==
  CASE pc \in {"initiate", "write", "writeInline", "writeWait"} -> "write"
    [] pc \in {"once", "close", "closeInline", "closeWait", "drain", "flush", "complete"}
         -> "close"
    [] pc = "abort" -> "abort"

\* Error is the last state.
Transition(dest) == state' = IF state = "Error" THEN state ELSE dest

ReturnErr ==
  /\ pc' = "idle" /\ arg' = NoData
  /\ tried' = tried \cup {Kind}
  /\ Transition("Error")
  /\ UNCHANGED <<inner, size, acked, last, ended>>

\* close succeeded below, but the service reported another size.
ReturnMismatch ==
  /\ pc' = "idle" /\ arg' = NoData
  /\ tried' = tried \cup {"close", "size"}
  /\ Transition("Error")
  /\ UNCHANGED <<inner, size, acked, last, ended>>

\* A dropped call runs nothing more.
Dropped ==
  /\ pc' = "idle" /\ arg' = NoData
  /\ tried' = tried \cup {Kind}
  /\ UNCHANGED <<front, acked, last, ended>>

ReturnWritten(b) ==
  /\ pc' = "idle" /\ arg' = NoData
  /\ size' = size + 1
  /\ Transition("Written")
  /\ acked' = Append(acked, b) /\ last' = b
  /\ UNCHANGED <<inner, ended, tried>>

\* Mutant: the state is left as it was.
ReturnEndedSilently(how) ==
  /\ pc' = "idle"
  /\ inner' = FALSE
  /\ ended' = how
  /\ UNCHANGED <<size, state, arg, acked, last, tried>>

ReturnEnded(how) ==
  /\ pc' = "idle"
  /\ inner' = FALSE
  /\ Transition("Closed")
  /\ ended' = how
  /\ UNCHANGED <<size, arg, acked, last, tried>>

GoTo(p) == pc' = p /\ UNCHANGED <<front, arg, ghost>>

\* An orderly caller answers a failed close by closing again or aborting, a
\* failed abort by aborting again, and a size that does not match, a permanent
\* error which RetryLayer does not repeat either, only by aborting; a
\* disorderly one calls anything, which CompleteWriter lets through.
MayCall(call) ==
  Orderly => CASE call = "write" -> tried \cap {"close", "abort"} = {}
               [] call = "close" -> tried \cap {"abort", "size"} = {}

---------------------------------------------------------------------------
(* write(bs) *)

\* Mutant: a buffer that is held back already is replaced.
WriteFirstReplaces(b) ==
  /\ ~uploadId
  /\ cache' = b
  /\ ReturnWritten(b)
  /\ UNCHANGED <<q, uploadId, parts, nextPart>>

HoldsBack == cache = NoData /\ (~uploadId \/ kind = "position")

\* The first buffer is only held back.
WriteFirst(b) ==
  /\ HoldsBack
  /\ cache' = b
  /\ ReturnWritten(b)
  /\ UNCHANGED <<q, uploadId, parts, nextPart>>

WriteNext(b) ==
  /\ ~HoldsBack /\ kind # "oneshot"
  /\ uploadId' = (uploadId \/ kind = "block")
  /\ pc' = IF uploadId' THEN "write" ELSE "initiate"
  /\ arg' = b
  /\ UNCHANGED <<q, parts, cache, nextPart, front, ghost>>

\* "OneShotWriter doesn't support multiple write"
WriteRefused ==
  /\ ~HoldsBack /\ kind = "oneshot"
  /\ Transition("Error")
  /\ tried' = tried \cup {"write"}
  /\ UNCHANGED <<client, inner, size, pc, arg, acked, last, ended>>

WriteCall(b) ==
  /\ pc = "idle" /\ inner
  /\ b > last
  /\ MayCall("write")
  /\ WriteFirst(b) \/ WriteNext(b) \/ WriteRefused
  /\ UNCHANGED <<options, srv, wire, temps, drops>>

InitiateOk ==
  /\ pc = "initiate"
  /\ srv' = Initiate(srv)
  /\ uploadId' = TRUE
  /\ GoTo("write")
  /\ UNCHANGED <<options, q, parts, cache, nextPart, wire, temps, drops>>

---------------------------------------------------------------------------
(* tasks.execute(WriteInput { part_number, bytes }), from write and from   *)
(* close, and what follows its success.                                    *)

Wait(call)   == IF call = "write" THEN "writeWait" ELSE "closeWait"
Inline(call) == IF call = "write" THEN "writeInline" ELSE "closeInline"

Submitted ==
  /\ nextPart' = nextPart + 1
  /\ cache' = arg
  /\ IF Kind = "write" THEN ReturnWritten(arg) ELSE GoTo("drain")
  /\ UNCHANGED <<uploadId, parts>>

\* In write, a missing buffer is expect("pending write must exist").
Submit ==
  /\ pc \in {"write", "close"}
  /\ cache # NoData
  /\ \/ /\ q.errored
        /\ ReturnErr
        /\ UNCHANGED client
     \/ /\ ~q.errored /\ ~IsConcurrent(concurrent)
        /\ GoTo(Inline(pc))
        /\ UNCHANGED client
     \/ /\ ~q.errored /\ IsConcurrent(concurrent)
        /\ HasRemaining(q, concurrent, Prefetch)
        /\ q' = PushTask(q, PartInput(PartId, cache))
        /\ Submitted
     \/ /\ ~q.errored /\ IsConcurrent(concurrent)
        /\ ~HasRemaining(q, concurrent, Prefetch)
        /\ GoTo(Wait(pc))
        /\ UNCHANGED client
  /\ UNCHANGED <<options, srv, wire, temps, drops>>

\* Mutant: the part number is taken before the task is accepted.
FrontFailedSkipsNumber ==
  /\ q.tasks[1].st # "ok"
  /\ q' = FrontError(q)
  /\ wire' = IF q.tasks[1].st = "perm" THEN wire \cup RunningRequests(q) ELSE wire
  /\ nextPart' = nextPart + 1
  /\ ReturnErr
  /\ UNCHANGED <<uploadId, parts, cache>>

\* The front task failed: it is relaunched, or everything is cleared.
FrontFailed ==
  /\ q.tasks[1].st # "ok"
  /\ q' = FrontError(q)
  /\ wire' = IF q.tasks[1].st = "perm" THEN wire \cup RunningRequests(q) ELSE wire
  /\ ReturnErr
  /\ UNCHANGED <<uploadId, parts, cache, nextPart>>

SubmitResume ==
  /\ pc \in {"writeWait", "closeWait"}
  /\ FrontReady(q)
  /\ \/ /\ q.tasks[1].st = "ok"
        /\ q' = PushTask(FrontToResults(q), PartInput(PartId, cache))
        /\ Submitted
        /\ UNCHANGED wire
     \/ FrontFailed
  /\ UNCHANGED <<options, srv, temps, drops>>

\* concurrent = 1: the part is written in the call itself.
InlineOk ==
  /\ pc \in {"writeInline", "closeInline"}
  /\ Accepts(srv)
  /\ srv' = StorePart(srv, PartInput(PartId, cache))
  /\ q' = [q EXCEPT !.results = Append(@, PartInput(PartId, cache))]
  /\ Submitted
  /\ UNCHANGED <<options, wire, temps, drops>>

---------------------------------------------------------------------------
(* close() *)

\* Mutant: the buffer held back is not sent.
CloseForgetsCache ==
  /\ pc = "idle" /\ inner
  /\ MayCall("close")
  /\ pc' = IF ~uploadId THEN "once" ELSE "drain"
  /\ UNCHANGED <<options, client, front, arg, srv, wire, ghost, temps, drops>>

CloseCall ==
  /\ pc = "idle" /\ inner
  /\ MayCall("close")
  /\ pc' = IF ~uploadId THEN "once"
           ELSE IF cache # NoData /\ kind # "position" THEN "close" ELSE "drain"
  /\ UNCHANGED <<options, client, front, arg, srv, wire, ghost, temps, drops>>

\* The service reports a size, in buffers, or nothing (0): the size it stored,
\* or another one, as a service that encodes objects may.  CompleteWriter
\* compares it with what it was given.
ReportedSizes == 0..(MaxWrites + 1)
CheckSize(reported) == reported = 0 \/ reported = size

\* write_once succeeded: the cache goes (OneShotWriter keeps it), then
\* CompleteWriter checks the size.
OnceOk(reported) ==
  /\ pc = "once"
  /\ srv' = PutOnce(srv, cache)
  /\ cache' = IF kind = "oneshot" THEN cache ELSE NoData
  /\ IF CheckSize(reported) THEN ReturnEnded("closed") ELSE ReturnMismatch
  /\ UNCHANGED <<options, q, uploadId, parts, nextPart, wire, temps, drops>>

Collect(i) == parts' = Append(parts, i.part)

\* Mutant: the loop has no exit.
DrainSpins ==
  /\ q.tasks = <<>>
  /\ GoTo("drain")
  /\ UNCHANGED <<client, wire>>

\* next returned None.  MultipartWriter counts its parts, PositionWriter
\* writes the buffer it held back.
DrainDone ==
  /\ q.tasks = <<>>
  /\ IF kind = "multipart" /\ Len(parts) # nextPart THEN ReturnErr
     ELSE GoTo(IF kind = "position" /\ cache # NoData THEN "flush" ELSE "complete")
  /\ UNCHANGED <<client, wire>>

Drain ==
  /\ pc = "drain"
  /\ \/ /\ q.errored
        /\ ReturnErr
        /\ UNCHANGED <<client, wire>>
     \/ /\ ~q.errored /\ HasResult(q)
        /\ q' = [q EXCEPT !.results = Tail(@)]
        /\ Collect(Head(q.results))
        /\ GoTo("drain")
        /\ UNCHANGED <<uploadId, cache, nextPart, wire>>
     \/ /\ ~q.errored /\ ~HasResult(q) /\ FrontReady(q)
        /\ q.tasks[1].st = "ok"
        /\ q' = FrontToOwner(q)
        /\ Collect(q.tasks[1].input)
        /\ GoTo("drain")
        /\ UNCHANGED <<uploadId, cache, nextPart, wire>>
     \/ /\ ~q.errored /\ ~HasResult(q) /\ FrontReady(q)
        /\ FrontFailed
     \/ ~q.errored /\ ~HasResult(q) /\ DrainDone
  /\ UNCHANGED <<options, srv, temps, drops>>

FlushOk ==
  /\ pc = "flush"
  /\ Accepts(srv)
  /\ srv' = StorePart(srv, PartInput(PartId, cache))
  /\ parts' = Append(parts, nextPart)
  /\ cache' = NoData /\ nextPart' = nextPart + 1
  /\ GoTo("complete")
  /\ UNCHANGED <<options, q, uploadId, wire, temps, drops>>

CompleteOk(reported) ==
  /\ pc = "complete"
  /\ CanComplete(srv, Listed)
  /\ srv' = Complete(srv, Listed)
  /\ IF CheckSize(reported) THEN ReturnEnded("closed") ELSE ReturnMismatch
  /\ UNCHANGED <<options, client, wire, temps, drops>>

---------------------------------------------------------------------------
(* abort() *)

AbortCall ==
  /\ pc = "idle" /\ inner
  /\ \/ /\ ~uploadId
        /\ ReturnEnded("aborted")
        /\ cache' = IF kind = "oneshot" THEN NoData ELSE cache
        /\ UNCHANGED <<q, uploadId, parts, nextPart, wire>>
     \/ /\ uploadId
        /\ wire' = wire \cup RunningRequests(q)
        /\ q' = Clear(q)
        /\ cache' = NoData
        /\ GoTo("abort")
        /\ UNCHANGED <<uploadId, parts, nextPart>>
  /\ UNCHANGED <<options, srv, temps, drops>>

\* Mutant: the upload is never purged.
AbortOkForgets ==
  /\ pc = "abort"
  /\ ReturnEnded("aborted")
  /\ UNCHANGED <<options, client, srv, wire, temps, drops>>

AbortOk ==
  /\ pc = "abort"
  /\ kind = "block" \/ srv.upload \in {"live", "aborted"}
  /\ srv' = AbortUpload(srv)
  /\ ReturnEnded("aborted")
  /\ UNCHANGED <<options, client, wire, temps, drops>>

\* write, close and abort of a writer that was closed or aborted.
CallRefused ==
  /\ pc = "idle" /\ ~inner
  /\ UNCHANGED vars

---------------------------------------------------------------------------
(* Failures of the call's own request.                                     *)

Requesting ==
  {"initiate", "once", "flush", "complete", "abort", "writeInline", "closeInline"}

\* A temporary error or a timeout: the request may still arrive.
RequestTemp ==
  /\ pc \in Requesting
  /\ temps < MaxTemp
  /\ temps' = temps + 1
  /\ wire' = wire \cup {Request}
  /\ ReturnErr
  /\ UNCHANGED <<options, client, srv, drops>>

\* The service refuses.
RequestPerm ==
  /\ pc \in Requesting
  /\ ReturnErr
  /\ UNCHANGED <<options, client, srv, wire, temps, drops>>

\* The caller drops the suspended call.
DropCall ==
  /\ pc \in Requesting \cup {"writeWait", "closeWait", "drain"}
  /\ pc = "drain" => q.tasks # <<>> /\ ~HasResult(q)
  /\ drops < MaxDrops
  /\ drops' = drops + 1
  /\ wire' = IF pc \in Requesting THEN wire \cup {Request} ELSE wire
  /\ Dropped
  /\ UNCHANGED <<options, client, srv, temps>>

---------------------------------------------------------------------------
(* The executor resolves a write_part task: stored and answered, failed or *)
(* timed out with the request still able to arrive, or refused.            *)
(* (A future detached by a clear only bumps the counter, which is not read *)
(* again: an abort or a permanent error ends the use of the queue.)        *)

TaskOk(k) ==
  /\ Accepts(srv)
  /\ srv' = StorePart(srv, q.tasks[k].input)
  /\ q' = Resolve(q, k, "ok")
  /\ UNCHANGED <<wire, temps>>

TaskTemp(k) ==
  /\ temps < MaxTemp
  /\ temps' = temps + 1
  /\ q' = Resolve(q, k, "temp")
  /\ wire' = wire \cup {[op |-> "part", input |-> q.tasks[k].input]}
  /\ UNCHANGED srv

TaskPerm(k) ==
  /\ q' = Resolve(q, k, "perm")
  /\ UNCHANGED <<srv, wire, temps>>

TaskResolve ==
  /\ \E k \in Running(q) : TaskOk(k) \/ TaskTemp(k) \/ TaskPerm(k)
  /\ UNCHANGED <<options, uploadId, parts, cache, nextPart, front, pc, arg, ghost, drops>>

Next ==
  \/ \E b \in Buffers : WriteCall(b)
  \/ CloseCall \/ AbortCall \/ DropCall
  \/ InitiateOk \/ Submit \/ SubmitResume \/ InlineOk \/ Drain \/ FlushOk
  \/ \E reported \in ReportedSizes : OnceOk(reported) \/ CompleteOk(reported)
  \/ AbortOk \/ RequestTemp \/ RequestPerm
  \/ CallRefused \/ TaskResolve \/ WireArrive

Spec == Init /\ [][Next]_vars

(***************************************************************************)
(* Fairness: the executor drives its tasks, a caller polls the call it     *)
(* made, and a request is answered or times out.  Nobody has to make a     *)
(* call, drop one, or deliver what is left on the wire.                    *)
(***************************************************************************)
Answer ==
  \/ InitiateOk \/ InlineOk \/ FlushOk \/ AbortOk \/ RequestPerm
  \/ \E reported \in ReportedSizes : OnceOk(reported) \/ CompleteOk(reported)

FairSpec ==
  /\ Spec
  /\ WF_vars(TaskResolve)
  /\ WF_vars(Submit) /\ WF_vars(SubmitResume) /\ WF_vars(Drain)
  /\ WF_vars(Answer)

---------------------------------------------------------------------------
(* Properties *)

Pcs == {"idle", "initiate", "write", "writeInline", "writeWait", "once", "close",
        "closeInline", "closeWait", "drain", "flush", "complete", "abort"}

PartInputs == [part : 0..MaxWrites, bytes : Buffers]

\* The type of every variable.
TypeOK ==
  /\ kind \in Kinds /\ concurrent \in Concurrents
  /\ q \in QueueType(PartInputs)
  /\ uploadId \in BOOLEAN /\ inner \in BOOLEAN
  /\ state \in {"Open", "Written", "Closed", "Error"}
  /\ parts \in Seq(0..MaxWrites)
  /\ cache \in Buffers \cup {NoData} /\ arg \in Buffers \cup {NoData}
  /\ nextPart \in Nat /\ size \in Nat /\ last \in 0..MaxWrites
  /\ pc \in Pcs
  /\ srv.upload \in {"none", "live", "completed", "aborted"}
  /\ srv.stored \in Seq(Buffers \cup {NoData})
  /\ srv.object = NoObject \/ srv.object \in Seq(Buffers \cup {NoData})
  /\ acked \in Seq(Buffers)
  /\ ended \in {"open", "closed", "aborted"}
  /\ tried \subseteq {"write", "close", "abort", "size"}
  /\ temps \in 0..MaxTemp /\ drops \in 0..MaxDrops

\* Whatever fails, times out, is dropped and repeated, and whichever request
\* arrives late: the object, once visible, is the acknowledged buffers in
\* order, and a close that returned Ok left it visible
\* (multipart_write.rs:211-296).
PublishedIsAcked ==
  /\ srv.object # NoObject => srv.object = acked
  /\ ended = "closed" => srv.object = acked

\* "Close the writer and make sure all data have been committed"
\* (types/write/writer.rs:195).  False for a caller who closes again after a
\* size that did not match: a writer without an upload has sent its only
\* buffer, and now writes an empty object over it (multipart_write.rs:250).
ClosedIsCommitted == ended = "closed" => srv.object = acked

\* complete_part gets every part once, in ascending order
\* (multipart_write.rs:57, "Complete upload by an ordered part list"), and
\* complete_block a block of every acknowledged buffer, in order
\* (block_write.rs:228); a PositionWriter closes its file after every position
\* below its size was written (position_write.rs:162).
PartsInOrder ==
  pc = "complete" =>
    parts = IF kind = "block" THEN acked ELSE [k \in 1..nextPart |-> k - 1]

\* "multipart part numbers mismatch, please report bug to opendal"
\* (multipart_write.rs:286) is never returned, and the writers that do not
\* check have collected everything they were given.
MismatchUnreachable ==
  (pc = "drain" /\ ~q.errored /\ Pending(q) = <<>>)
    => Len(parts) = nextPart

\* write finds the buffer it is about to send: expect("pending write must
\* exist") cannot fail (multipart_write.rs:228, block_write.rs:183,
\* position_write.rs:134).
PendingWriteExists == pc \in {"write", "writeWait", "writeInline"} => cache # NoData

\* What write and close rely on when they go on after failed, repeated and
\* dropped calls: the buffer to send is there, the parts are complete and in
\* order, and no assertion of the code fails.
PartsSound == PartsInOrder /\ MismatchUnreachable /\ PendingWriteExists

\* Once close or abort returned Ok, the upload the writer was told of is
\* completed or purged: nothing is left on the service to be paid for.
UploadSettled == ended # "open" => srv.upload # "live"

\* The warning "writer has not been closed or aborted after successful write
\* operation, must be a bug" (complete.rs:294) is no false alarm, and the
\* debug_assert "inner is empty, but state is Open" (complete.rs:308,328) holds.
DropWarningSound ==
  /\ state = "Written" => inner /\ acked # <<>> /\ ended = "open"
  /\ ~inner => state \notin {"Open", "Written"}

\* A writer that ended left nothing behind, and one that did not says so: the
\* state CompleteWriter keeps agrees with the upload on the service.
EndsSettled == UploadSettled /\ DropWarningSound

\* After an abort of an upload or a file returned Ok no late request makes the
\* object appear.  (Nothing purges blocks: a late complete_block may.)
AbortIsFinal ==
  [][(ended = "aborted" /\ uploadId /\ kind # "block") => srv'.object = srv.object]_vars

\* "Abort the writer and clean up all written data" (types/write/writer.rs:185).
AbortCleansUp == ended = "aborted" => srv.object = NoObject

Object == INSTANCE AtomicObject
            WITH Data <- Buffers, Absent <- NoObject,
                 log <- acked, object <- srv.object, phase <- ended

\* The writer implements the atomic object.
ImplementsAtomicObject == Object!ObjSpec

\* A call that was made returns: no task, retry or drained queue leaves it
\* waiting for ever.
CallReturns == (pc # "idle") ~> (pc = "idle")
=============================================================================
