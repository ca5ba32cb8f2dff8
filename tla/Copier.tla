------------------------------- MODULE Copier -------------------------------
(***************************************************************************)
(* Copying an object inside a service: the user's Copier of                *)
(* core/src/types/copy.rs, the RetryWrapper that RetryLayer puts below it  *)
(* when it is used, and one of the three implementations of oio::Copy in   *)
(* core/src/raw/oio/copy: MultipartCopier and BlockCopier, which run parts *)
(* through ConcurrentTasks, and OneShotCopier.                             *)
(*                                                                         *)
(* Sizes are counted in parts: a source of n parts is copied at once when  *)
(* n <= Threshold.  The service is external; a request that fails, times   *)
(* out or is dropped may have taken effect all the same (left out for a    *)
(* part, which is then copied again and replaces itself).  The late count  *)
(* of a task whose handle abort dropped is left out as well: it only frees *)
(* a slot.                                                                 *)
(*                                                                         *)
(* The user drives the copy with next() (close() is next() in a loop) or   *)
(* as a Stream, aborts it at any time, and may drop a call of next().      *)
(***************************************************************************)
EXTENDS TaskQueue

CONSTANTS Kinds,        \* the implementations: "multipart", "block", "oneshot"
          Concurrents,  \* values of the copier's `concurrent`, at least 1
          Prefetch,     \* 8192 in the code
          Sizes,        \* parts of the source
          Threshold,    \* copy_once_threshold
          MaxParts,     \* the service's limit, from its capability
          MaxTimes,     \* max_times of RetryLayer's backoff
          MaxTemp,      \* bound: temporary failures
          MaxDrops      \* bound: calls dropped

ASSUME CopierAssumption ==
  /\ Kinds \subseteq {"multipart", "block", "oneshot"}
  /\ Concurrents \subseteq Nat \ {0}
  /\ Prefetch \in Nat
  /\ Sizes \subseteq Nat \ {0}
  /\ Threshold \in Nat /\ MaxParts \in Nat /\ MaxTimes \in Nat
  /\ MaxTemp \in Nat /\ MaxDrops \in Nat

VARIABLES
  kind, concurrent, n,  \* the implementation, its concurrency, the source
  layered,    \* RetryLayer is used
  sizeKnown,  \* source_size.is_some()
  upload,     \* upload_id.is_some()
  parts,      \* parts or block_ids: the numbers collected, in order
  nextPart,   \* next_part_number and next_offset, counted from 0
  completed,  \* of MultipartCopier and BlockCopier
  fut,        \* OneShotCopier.fut.is_some()
  q,          \* tasks
  scheduled,  \* of fill_tasks
  wrapper,    \* RetryWrapper.inner.is_some()
  attempt,    \* retries of the call under way
  front,      \* the user's Copier: "here", "moved" into a pending poll, "closed"
  errored,    \* of the user's Copier
  op, pc,     \* the call under way and where it is
  srv,        \* the service: the upload, its parts, the destination
  reported,   \* history: what the user was told last
  progress,   \* history: parts reported by Ok(Some(_))
  aborting,   \* history: abort was called and reached the copier
  abortFailed,\* history: an abort request failed
  mismatch,   \* history: next found a wrong number of parts
  temps, drops

options == <<kind, concurrent, n, layered>>
copier  == <<sizeKnown, upload, parts, nextPart, completed, fut, q, scheduled>>
user    == <<front, errored, reported, progress, aborting, mismatch>>
bounds  == <<temps, drops>>
vars    == <<options, copier, wrapper, attempt, user, op, pc, srv, abortFailed, bounds>>

Init ==
  /\ kind \in Kinds /\ concurrent \in Concurrents /\ n \in Sizes
  /\ layered \in BOOLEAN
  /\ sizeKnown \in BOOLEAN /\ upload = FALSE /\ parts = <<>> /\ nextPart = 0
  /\ completed = FALSE /\ fut = TRUE /\ q = NewQueue /\ scheduled = 0
  /\ wrapper = TRUE /\ attempt = 0
  /\ front = "here" /\ errored = FALSE /\ op = "none" /\ pc = "idle"
  /\ srv = [upload |-> "none", stored |-> {}, dest |-> "none", orphan |-> "none"]
  /\ reported = "none" /\ progress = 0
  /\ aborting = FALSE /\ abortFailed = FALSE /\ mismatch = FALSE
  /\ temps = 0 /\ drops = 0

AllParts == [k \in 1..n |-> k - 1]

---------------------------------------------------------------------------
(* The service (external).                                                 *)

\* A service refuses to complete an upload that is no longer there, or with
\* parts it does not hold.
Completable(s, list) ==
  s.upload \notin {"done", "aborted"} /\ \A k \in 1..Len(list) : list[k] \in s.stored

\* The parts listed become the destination.
Commit(s, list) ==
  IF ~Completable(s, list) THEN s
  ELSE [s EXCEPT !.upload = "done",
                 !.dest = IF list = AllParts THEN "copied" ELSE "partial"]

Effect(s, request) ==
  CASE request = "once"     -> [s EXCEPT !.dest = "copied"]
    [] request = "initiate" -> [s EXCEPT !.upload = "live", !.stored = {}]
    [] request = "complete" -> Commit(s, parts)
    [] request = "abort"    -> [s EXCEPT !.upload = IF @ = "done" THEN @ ELSE "aborted"]
    [] OTHER                -> s

\* A request nobody waits for any more.  An upload started by one has an id
\* that nobody knows: it stays, and no abort can purge it.
LateEffect(s, request) ==
  IF request = "initiate" THEN [s EXCEPT !.orphan = "live"] ELSE Effect(s, request)

Refuses(s, request) == request = "complete" /\ ~Completable(s, parts)

---------------------------------------------------------------------------
(* A call ends.  RetryWrapper repeats a temporary failure; the user's      *)
(* Copier then gets Ok(Some(1)), Ok(None) or an error.                     *)

Idle == pc' = "idle" /\ op' = "none" /\ attempt' = 0
Unmove == IF front = "moved" THEN "here" ELSE front

Progress ==
  /\ Idle /\ front' = Unmove
  /\ progress' = progress + 1 /\ reported' = "some"
  /\ UNCHANGED <<errored, aborting, mismatch>>

\* Ok(None).  next() closes the copier, which has nothing left to do, and
\* drops it; a poll puts it back.
Done ==
  /\ Idle
  /\ front' = IF front = "moved" THEN "here" ELSE "closed"
  /\ reported' = "done"
  /\ UNCHANGED <<errored, progress, aborting, mismatch>>

Aborted ==
  /\ Idle
  /\ reported' = "aborted"
  /\ UNCHANGED <<front, errored, progress, aborting, mismatch>>

Error ==
  /\ Idle /\ front' = Unmove
  /\ errored' = (errored \/ op = "next")
  /\ reported' = "err"
  /\ UNCHANGED <<progress, aborting>>

\* The implementation returned an error.
Failed(outcome) ==
  \/ /\ layered /\ outcome = "temp" /\ attempt < MaxTimes
     /\ attempt' = attempt + 1 /\ pc' = "start"
     /\ UNCHANGED <<op, user>>
  \/ /\ ~(layered /\ outcome = "temp" /\ attempt < MaxTimes)
     /\ Error /\ UNCHANGED mismatch

CountTemp(outcome) ==
  /\ temps' = IF outcome = "temp" THEN temps + 1 ELSE temps
  /\ temps' <= MaxTemp

---------------------------------------------------------------------------
(* The user.                                                               *)

userRest == <<options, copier, errored, progress, mismatch, srv, abortFailed>>

\* next() and the Stream's poll_next, which moves the copier into its future.
UserNext(how) ==
  /\ pc = "idle" /\ front = "here" /\ ~errored /\ wrapper
  /\ op' = "next" /\ pc' = "start" /\ attempt' = 0
  /\ front' = how /\ reported' = "none"
  /\ UNCHANGED <<userRest, wrapper, aborting, bounds>>

UserAbort ==
  /\ pc = "idle" /\ front = "here" /\ wrapper
  /\ op' = "abort" /\ pc' = "start" /\ attempt' = 0
  /\ aborting' = TRUE /\ reported' = "none"
  /\ UNCHANGED <<userRest, wrapper, front, bounds>>

\* There is no copier to ask, because a pending poll has it or because it is
\* closed: next() returns Ok(None), close() Ok, with the default metadata while
\* a poll is pending, and abort() Ok; none of them does anything.
UserOver ==
  /\ front = "moved" \/ (front = "closed" /\ pc = "idle")
  /\ reported' \in {"done", "aborted"}
  /\ UNCHANGED <<userRest, wrapper, attempt, front, aborting, op, pc, bounds>>

\* After an error next() and poll_next return None, close() an error; abort()
\* still asks the copier (UserAbort).
UserAfterError ==
  /\ pc = "idle" /\ errored
  /\ reported' \in {"done", "err"}
  /\ UNCHANGED <<userRest, wrapper, attempt, front, aborting, op, pc, bounds>>

\* Awaiting a request, which may still take effect when nobody waits for it.
Awaiting == pc \in {"stat", "once", "initiate", "inline", "complete", "abort", "take"}

\* A call of next() or abort() is dropped at an await.  RetryWrapper had its
\* inner moved into the call: it is lost, with its tasks.
UserDrops ==
  /\ Awaiting /\ front = "here"
  /\ drops < MaxDrops /\ drops' = drops + 1
  /\ srv' \in {srv, LateEffect(srv, pc)}
  /\ wrapper' = ~layered
  /\ abortFailed' = (abortFailed \/ op = "abort")
  /\ Idle
  /\ UNCHANGED <<options, copier, user, temps>>

\* "retry layer is in bad state"
UserBadState ==
  /\ pc = "idle" /\ front = "here" /\ ~wrapper /\ reported # "err"
  /\ reported' = "err" /\ errored' \in {errored, TRUE}
  /\ UNCHANGED <<options, copier, wrapper, attempt, front, progress, aborting, mismatch,
                 op, pc, srv, abortFailed, bounds>>

---------------------------------------------------------------------------
(* next() of MultipartCopier and BlockCopier, up to the parts.             *)

Many == kind \in {"multipart", "block"}

\* What next does before it awaits anything.
NextStart ==
  /\ pc = "start" /\ op = "next" /\ Many
  /\ \/ completed /\ Done
     \/ ~completed /\ pc' = "size" /\ UNCHANGED <<op, attempt, user>>
  /\ scheduled' = 0
  /\ UNCHANGED <<options, sizeKnown, upload, parts, nextPart, completed, fut, q, wrapper,
                 srv, abortFailed, bounds>>

Size ==
  /\ pc = "size"
  /\ \/ ~sizeKnown /\ pc' = "stat" /\ UNCHANGED <<op, attempt, user>>
     \/ /\ sizeKnown /\ ~upload /\ n <= Threshold
        /\ pc' = "once" /\ UNCHANGED <<op, attempt, user>>
     \/ /\ sizeKnown /\ ~upload /\ n > Threshold
        /\ kind = "multipart" /\ n > MaxParts
        /\ Failed("perm")
     \/ /\ sizeKnown /\ ~upload /\ n > Threshold
        /\ kind = "multipart" /\ n <= MaxParts
        /\ pc' = "initiate" /\ UNCHANGED <<op, attempt, user>>
     \/ /\ sizeKnown
        /\ upload \/ (kind = "block" /\ n > Threshold)
        /\ pc' = "fill" /\ UNCHANGED <<op, attempt, user>>
  /\ UNCHANGED <<options, copier, wrapper, srv, abortFailed, bounds>>

\* Mutant: the upload id of a new upload is not kept.
ServedForgets ==
  /\ sizeKnown' = (sizeKnown \/ pc = "stat")
  /\ UNCHANGED upload
  /\ completed' = (completed \/ pc \in {"once", "complete"})

\* What is kept of a request that was answered.
Served ==
  /\ sizeKnown' = (sizeKnown \/ pc = "stat")
  /\ upload' = (upload \/ pc = "initiate")
  /\ completed' = (completed \/ pc \in {"once", "complete"})

\* A request of next ends: source_metadata, copy_once, initiate_copy,
\* complete_copy or complete_block.
RequestOk ==
  /\ pc \in {"stat", "once", "initiate", "complete"} /\ Many
  /\ ~Refuses(srv, pc)
  /\ srv' = Effect(srv, pc)
  /\ Served
  /\ \/ pc \in {"once", "complete"} /\ Done
     \/ /\ pc \notin {"once", "complete"}
        /\ pc' = IF pc = "stat" THEN "size" ELSE "fill"
        /\ UNCHANGED <<op, attempt, user>>
  /\ UNCHANGED <<options, parts, nextPart, fut, q, scheduled, wrapper, abortFailed, bounds>>

RequestFails(outcome) ==
  /\ pc \in {"stat", "once", "initiate", "complete"} /\ Many
  /\ srv' \in {srv, LateEffect(srv, pc)}
  /\ CountTemp(outcome)
  /\ Failed(outcome)
  /\ UNCHANGED <<options, copier, wrapper, abortFailed, drops>>

---------------------------------------------------------------------------
(* fill_tasks: `execute` is called with a slot free, so it never waits for *)
(* a task; with concurrent = 1 it runs the request, again after a          *)
(* temporary failure.  A queue that failed for good is never asked again:  *)
(* the same call made the user's Copier errored.                           *)

\* Mutant: one part too many.
MayFillOneMore ==
  /\ nextPart <= n
  /\ HasRemaining(q, concurrent, Prefetch)
  /\ scheduled < concurrent

MayFill ==
  /\ nextPart < n
  /\ HasRemaining(q, concurrent, Prefetch)
  /\ scheduled < concurrent

FillPush ==
  /\ pc = "fill" /\ MayFill /\ ~q.errored /\ IsConcurrent(concurrent)
  /\ q' = PushTask(q, nextPart)
  /\ nextPart' = nextPart + 1 /\ scheduled' = scheduled + 1
  /\ pc' = IF HasResult(q) THEN "take" ELSE "fill"
  /\ UNCHANGED <<options, sizeKnown, upload, parts, completed, fut, wrapper, attempt, user,
                 op, srv, abortFailed, bounds>>

FillInline ==
  /\ pc = "fill" /\ MayFill /\ ~q.errored /\ ~IsConcurrent(concurrent)
  /\ pc' = "inline"
  /\ UNCHANGED <<options, copier, wrapper, attempt, user, op, srv, abortFailed, bounds>>

FillEnds ==
  /\ pc = "fill" /\ ~MayFill
  /\ pc' = "take"
  /\ UNCHANGED <<options, copier, wrapper, attempt, user, op, srv, abortFailed, bounds>>

StorePart(p) == srv' = [srv EXCEPT !.stored = @ \cup {p}]

InlineOk ==
  /\ pc = "inline"
  /\ StorePart(nextPart)
  /\ q' = [q EXCEPT !.results = Append(@, nextPart)]
  /\ nextPart' = nextPart + 1 /\ scheduled' = scheduled + 1
  /\ pc' = "take"
  /\ UNCHANGED <<options, sizeKnown, upload, parts, completed, fut, wrapper, attempt, user,
                 op, abortFailed, bounds>>

InlineFails(outcome) ==
  /\ pc = "inline"
  /\ CountTemp(outcome)
  /\ \/ outcome = "temp" /\ UNCHANGED <<pc, op, attempt, user>>
     \/ outcome = "perm" /\ Failed(outcome)
  /\ UNCHANGED <<options, copier, wrapper, srv, abortFailed, drops>>

\* The executor resolves a part.
TaskResolve(k, outcome) ==
  /\ k \in Running(q)
  /\ CountTemp(outcome)
  /\ q' = Resolve(q, k, outcome)
  /\ IF outcome = "ok" THEN StorePart(q.tasks[k].input) ELSE UNCHANGED srv
  /\ UNCHANGED <<options, sizeKnown, upload, parts, nextPart, completed, fut, scheduled,
                 wrapper, attempt, user, op, pc, abortFailed, drops>>

---------------------------------------------------------------------------
(* The loop over tasks.next(), and the completion.                         *)

takeRest == <<options, sizeKnown, upload, nextPart, completed, fut, scheduled, wrapper,
              srv, abortFailed, bounds>>

\* Mutant: the failed part is not started again.
TakeFrontSpins ==
  /\ q.tasks[1].st = "temp"
  /\ UNCHANGED <<q, parts, pc, op, attempt, user>>

TakeFrontTemp ==
  /\ q.tasks[1].st = "temp"
  /\ q' = FrontError(q)
  /\ UNCHANGED <<parts, pc, op, attempt, user>>

\* Mutant: the loop goes on after a part was collected.
TakePartGoesOn ==
  /\ pc = "take" /\ ~q.errored /\ FrontReady(q) /\ q.tasks[1].st = "ok"
  /\ parts' = Append(parts, q.tasks[1].input)
  /\ q' = FrontToOwner(q)
  /\ UNCHANGED <<takeRest, pc, op, attempt, user>>

TakePart ==
  /\ pc = "take"
  /\ \/ /\ ~q.errored /\ HasResult(q)
        /\ parts' = Append(parts, Head(q.results))
        /\ q' = [q EXCEPT !.results = Tail(@)]
        /\ Progress
     \/ /\ ~q.errored /\ ~HasResult(q) /\ FrontReady(q)
        /\ \/ /\ q.tasks[1].st = "ok"
              /\ parts' = Append(parts, q.tasks[1].input)
              /\ q' = FrontToOwner(q)
              /\ Progress
           \/ TakeFrontTemp
           \/ /\ q.tasks[1].st = "perm"
              /\ q' = FrontError(q)
              /\ Failed("perm") /\ UNCHANGED parts
  /\ UNCHANGED takeRest

\* No part is left: the number of parts is checked before they are completed.
\* They were collected in order, so sort_by_key changes nothing unless an
\* aborted copy is driven on.
TakeNone ==
  /\ pc = "take"
  /\ ~q.errored /\ ~HasResult(q) /\ q.tasks = <<>>
  /\ \/ /\ Len(parts) = nextPart
        /\ pc' = "complete" /\ UNCHANGED <<op, attempt, user>>
     \/ /\ Len(parts) # nextPart
        /\ Error /\ mismatch' = TRUE
  /\ UNCHANGED <<takeRest, parts, q>>

---------------------------------------------------------------------------
(* abort() of MultipartCopier and BlockCopier.                             *)

\* The upload id is taken before the request is awaited.  BlockCopier asks
\* for the blocks it scheduled, if there are any.
AbortStart ==
  /\ pc = "start" /\ op = "abort" /\ Many
  /\ q' = Clear(q)
  /\ upload' = FALSE
  /\ \/ /\ upload \/ (kind = "block" /\ nextPart > 0)
        /\ pc' = "abort" /\ UNCHANGED <<completed, op, attempt, user>>
     \/ /\ ~(upload \/ (kind = "block" /\ nextPart > 0))
        /\ completed' = (completed \/ kind = "block")
        /\ Aborted
  /\ UNCHANGED <<options, sizeKnown, parts, nextPart, fut, scheduled, wrapper, srv,
                 abortFailed, bounds>>

AbortOk ==
  /\ pc = "abort" /\ Many
  /\ srv' = Effect(srv, "abort")
  /\ completed' = TRUE
  /\ Aborted
  /\ UNCHANGED <<options, sizeKnown, upload, parts, nextPart, fut, q, scheduled, wrapper,
                 abortFailed, bounds>>

AbortFails(outcome) ==
  /\ pc = "abort" /\ Many
  /\ srv' \in {srv, LateEffect(srv, "abort")}
  /\ abortFailed' = TRUE
  /\ CountTemp(outcome)
  /\ Failed(outcome)
  /\ UNCHANGED <<options, copier, wrapper, drops>>

---------------------------------------------------------------------------
(* OneShotCopier.  `completed` stands for meta.is_some().                  *)

\* close takes the future before it is awaited; without one it returns Ok.
OneShotStart ==
  /\ pc = "start" /\ kind = "oneshot"
  /\ \/ /\ op = "next" /\ ~completed /\ fut
        /\ pc' = "once" /\ fut' = FALSE
        /\ UNCHANGED <<completed, op, attempt, user>>
     \/ /\ op = "next" /\ (completed \/ ~fut)
        /\ Done /\ UNCHANGED <<fut, completed>>
     \/ /\ op = "abort"
        /\ fut' = FALSE /\ completed' = FALSE
        /\ Aborted
  /\ UNCHANGED <<options, sizeKnown, upload, parts, nextPart, q, scheduled, wrapper, srv,
                 abortFailed, bounds>>

OneShotOk ==
  /\ pc = "once" /\ kind = "oneshot"
  /\ srv' = Effect(srv, "once")
  /\ completed' = TRUE
  /\ Done
  /\ UNCHANGED <<options, sizeKnown, upload, parts, nextPart, fut, q, scheduled, wrapper,
                 abortFailed, bounds>>

OneShotFails(outcome) ==
  /\ pc = "once" /\ kind = "oneshot"
  /\ srv' \in {srv, LateEffect(srv, "once")}
  /\ CountTemp(outcome)
  /\ Failed(outcome)
  /\ UNCHANGED <<options, copier, wrapper, abortFailed, drops>>

---------------------------------------------------------------------------

Errors == {"temp", "perm"}

Step ==
  \/ NextStart \/ Size \/ RequestOk
  \/ FillPush \/ FillInline \/ FillEnds \/ InlineOk
  \/ TakePart \/ TakeNone \/ AbortStart \/ AbortOk \/ OneShotStart \/ OneShotOk
  \/ \E outcome \in Errors :
       \/ RequestFails(outcome) \/ InlineFails(outcome) \/ AbortFails(outcome)
       \/ OneShotFails(outcome)

Resolving == \E k \in 1..Len(q.tasks), outcome \in Outcomes : TaskResolve(k, outcome)

Next ==
  \/ Step \/ Resolving
  \/ \E how \in {"here", "moved"} : UserNext(how)
  \/ UserAbort \/ UserOver \/ UserAfterError \/ UserDrops \/ UserBadState

Spec == Init /\ [][Next]_vars

(***************************************************************************)
(* Fairness.  The executor keeps the tasks going, awaited requests end and *)
(* a user who started a call waits for it and calls next again and again,  *)
(* between whatever other calls.  Nothing forces an abort or a drop.       *)
(***************************************************************************)
Fairness ==
  /\ WF_vars(Step)
  /\ WF_vars(Resolving)
  /\ SF_vars(UserNext("here"))

FairSpec == Spec /\ Fairness

---------------------------------------------------------------------------
(* Properties *)

\* The type of every variable.
TypeOK ==
  /\ kind \in Kinds /\ concurrent \in Concurrents /\ n \in Sizes
  /\ {layered, sizeKnown, upload, completed, fut, wrapper, errored, aborting, abortFailed,
      mismatch} \subseteq BOOLEAN
  /\ parts \in Seq(0..(n - 1)) /\ nextPart \in 0..n
  /\ q \in QueueType(0..(n - 1))
  /\ scheduled \in 0..concurrent
  /\ attempt \in 0..MaxTimes
  /\ front \in {"here", "moved", "closed"}
  /\ op \in {"none", "next", "abort"}
  /\ pc \in {"idle", "start", "size", "stat", "once", "initiate", "fill", "inline", "take",
             "complete", "abort"}
  /\ srv \in [upload : {"none", "live", "done", "aborted"},
              stored : SUBSET (0..(n - 1)),
              dest : {"none", "copied", "partial"},
              orphan : {"none", "live"}]
  /\ reported \in {"none", "some", "done", "aborted", "err"}
  /\ progress \in 0..n
  /\ temps \in 0..MaxTemp /\ drops \in 0..MaxDrops

\* The last answer said that the copy has completed, and it came from the
\* copier, or from a closed one: not from a copier that had failed, nor while
\* a pending poll had it.
EndTold == reported = "done" /\ ~errored /\ front # "moved"

\* "`None` means the copy operation has completed" (types/copy.rs:33): when
\* the copier says so and was never aborted, the destination is the copy.
CompletedIsCopied == (EndTold /\ ~aborting) => srv.dest = "copied"

\* The same for the copiers that work in parts, whatever fails, is repeated or
\* is dropped; and for the one-shot copier as long as its request never failed.
DoneMeansCopied == (Many \/ (temps = 0 /\ drops = 0)) => CompletedIsCopied

\* What types/copy.rs:33 says, of every call: false after an error, where
\* next() returns Ok(None) (copy.rs:78), and during a pending poll (copy.rs:82).
NoneMeansCopied == (reported = "done" /\ ~aborting) => srv.dest = "copied"

\* A copy in parts is completed with every part, in order: whatever fails or
\* is dropped, the destination is never made of some of the parts
\* (multipart_copy.rs:315,325).
NeverPartial == srv.dest # "partial"

\* Every part is reported once: the parts reported so far are the parts
\* collected, and all of them when the copier says that the copy is done.
ProgressExact ==
  Many => /\ progress = Len(parts)
          /\ (EndTold /\ n > Threshold /\ ~aborting) => progress = n

\* "part numbers mismatch, please report bug to opendal" is never reached
\* unless the user aborted the copy and drives it on (multipart_copy.rs:315).
MismatchUnreachable == mismatch => aborting

\* abort() that returned Ok left no upload whose id this copier got, as long
\* as the copier was asked and no abort request failed before
\* (multipart_copy.rs:341).
AbortCleansUp ==
  (reported = "aborted" /\ front # "moved" /\ ~abortFailed) => srv.upload # "live"

\* "Abort the pending copy operation" (types/copy.rs:100), of every call that
\* returned Ok: false when a failed abort is repeated, which finds no upload
\* id, during a pending poll, and for an upload started by a request that was
\* not answered.
AbortMeansPurged ==
  reported = "aborted" => srv.upload # "live" /\ srv.orphan # "live"

\* Every part is copied, collected, reported and completed once, whatever
\* fails on the way.
PartsExact == NeverPartial /\ ProgressExact /\ MismatchUnreachable

\* What the copier says of the end of a copy is true: it has completed only
\* when the destination is the copy, and is aborted only without its upload.
EndIsTrue == DoneMeansCopied /\ AbortCleansUp

\* A user who drives the copy on gets to know its end, unless the call was
\* dropped inside RetryLayer: no call hangs, temporary failures end the loop.
CopyEnds == <>(front = "closed" \/ errored \/ ~wrapper)
=============================================================================
