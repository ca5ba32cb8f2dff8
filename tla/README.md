# A formal model of the core of OpenDAL

OpenDAL gives one interface, `Operator`, to many storage services. What makes the
core hard is not the calls themselves but what happens around an `.await`: parts of a
write that run concurrently and fail one by one, a call that is dropped by a timeout
while its request is under way, a retry layer that repeats what may already have
happened. This project models those parts in TLA+, checks them with TLC and proves the
most important results with TLAPS. All paths below are relative to `core/core/src`
unless they say otherwise.

## 1. Inventory

| Component | State | Operations | Talks to | Hard behaviour |
|---|---|---|---|---|
| `ConcurrentTasks` (`raw/futures_util.rs`) | task queue, results, atomic counter of finished tasks, `errored` | `execute`, `next`, `clear`, `has_remaining`, `has_result` | executor (runs futures), owner (reader, writer, copier) | tasks finish in any order; calls dropped at the await; relaunch after a temporary error; counter shared with detached futures |
| `Executor`, `Task` (`types/execute`) | the futures handed over | `execute`, `timeout`, drop of a handle | runtime | progress, cancellation |
| `MultipartWriter` (`raw/oio/write/multipart_write.rs`) | upload id, parts, cached buffer, next part number, tasks | `write`, `close`, `abort` | service, `ConcurrentTasks` | each call is several requests; any of them may fail, time out, be dropped, arrive late |
| `CompleteWriter` (`layers/complete.rs`) | inner writer, size, state | `write`, `close`, `abort` | every service's writer | stays usable after an error so that a call can be repeated |
| `BlockWriter`, `PositionWriter`, `OneShotWriter`, `AppendWriter` | as the multipart writer: blocks, an offset, one buffer | `write`, `close`, `abort` | service, `ConcurrentTasks` | as above |
| `Writer`, `WriteGenerator` (`types/context/write.rs`) | buffer queue, exact chunk size | `write`, `close`, `abort` | layered writer | buffered bytes when a write fails |
| `BatchDeleter` (`raw/oio/delete/batch_delete.rs`) | set of queued paths | `delete`, `close` | service, `Deleter` | partial answers, repeated calls |
| `FuturesDeleteSink`, write sinks, `FuturesAsyncWriter` | a poll state machine | `poll_*` | `Deleter`, `Writer` | a future kept across polls |
| Read path (`types/context/read.rs`, `types/read/*`) | range iterator, `ConcurrentTasks`, position | `next`, `poll_read`, `seek` | layered reader | order of chunks, failed chunks, seek with reads in flight |
| Copiers (`types/copy.rs`, `raw/oio/copy`) | upload id, next part, tasks, `completed`, a pending poll | `next`, `close`, `abort`, `poll_next` | service, `ConcurrentTasks` | repeated calls after a failure |
| Listers (`raw/oio/list`), `SimulateLayer` | page token, stack of directories | `next`, recursive delete | service | a page that fails in the middle of a walk; entries that disappear |
| `RetryLayer`, `TimeoutLayer`, `ConcurrentLimitLayer` (`core/layers`) | backoff, remaining range, permits | every operation | inner accessor | repeat of what was done; permits held while waiting for permits |
| `PathCacher` (`raw/path_cache.rs`) | map from path to id, a lock | `get`, `insert`, `remove`, `ensure_dir` | service | lookups that race removals |
| Remaining layers, `Operator`, blocking API, services, bindings | none or the service's | forwarding | | |

The properties that make each component correct:

* `ConcurrentTasks`: first in, first out, exactly once; bounded; no call waits for a task
  that is not there; a permanent error is final; what was accepted is delivered.
* writers: the object appears at most once, whole, and equal to what was acknowledged;
  `close` means published, `abort` means purged; no assertion of the code can fail.
* `WriteGenerator`: bytes reach the service in order, once and in chunks of the chosen
  size; without a failure all of them do; every call ends.
* `BatchDeleter`: a requested path is queued or deleted; `close` means deleted; `close` ends.
* read path: the bytes of the requested range, once and in order, whatever fails, is retried
  or sought; the end is reported only at the end.
* copiers: every part once, `None` means copied, `abort` means purged.
* listers: every entry once, nested directories first; a recursive delete deletes everything.
* limits: no permit is lost, and jobs that share permits do not wait for each other for ever.

`PROJECT.json` lists every component with its status, and under `hazards` the places in
the code that are hard to test, with the properties that watch them.

## 2. Plan

1. `TaskQueue`, `ConcurrentTasks` against `OrderedTasks`, with proofs. *(done)*
2. `Writers` (the writers that publish at close, composing `TaskQueue`, `CompleteWriter` and
   a service with late requests) against `AtomicObject`. *(done)*
3. `BatchDeleter` and `WriteGenerator`, with proofs. *(done)*
4. The read path: `BufferStream` on `TaskQueue`; `RetryRead`, the stack of `RetryLayer`,
   `ConcurrentLimitLayer`, `CompleteReader` and `HttpBody`, with proofs. *(done)*
5. `Copier` on `TaskQueue`. *(done)*
6. `FlatLister`: recursive listing and recursive deleting. *(done)*
7. The poll-based sinks (`FuturesDeleteSink`, `BufferSink`, `FuturesBytesSink`,
   `FuturesAsyncWriter`), `PathCacher`, `AppendWriter`.
8. Proofs of `InOrder` (generator) and `GuardedConcurrency` (tasks); `Writers` and that it
   implements `AtomicObject`; `Copier`; `BufferStream`. *(done)*
9. Proofs about `FlatLister`: its paths and stack of open directories, then `BottomUp`,
   `Accounted` and `DeletesAll`. *(done)*

## 3. Modules

### TaskQueue, ConcurrentTasks, OrderedTasks

`TaskQueue` has no variables: it is the structure as a record (`tasks`, `results`,
`completed`, `errored`, `detached`) and one operator per piece of a method
(`PushTask`, `Retrieve`, `Relaunch`, `Fail`, `FrontToResults`, `FrontToOwner`, `Clear`,
`Resolve`). The modules that own a queue use these operators, so the structure is
described once. An output is named by its input, a task's state is `running` or how its
future resolved.

`ConcurrentTasks` is the state machine. `execute` and `next` are split at their single
`.await`: `Execute(i)` and `NextCall` run up to it (or to an early return),
`ExecuteResume`, `InlineResume` and `NextResume` from it, and `DropCall` drops a call
that waits there. `TaskResolve` is the executor, `DetachedEnd` the end of a future whose
handle was dropped: cancelled, or finished by the poll that was under way, in which case
it still bumps the counter. `ClearCall` is `clear`. `accepted` and `delivered` are
history variables: the inputs `execute` returned `Ok` for (less what a clear or a
permanent error gave up) and the outputs `next` returned. `unasked` records that
`execute` was called with no slot remaining, which tells the owners that consult
`has_remaining` (readers, copiers) from those that do not (writers).

`OrderedTasks` is the promise: a first-in first-out pipe. The refinement maps its queue to
`Pending(q)`, the results followed by the inputs of the queued tasks.

### Writers, AtomicObject

`MultipartWriter`, `BlockWriter` and `PositionWriter` are three copies of one algorithm: hold
the last buffer back, hand the one before it to `ConcurrentTasks`, drain and complete at
`close`. `OneShotWriter` is its first and last step. One module models the four, and the
variable `kind` says which one it is; the definitions that read `kind` are the differences:

| | multipart | block | position | one-shot |
|---|---|---|---|---|
| begins with | `initiate_part` | `started = true` | the open file | |
| a part is named by | its number | a new `Uuid` per submission | its offset | |
| the last buffer | a part | a block | written after the others | `write_once` |
| completes with | the counted parts | the blocks collected | the final size | |
| abort | `abort_part` | `abort_block` | `abort` | drops the buffer |

The caller's view is `CompleteWriter`; its `inner`, `size` and `state` are variables, and
the actions `ReturnErr`, `ReturnWritten`, `ReturnEnded` and `Dropped` are what it does when
the inner call ends. `pc` says where the call under way is suspended:

| `pc` | line of `multipart_write.rs` (or as named) |
|---|---|
| `initiate` | 221, `initiate_part().await` |
| `write`, `close` | 231 and 266, about to call `tasks.execute` |
| `writeWait`, `closeWait` | in `execute`, awaiting the front task |
| `writeInline`, `closeInline` | in `execute`, awaiting the part itself (`concurrent = 1`) |
| `once` | 256, `write_once().await` |
| `drain` | 280, `tasks.next().await` |
| `flush` | `position_write.rs:158`, `write_all_at().await` of the last buffer |
| `complete` | 295, `complete_part().await` |
| `abort` | 305, `abort_part().await` |

Buffers are numbers of unit length and an object is the sequence of the buffers it is made
of. Empty buffers are left out: `CompleteWriter.size` counts what is written, and the check
of `CheckSize` needs lengths, not contents. A service reports any size, or none, for an object it
has published; when it is not the one counted, `close` fails after the fact (`ReturnMismatch`) and
the writer stays open. A block is named by its buffer: two blocks of the
same buffer differ only in their `Uuid`, and what a service stores under either is the same.
The service is external: an upload with numbered parts, completed or aborted once; blocks that
belong to no upload and that nothing purges (as with uncommitted blocks that expire); a file
that is written under a temporary name and renamed when it is closed. A request whose answer
nobody awaits any more (it timed out, failed temporarily, or the call was dropped) goes on the
`wire`, from which it may take effect at any later moment or never. That is how a retry meets
its own first attempt. A permanent error is a refusal: the request has no effect.

`Orderly` says what the caller may do after a failure: repeat the call, or go on to
`close`, then to `abort`, but not back; after a size that did not match, which is a permanent
error, only to `abort`. The run is about orderly callers; section 5 has the disorderly one.

`AtomicObject` is the promise: acknowledged buffers form a log, the object appears at most
once and equals the log, `close` succeeds only with the object there.

### BatchDeleter

`DeleteCall` and `CloseCall` run up to the request of `flush_buffer`; `OnceOk`,
`BatchAnswered`, `RequestFailed` and `DropCall` are the ways the awaited request ends,
and `Flushed` is what `delete` and `close` do with a successful flush. A path stands for a
`(path, OpDelete)` pair. A failed or dropped request may have deleted any of its paths.
The other entry points of `Deleter` (`delete_iter`, `delete_stream`, ...) are sequences of
`delete` that stop at the first error, which the caller of the model may produce. The names that
every module has carry the prefix `BD` (`BDSpec`), so that `ListDeleteProofs` can extend the module
together with `FlatLister`.

### WriteGenerator

`Writer` is the loop of `write` (`WriteCall`, `WriteLoop`, `WriteReturn`), `WriteGenerator`
the body of the loop, one disjunct of `WriteLoop` per branch of
`types/context/write.rs:137-184`. The user's bytes are numbered, `buffer` is the `QueueBuf`
flattened, and `pc` says which `write_dyn`, `close` or `abort` of the inner writer is
awaited: `direct` (140), `joined` (159), `full` (171), `last` (194), `publish` (197),
`abort` (203). `InnerWritten`, `InnerClosed`, `InnerAborted` and `InnerFailed` end the await.
The inner writer is external here: it takes a chunk as a whole or not at all, keeps
accepting chunks after a failure (as `MultipartWriter` does after a failed
`initiate_part`), and publishes what it took; a failed or dropped call may have done either.
The user calls nothing after a `close` or `abort` that returned `Ok`, and only `abort` after
a failed `abort`. `write_from` is `write` of the bytes it collects.

### BufferStream

The stream over a `StreamingReader` (`chunk` 0, None in the code) or a `ChunkedReader`, which
owns a `TaskQueue`, and its two kinds of owner: `FuturesAsyncReader` (`owner = "async"`: reads
of any length, seeks) and a user of the stream (`"stream"`: whole items, `metadata`). A byte is
its offset in the object; a buffer, a chunk and a range are intervals of offsets. `next_range`
is the same in `ReadGenerator` and `ChunkedReader`: `NextRange` is what it returns,
`AdvanceRange` what it does to the state, before anything is awaited. `pc` says where the
future is: `stream` and `open` in `StreamingReader::read`, `fill`, `inline` and `next` in
`ChunkedReader::read`, `meta` in `metadata`. The future of a poll lives in the stream, so an owner
that stops polling drops nothing; the future of `metadata` has the reader with it, so
`DropMetadata` leaves `State::Idle(None)` (`"gone"`), on which the next poll panics. `missed` is
history: the bytes of a request that failed and whose range nobody kept. The layers below are
external: an open or a read succeeds or fails.

### RetryRead

A stack of layers and several jobs that share it: `RetryLayer` (`Retry`, `Backoff`, the
wrapper whose inner is taken for the time of a call), below it `ConcurrentLimitLayer`
(`Acquire`; a permit belongs to an open that is under way or to an open reader), below it
`CompleteReader` and `HttpBody` (`BodyCheck`). A job opens `Need` readers, keeps them, and
reads each to its end. `open`, `at` and `left` are the reader `RetryReader` holds, its position
and what `CompleteReader` still expects; `range` is what `RetryReader` asks for when it opens
again. A failed read drops the reader, and its permit, before the next attempt. `sized` and
`lengthKnown` are whether the range has a size and the response a length: without either
nobody can notice a body that breaks off. A body may also have up to `MaxExtra` bytes more than
the range asked for. `HttpBody` and `CompleteReader` count them and complain at the end of the
body, after they were returned (`BodyTooMuch`, `BodyOverlong`); `BytesRange::advance` of a range
with a size panics on them before that (`AdvancePanics`). A body that starts somewhere else than
asked for is left out: nothing in the code compares positions. A range that was read to its end and is opened
again is the `retry_empty` finding, and `OpenPanics` its effect.

### Copier

The user's `Copier` (`front`, `errored`), the `RetryWrapper` below it when `layered`
(`wrapper`, `attempt`), and one of `MultipartCopier`, `BlockCopier` and `OneShotCopier`. Sizes are
counted in parts. A call is `op`; `pc` says which request of it is awaited (`stat`, `once`,
`initiate`, `inline`, `take`, `complete`, `abort`) or which piece of `next` runs (`start`, `size`,
`fill`). `Failed` is what a failed call leads to: another attempt of the same call on the same
copier, or an error to the user. A poll of the `Stream` moves the copier into a future
(`front = "moved"`): `next`, `close` and `abort` meanwhile find none and return `Ok(None)` or `Ok`, as
they do when the copier is closed (`UserOver`). After an error `next` returns `Ok(None)` and `close`
an error (`UserAfterError`); `abort` still asks the copier. `srv.orphan` is an upload whose
`initiate` was served and not answered.

### FlatLister, MCFlatLister

Recursive listing on a service that lists one directory at a time: the user's `Lister`,
`RetryWrapper`, `CompleteLister` (which asks for the length of a file that was listed without
one), `PrefixLister`, `FlatLister` and one `PageLister` per open directory. With `mode = "delete"` the same
lister feeds `simulate_delete_with_recursive`, and a repeated call starts a new one. A path is the
sequence of its names; `MCFlatLister` gives the tree. `opening` is the directory that `next` has
taken out of `next_dir` and not yet pushed, which is what an error loses. A service hands out
pages of any size and order, and lists the directory itself among its entries, as object
stores do (the case the code guards with "should not loop itself again"). A delete takes
effect when it is made, as with `OneShotDeleter`; what a batch does is in `BatchDeleter`.
Directories may be denied, and another client may remove entries, the listed directory included.
A directory that is gone may answer `NotFound` on every page request; with `forGood`, as in the
listers of `ipfs` and `lakefs`, it answers nothing else. `FlatLister` then asks again without any
bound, so that these steps (`FirstNotFound`, `TopNotFound`) change nothing.

### Mutants

A definition whose comment starts with "Mutant" is used by no specification. It is the
definition it precedes with a plausible slip, and `PROJECT.json` names the property that
notices it.

## 4. Runs

| Run | Checks | Bounds |
|---|---|---|
| `tasks` | `TypeOK`, `Conserved`, `QueueSafe`, `GuardedConcurrency`, `ImplementsPipe`, `AcceptedSettles` | `concurrent` 1 or 2, prefetch 1, 4 inputs, 2 temporary errors, 1 dropped call, 1 clear |
| `writers` | `TypeOK`, `PublishedIsAcked`, `PartsSound`, `EndsSettled`, `AbortIsFinal`, `ImplementsAtomicObject`, `CallReturns` | four writers, `concurrent` 1 or 2, prefetch 1, 4 buffers, 1 temporary error or timeout, 1 dropped call; refusals are unbounded |
| `generator` | `TypeOK`, `InOrder`, `CleanIsComplete`, `ChunksSized`, `CallsReturn` | chunk none, 2 or 3, minimum none or 2, maximum none or 3, 6 bytes in writes of 0 to 4, 2 failures or dropped calls |
| `deleter` | `BDTypeOK`, `NothingForgotten`, `ClosedIsDeleted`, `CloseReturns` | 4 paths, batches of 2, 2 failures or dropped calls |
| `reader` | `TypeOK`, `Accounted`, `BoundedAhead`, `ReachesEnd` | bytes 1 to 5, chunk none, 1 or 2, `concurrent` 1 or 2, prefetch 1, 2 failures, 2 seeks, 1 dropped `metadata` |
| `retry_read` | `TypeOK`, `PermitsConserved`, `ReadsObject`, `AllFinish` | 2 jobs with 2 readers each, 3 permits, 2 bytes, 1 byte too many, 1 retry, 2 failures (an overlong body is one), 1 dropped call |
| `copier` | `TypeOK`, `EndIsTrue`, `PartsExact`, `CopyEnds` | three copiers, with and without retries, 1, 3 or 4 parts (4 is over the limit of the service), `concurrent` 1 or 2, prefetch 1, 1 retry, 2 temporary failures, 1 dropped call |
| `lister` | `TypeOK`, `BottomUp`, `Accounted`, `DeletesAll`, `ListingEnds` | 4 directories on 3 levels, one of them denied, 1 file, with and without a prefix, 1 retry, 2 failures, 1 concurrent removal, answered with `NotFound` for good or not |

What the composite properties are made of:

* `QueueSafe`: the counter is sound (`CounterSound`), the queue bounded (`QueueBounded`), and
  a call that awaits the front task finds one (`FrontAvailable`).
* `PartsSound`: parts complete in order, the mismatch error and the `expect` of `write` are
  unreachable. `EndsSettled`: after `close` or `abort` no upload is left, and the state of
  `CompleteWriter` agrees.
* `Accounted` (reader): bytes in sequence (`InSequence`), and the end only at the end
  (`EofMeansEnd`). `ReadsObject`: a resumed reader goes on where it was (`Resumes`) and ends only
  with the whole object (`EofMeansComplete`).
* `EndIsTrue`: what the copier itself says is true: of one that did not fail, was not aborted and is
  not with a pending poll, `None` means copied; of one that was asked, and whose earlier abort
  requests did not fail, `abort` means purged. That the other calls say the same without cause is
  `NoneMeansCopied` and `AbortMeansPurged` in section 5. `PartsExact`: never a destination made
  of some of the parts, progress reported once per part, no mismatch.
* `BottomUp`: every entry once and nested first, open directories form a path. `DeletesAll`: a
  recursive delete asks for children first and, when it returns `Ok`, has left nothing. The one
  exception is what lies in a denied directory around which no directory is deleted: a denied
  directory among the children makes the delete of its parent fail, but the listed directory
  itself, or one at the top of a prefix, is skipped (`flat_list.rs:95-103`) and the delete
  returns `Ok`.
* `ListingEnds`: a listing ends or stays for ever at a directory that is gone for good
  (`Spinning`); failures, pages and self-listed directories alone do not keep it from ending.
* `CopyEnds` rests on a finite number of temporary failures (`MaxTemp`): the loops over a part
  that fails for a while (`multipart_copy.rs:251`, `:297`) have no limit of their own.

Four inputs fill a queue of `concurrent + prefetch = 3` tasks with one left to wait, so the
full queue, the prefetch allowance and the await of the front task all occur; `concurrent`
only matters through `> 1` and through the queue's length. The code's prefetch of the
writers is 8192, which no small run fills: prefetch 1 makes the limit reachable, and the
proofs cover every value. Four buffers give parts that are collected in `execute` and parts
that are collected in `close`. The deleter needs more paths than a batch, so that a
failed flush is followed by a larger one. Six bytes in writes of up to four make a write
that fills a buffer and a half, two full chunks, and a short last one. Five bytes in chunks of
two end with a short chunk and exceed the three chunks that fit into the queue; a range that
does not start at 0 tells positions from offsets. Three permits are one more than both jobs
hold when each waits for its second reader, the least for which `AllFinish` claims anything.
Two failures exhaust one retry, so that every error path is taken with and without another
attempt. The tree has a directory in a directory, a file beside it, and a denied one.

Deadlock is not checked where the system stops by itself: a generator that was closed, a
copier that ended, a stream whose reader is gone, jobs that are done, a listing at its end.

Four runs are expected to be violated; each states what a comment of the repository says:

* `generator_commit`: "Close the writer and make sure all data have been committed"
  (`types/write/writer.rs:195`). The buffer is taken before the inner write is awaited; if
  that write fails, bytes that earlier writes acknowledged are gone and `close` returns `Ok`.
* `retry_empty`: "A zero-size range can't be represented as a valid HTTP Range"
  (`raw/http_util/bytes_range.rs:150`). When all bytes of a sized range were returned and the
  read that should report the end fails temporarily, `RetryReader` opens the rest again: zero
  bytes, which `to_header` cannot print, so that it panics.
* `copier_oneshot`: "`None` means the copy operation has completed" (`types/copy.rs:33`).
  `OneShotCopier` takes its future before awaiting it; the call that `RetryLayer` repeats after
  a temporary failure finds none and returns `Ok(None)`.
* `lister_none`: "Lister will return `None` if there is no more entries or error has been
  returned" (`types/list.rs:32`). `FlatLister` takes `next_dir` before `list().await`; the call
  that `RetryLayer` repeats after a temporary failure goes on without that directory. If it
  was the root, the listing is empty and no error is returned.

### Fairness

* Executor: `TaskResolve` is weakly fair, since an `Execute` implementation "MUST manage the
  executing futures and keep making progress" (`types/execute/api.rs:57`).
* A call that was made is polled: weak fairness of the actions that resume it.
* `tasks`: the owner calls `next` again and again (strong fairness of `NextCall`, since it
  is disabled while another call is under way). It is the assumption that the owner drains
  its queue, as the readers and `close` do; without it nothing is delivered.
* `writers`, `deleter`, `generator`, `reader`, `retry_read`, `copier`, `lister`: an awaited request is
  answered, with success or with an error. `TimeoutLayer` guarantees as much for a service that
  hangs.
* `reader`: the owner reads on (polls, takes the bytes, polls again). `copier`: the user calls
  `next` again and again, between whatever other calls (strong fairness, since a poll or an abort
  disables it). `lister`: the user goes on until the lister ends; failures (`Failing`) are not under
the fairness, so that no listing ends because one is forced on it. These are the callers the
  liveness properties speak of.
* `retry_read`: strong fairness of `Acquire`, since the semaphore serves its waiters in the order
  they came; a backoff sleep elapses; a job goes on with its work. `AllFinish` holds only with
  more than `|Jobs| * (Need - 1)` permits: with fewer, each job may hold all but one of its
  readers and wait, and only a timeout ends the wait.

Nothing forces a caller of the writers or the deleter to call, anyone to drop a call, to seek or
to abort, or the wire to deliver.

## 5. Where comments and code differ without a run

These statements are definitions of the modules, and TLC violates each of them when it is
put as the `INVARIANT` (for `WriteWritesAll` and `SkipsTheDeleted` the `PROPERTY`) of the named
configuration:

| Statement | Configuration | What the code says and does |
|---|---|---|
| `ConcurrentTasks.ConcurrentIsMaximum` | `ConcurrentTasks.cfg` | "The maximum number of concurrent tasks" (`futures_util.rs:135`): a full queue with a finished task at the front takes one more after collecting it, without asking `has_remaining` again; `concurrent + prefetch` tasks may run |
| `Writers.PendingWriteExists` | `Writers.cfg` with `Orderly = FALSE` | `expect("pending write must exist")` (`multipart_write.rs:228`): an `abort` or `close` that failed has already emptied the cache; a `write` after it panics |
| `Writers.AbortCleansUp` | `Writers.cfg` | "Abort the writer and clean up all written data" (`types/write/writer.rs:185`): when the single request of a `close` timed out and was served, `abort` has no upload to abort and leaves the object; a late `complete_block` does the same |
| `BatchDeleter.ErrMeansNotQueued` | `BatchDeleter.cfg` | "An error occurred and the deletion request was not queued" (`raw/oio/delete/api.rs:39`): the path is queued before the flush that fails |
| `BatchDeleter.BatchWithinLimit` | `BatchDeleter.cfg` | "Maximum size supported for single delete operations" (`types/capability.rs:152`): after a failed flush the buffer grows past the limit and is sent as one batch |
| `WriteGenerator.WriteWritesAll` | `WriteGenerator.cfg` with `Chunks = {0}`, `MinSizes = {None}` | "This operation will write all data in given buffer into writer" (`types/write/writer.rs:117`): with `chunk(0)` each turn of the loop flushes an empty buffer and consumes nothing |
| `BufferStream.FailedChunkRetried` | `BufferStream.cfg` | "the error will be returned to users and the task will be retried" (`futures_util.rs:121-122`): with `concurrent = 1` the failed chunk is not kept, and a reader that polls on skips it |
| `Writers.ClosedIsCommitted` | `Writers.cfg` with `Orderly = FALSE` | "Close the writer and make sure all data have been committed" (`types/write/writer.rs:195`): `close` of a single buffer is served but the size check fails (`complete.rs:342`); the buffer is gone and a second `close` writes an empty object over the first (`multipart_write.rs:250`) and returns `Ok` |
| `BufferStream.ReaderExists` | `BufferStream.cfg` | the `expect` and the `unwrap` on the reader (`buffer_stream.rs:330`, `:356`): the future of `metadata()` has the reader; when it is dropped the next poll panics |
| `RetryRead.TooMuchIsReported` | `RetryRead.cfg` | "reader got too much data" (`complete.rs:208`), "http response got too much data" (`body.rs:119`): with a size `BytesRange::advance` panics first (`bytes_range.rs:86`); without one the error is temporary, the retry asks behind the end and reports a normal end after the extra bytes |
| `Copier.NoneMeansCopied` | `Copier.cfg` | "`None` means the copy operation has completed" (`types/copy.rs:33`): `next` returns `Ok(None)` during a pending poll (`:82`) and after an error (`:78`, `:137`), with nothing copied |
| `Copier.AbortMeansPurged` | `Copier.cfg` | "Abort the pending copy operation" (`types/copy.rs:100`): `Ok` during a pending poll, which goes on; `Ok` from the second `abort` after a failed one, which finds no upload id (`multipart_copy.rs:341`); `Ok` with an upload left whose `initiate` was not answered |
| `FlatLister.SkipsTheDeleted` | `FlatLister.cfg` | "Skip entries that are deleted during listing" (`flat_list.rs:120`): the same lister is asked again, for ever if the directory answers `NotFound` for good |

## 6. Proofs

TLAPS checks the following for every value of the constants: every set of concurrencies, every
prefetch, size, tree, number of writes, failures, retries and dropped calls. Every safety invariant
and action property of the runs is proved. Each inductive invariant was put as the `INVARIANT` of
its configuration and checked by TLC before it was proved.

`ConcurrentTasksProofs` (on the lemmas about the queue's operators in
`TaskQueueTheorems`): `TypeCorrect`, `Conservation`, `CounterCorrect`, `QueueBound`,
`FrontAlwaysAvailable` (the three together are `QueueIsSafe`), `ErrorIsFinal`,
`AskedConcurrency` (`GuardedConcurrency`) and `Refinement`
(`ConcurrentTasks` implements `OrderedTasks`). All rest on one inductive invariant. `TypeOK` alone is not inductive: the
counter stays a natural number only because it is at least the number of finished tasks
(`CounterSound`), `next` hands out the right output only because it awaits the front task
with no result buffered (`CallSound`), and a clear after a permanent error changes nothing
only because nothing is left then (`QueueSound`). `NoneDetached` says that no future is
detached before the first clear, which is what makes the counter exact until then.
`TaskQueueTheorems` states for each operator what it does to the type, to `Pending`, to the
number of finished tasks and to the counter; the step lemmas use only those facts.
`GuardedConcurrency` needs two more (`AskInv`): a suspended `execute` is one that did not ask,
and without a temporary error no task is relaunched. `NoneDetached` then makes the counter
exact, so that a slot that `has_remaining` promises is one that no running task has.

`ListDeleteProofs` has two parts. The first is about `FlatLister`, for every tree of entries,
every prefix and set of denied directories, every way of cutting pages and any number of
failures, retries and removals: `ListerTypeCorrect`, `BottomUpWalk` (`BottomUp`), `NothingLeftOut`
(`Accounted`) and `DeletesEverything` (`DeletesAll`). It starts from lemmas about paths: prefixes
are a partial order in which what lies above one path is a chain (`PrefixCommon`), and what lies in
a directory is itself or in one of its children (`UnderChildren`). None of the four statements is
inductive; the invariant behind them is:

* `PcInv`: which of `opening`, `next_dir` and the held entry exist where `next` is suspended.
* `PathInv`: the open directories, then the one being opened or the next one, are a path with one
  directory per level; only the innermost may have been returned.
* `ListerInv`: a lister hands out an entry once, never the directory open below it, and leaves
  out for good only what is gone. So what it has still to hand out (`Items`) lies beside the path.
* `GoneInv`: what is gone is gone with everything below it.
* `OrderInv`: nothing still to come lies in an entry that was returned, or the other way round.
  That an entry handed out is clear of the rest (`LeafClear`) needs the two statements about the
  path: something to come from a lister above is a sibling of a directory on the path.
* `CoverInv`: every entry was returned, is coming, or is excused. A step takes an entry out of
  one place of the walk and puts its content into the others: a directory becomes itself and its
  children when it is opened, a page leaves out only what is gone.
* `DeleteInv`: in a recursive delete every child of an open directory that is to be deleted is
  awaited by the walk or settled (gone, or with a denied directory in it), and a directory that was
  returned is being deleted or gone. Filtering cannot interfere: a prefix that holds
  for a directory holds for all of it. The delete of the listed directory then settles all
  (`RootDeleted`).

The proof of `DeletesAll` is what showed the exception named in section 4.

The second part is about `BatchDeleter`, which the module extends too: `DeleterTypeCorrect`,
`NoPathForgotten` and `CloseMeansDeleted`, from `DeleterAssumption`. That `close`
returned `Ok` says something of the service only together with an empty buffer at that moment and
with nothing forgotten before.

`WriteGeneratorProofs`: `ChunkSizes` and `NoByteLost`, for every chunk size, minimum and
maximum other than zero (`0 \notin Sizes`; with zero the first is false, see
section 5). The sizes are inductive once `exact` and the place of the call are tied
together, as `ChunksSized` does. `NoByteLost` needs that the parts of the pipeline are empty
where the code relies on it (`PcInv`): nothing is in flight outside an await, nothing of the
user's buffer is left when `close` runs, nothing is buffered when the inner writer is closed.
Each step is then shown to regroup the concatenation `Pipeline` without changing it.
`TypeCorrect` and `BytesInOrder` (`InOrder`) add failures, which cut a stretch out of the
pipeline: it stays rising (`OrderInv`), since a failed await takes its whole flight with it
and a dropped `write` the rest of the user's buffer, and new bytes are above all given ones.

`RetryReadProofs`: `TypeCorrect`, `PermitsAreConserved` and `RetriedReadsObject`, for every
finite set of jobs, every number of readers, permits and retries, every size, and any number of
failures and dropped calls (the bounds are constants). The inductive invariant adds to the three
statements where a reader may be open: `Places` ties `pc` to `open` and `wrapper` of the reader a
job works on (no reader is open in `acquire` and `open`, one is in `body`). Without it a step that opens a
reader could overwrite an open one and lose its permit. The permits are counted with
cardinalities of the sets of opening jobs and open readers; each action adds or removes one
element, or, when a job ends or panics, the readers of that job. `ReadsObject` needs that
`left` of an open reader is what is missing, exactly with a size and at least without one, so that
the checks of `CompleteReader` and `HttpBody` accept only the whole object.

`WritersProofs` (assuming `Orderly`; for a disorderly caller the statements are false, see
section 5): `TypeCorrect`, `Published` (`PublishedIsAcked`), `PartsAreSound`, `Ends`
(`EndsSettled`), `AbortFinal` (`AbortIsFinal`) and `Refinement` (`Writers` implements
`AtomicObject`). That the object is what was acknowledged is a statement about requests that may
arrive long after they were given up, so the invariant speaks of every request there is:

* `LogInv`: the acknowledged buffers are the submitted ones and then the one held back; the parts
  collected and the inputs pending in the queue, one after the other, spell the submitted ones
  (`Chain`), unless the queue errored.
* `StoreInv`, `WireInv`: what was ever sent under a part number is the buffer of that number, so
  that a late or repeated part changes nothing; a list of parts on the wire names every
  acknowledged buffer (`Full`), a single request on the wire is the whole log.
* `CallInv`: where each call may be, and that no buffer is acknowledged once a close was tried.
  Without it a late `complete` could publish less than the log. It is here that `Orderly` is used,
  also for a `close` that failed at the size check and is not repeated.
* `ObjectInv`: the object is the log once it is there, an ended writer has no live upload.

The refinement then follows step by step: the only steps that change the object are the served
`complete`, `write_once` and their late versions, and they set it to the log.

`CopierProofs`: `TypeCorrect`, `EndTrue` (`EndIsTrue`) and `ExactParts` (`PartsExact`), with no
assumption on the user, who may abort and go on, drop calls, drive the copy as a `Stream` and call
it meanwhile or after an error; what those calls answer is excepted in `EndIsTrue` itself.
`LogInv` says that the parts collected and pending are at most the scheduled ones and, as long as
there are as many, the numbers 0, 1, 2, ...; an abort or a permanent failure loses some, and
the count stays short for ever. `FillInv` says why the loop over `tasks.next()` sees an empty
queue only when everything was scheduled: `fill_tasks` stops earlier only with a task in hand. So
the count that `complete` checks is right only for the whole list. `EndInv` ties `completed`, what
the user was told and the upload id to the service.

`BufferStreamProofs`: `TypeCorrect`, `ReadsTheObject` (`Accounted`), `AheadIsBounded`
(`BoundedAhead`). `Accounted` compares a position with
cardinalities of sets of bytes and says nothing of how they are held; the invariant does. What
the stream holds or will still ask for (`Held`) is a chain of ranges in order: the buffer, the
pending chunks, the awaited request or open reader, the ranges not asked for (`OrderInv`).
Every byte of the object was consumed, is held or was missed, all consumed ones lie before all
held ones, and their number is `pos` (`CoverInv`). A poll moves a range along the chain, a
failure moves one to `missed`, reading and seeking take from its front or start it again.
`PcInv` says that `next` of the queue is called with a chunk pending or with nothing left to
ask for, so that an empty answer is the end. `BoundedAhead` counts the failed tasks
against the errors seen (`QueueInv`), since each of them may be running again.

The assumptions are those on the constants (`TasksAssumption`, `WriterAssumption`,
`DeleterAssumption`, `GeneratorAssumption`, `StreamAssumption`, `RetryAssumption`,
`CopierAssumption`, `TreeAssumption`), which TLC evaluates in the runs, and the two named above,
`Orderly` and `0 \notin Sizes`, which the configurations satisfy. `TreeAssumption` says that paths
are sequences of names, that whatever lies above an entry is a directory, and that a prefix that
matches a path matches every longer one.

Only model-checked: every liveness property (`AcceptedSettles`, `CallReturns`, `CloseReturns`,
`CallsReturn`, `ReachesEnd`, `AllFinish`, `CopyEnds`, `ListingEnds`), which needs fairness and
`ENABLED`.

## 7. Not modelled

* The poll-based sinks and `FuturesAsyncWriter`, `FuturesDeleteSink`, `PathCacher`: left of the
  plan. `AppendWriter` publishes at every write and needs a service that appends.
* `Reader::read` and `Reader::fetch` collect the buffers of one or several streams;
  `FuturesBytesStream` cuts buffers; `HierarchyLister` filters a flat listing;
  `parse_into_range` asks for the length of the object.
* `foyer`, `tail-cut` and `throttle`: a cache, a hedge on latency and a rate limiter in
  external crates, with a thin layer around them.
* Services, bindings, observability layers, `Operator` and the blocking API, which are by far the
  most lines of the repository: they build and sign requests, parse answers, convert arguments,
  forward calls or observe. They keep no state that a call leaves half changed, and what a
  service does with a request is not decided in this repository; the modules have it as
  external actions.
* The appending mode of `CompleteWriter` (no size check) goes with `AppendWriter`.
