---------------------------- MODULE BufferStream ----------------------------
(***************************************************************************)
(* Reading an object: BufferStream of core/src/types/read/buffer_stream.rs *)
(* over a StreamingReader or a ChunkedReader, and its two kinds of owner:  *)
(* FuturesAsyncReader (read, fill_buf/consume, seek) and a user of the     *)
(* stream itself (poll_next, metadata), with the ReadGenerator of          *)
(* core/src/types/context/read.rs below.                                   *)
(*                                                                         *)
(* A byte is its offset in the object, a Buffer or a BytesRange the        *)
(* interval [from, to) of offsets it holds or asks for.  The accessor      *)
(* below is external: an open fails or hands out a reader; a reader        *)
(* returns the bytes of its range, in pieces, fails, or, only at the end   *)
(* of its range, returns an empty buffer (CompleteReader sees to that).    *)
(*                                                                         *)
(* The future of BufferStream::poll_next is kept in its state, so an owner *)
(* that stops polling drops nothing.  The future of metadata() owns the    *)
(* reader and may be dropped by the user.                                  *)
(***************************************************************************)
EXTENDS TaskQueue

CONSTANTS Concurrents,   \* values of options.concurrent, at least 1
          Chunks,        \* values of options.chunk, 0 for None
          Prefetch,      \* options.prefetch
          Start, End,    \* the range [Start, End) of the object that is read
          MaxErrors,     \* bound: failed opens and reads
          MaxSeeks,      \* bound: calls of poll_seek
          MaxDrops       \* bound: metadata() futures dropped

ASSUME StreamAssumption ==
  /\ Concurrents \subseteq Nat \ {0}
  /\ Chunks \subseteq Nat
  /\ Prefetch \in Nat
  /\ Start \in Nat /\ End \in Nat /\ Start <= End
  /\ MaxErrors \in Nat /\ MaxSeeks \in Nat /\ MaxDrops \in Nat

VARIABLES
  concurrent, chunk,  \* the options
  owner,      \* "async" (FuturesAsyncReader) or "stream"
  offset,     \* of the ChunkedReader or the ReadGenerator
  remaining,  \* likewise; Unknown for None
  opened,     \* ChunkedReader.opened or StreamingReader.reader: the bytes it
              \*   still has to return, Nothing for None
  q,          \* ChunkedReader.tasks
  done,       \* ChunkedReader.done
  cur,        \* the range of the request that is awaited, Nothing if none
  pc,         \* where the suspended future is; "gone" for State::Idle(None)
  known,      \* ctx.metadata().is_some()
  buf, pos,   \* of FuturesAsyncReader; for a stream, the last item and the
              \*   number of bytes before it
  reply,      \* what the stream returned last
  missed,     \* history: bytes this stream does not ask for again although
              \*   the request for them failed
  errors, seeks, drops

options == <<concurrent, chunk, owner>>
reader  == <<offset, remaining, opened, q, done>>
bounds  == <<errors, seeks, drops>>
vars    == <<options, reader, cur, pc, known, buf, pos, reply, missed, bounds>>

Offsets == Start .. End + 1
Ranges == [from : Offsets, to : Offsets]
Nothing == [from |-> End + 1, to |-> End + 1]
Unknown == End - Start + 1

Bytes(r) == r.from .. (r.to - 1)
IsEmpty(r) == r.from >= r.to

Init ==
  /\ concurrent \in Concurrents /\ chunk \in Chunks
  /\ owner \in {"async", "stream"}
  /\ offset = Start
  /\ \/ remaining = End - Start
     \/ chunk = 0 /\ owner = "stream" /\ remaining = Unknown
  /\ opened = Nothing /\ q = NewQueue /\ done = FALSE
  /\ cur = Nothing /\ pc = "idle" /\ known = FALSE
  /\ buf = Nothing /\ pos = 0
  /\ reply = "none" /\ missed = {}
  /\ errors = 0 /\ seeks = 0 /\ drops = 0

Chunked == chunk > 0

---------------------------------------------------------------------------
(* next_range, the same in ReadGenerator and ChunkedReader: the range      *)
(* counts as read before anything is awaited.                              *)

HasRange == remaining # 0

\* Mutant: the last chunk is not cut.
NextRangeUncut ==
  LET size == IF remaining = Unknown THEN End - offset
              ELSE IF Chunked THEN chunk ELSE remaining
  IN  [from |-> offset, to |-> offset + size]

NextRange ==
  LET size == IF remaining = Unknown THEN End - offset
              ELSE IF Chunked THEN Min2(remaining, chunk) ELSE remaining
  IN  [from |-> offset, to |-> offset + size]

AdvanceRange ==
  /\ offset' = IF remaining = Unknown THEN offset ELSE NextRange.to
  /\ remaining' = IF remaining = Unknown THEN 0
                  ELSE remaining - (NextRange.to - NextRange.from)

---------------------------------------------------------------------------
(* What the stream returns to its owner.                                   *)

Return(r) == pc' = "idle" /\ reply' = r /\ cur' = Nothing

\* Ok(buf): an empty buffer is the end of the stream.
Deliver(r) ==
  /\ IF IsEmpty(r) THEN Return("eof") /\ UNCHANGED buf
                   ELSE Return("data") /\ buf' = r

\* A request fails; the bytes it was for are not asked for again when
\* nobody kept its range.
FailError == errors < MaxErrors /\ errors' = errors + 1
Miss(r) == missed' = missed \cup Bytes(r)

---------------------------------------------------------------------------
(* poll_next on State::Idle: the reader is moved into a new future.        *)

PollNext ==
  /\ pc = "idle"
  /\ IsEmpty(buf)
  /\ pc' = IF Chunked THEN "fill" ELSE "stream"
  /\ reply' = "none"
  /\ UNCHANGED <<options, reader, cur, known, buf, pos, missed, bounds>>

\* reader.take().unwrap() when a dropped metadata() left None there.
PollNextPanics ==
  /\ pc = "gone"
  /\ IsEmpty(buf)
  /\ pc' = "panic"
  /\ UNCHANGED <<options, reader, cur, known, buf, pos, reply, missed, bounds>>

---------------------------------------------------------------------------
(* StreamingReader::read.                                                  *)

streamRest == <<options, q, done, pos>>

StreamOpen ==
  /\ pc = "stream" /\ opened = Nothing
  /\ \/ /\ HasRange
        /\ AdvanceRange
        /\ cur' = NextRange /\ pc' = "open"
        /\ UNCHANGED <<reply, buf>>
     \/ /\ ~HasRange
        /\ Deliver(Nothing)
        /\ UNCHANGED <<offset, remaining>>
  /\ UNCHANGED <<streamRest, opened, known, missed, bounds>>

\* next_reader: the metadata a successful open returns is kept.
StreamOpened ==
  /\ pc = "open"
  /\ \/ /\ opened' = cur /\ cur' = Nothing /\ pc' = "stream"
        /\ known' \in {known, TRUE}
        /\ UNCHANGED <<reply, missed, errors>>
     \/ /\ FailError /\ Miss(cur) /\ Return("err")
        /\ UNCHANGED <<opened, known>>
  /\ UNCHANGED <<streamRest, offset, remaining, buf, seeks, drops>>

\* Mutant: the reader is not reset at its end.
StreamReadSpins ==
  /\ pc = "stream" /\ opened # Nothing
  /\ \/ /\ \E n \in opened.from + 1 .. opened.to :
             /\ Deliver([from |-> opened.from, to |-> n])
             /\ opened' = [opened EXCEPT !.from = n]
        /\ UNCHANGED errors
     \/ /\ IsEmpty(opened)
        /\ UNCHANGED <<opened, cur, pc, reply, buf, errors>>
     \/ FailError /\ Return("err") /\ UNCHANGED <<opened, buf>>
  /\ UNCHANGED <<streamRest, offset, remaining, known, missed, seeks, drops>>

\* r.read(): a piece of the range; an empty buffer at its end, which resets
\* the reader; or an error, after which the reader is kept.
StreamRead ==
  /\ pc = "stream" /\ opened # Nothing
  /\ \/ /\ \E n \in opened.from + 1 .. opened.to :
             /\ Deliver([from |-> opened.from, to |-> n])
             /\ opened' = [opened EXCEPT !.from = n]
        /\ UNCHANGED errors
     \/ /\ IsEmpty(opened)
        /\ opened' = Nothing
        /\ UNCHANGED <<cur, pc, reply, buf, errors>>
     \/ FailError /\ Return("err") /\ UNCHANGED <<opened, buf>>
  /\ UNCHANGED <<streamRest, offset, remaining, known, missed, seeks, drops>>

---------------------------------------------------------------------------
(* ChunkedReader::read.  The loop asks for more chunks while tasks may     *)
(* resolve; `execute` is called with a slot free, so it never waits for a  *)
(* task, and with concurrent = 1 it runs the request itself.               *)

chunkRest == <<options, pos, seeks, drops>>

Filling == pc = "fill" /\ ~done /\ HasRemaining(q, concurrent, Prefetch)

\* The next input: the opened one, else a new range.
HasInput == opened # Nothing \/ HasRange
TakeInput ==
  IF opened # Nothing THEN opened' = Nothing /\ UNCHANGED <<offset, remaining>>
                      ELSE AdvanceRange /\ UNCHANGED opened
Input == IF opened # Nothing THEN opened ELSE NextRange

FillRefused ==
  /\ Filling /\ HasInput
  /\ q.errored
  /\ TakeInput
  /\ Return("err")
  /\ UNCHANGED <<chunkRest, q, done, known, buf, missed, errors>>

FillPush ==
  /\ Filling /\ HasInput
  /\ ~q.errored /\ IsConcurrent(concurrent)
  /\ TakeInput
  /\ q' = PushTask(q, Input)
  /\ pc' = IF HasResult(q) THEN "next" ELSE "fill"
  /\ UNCHANGED <<chunkRest, done, cur, known, buf, reply, missed, errors>>

FillInline ==
  /\ Filling /\ HasInput
  /\ ~q.errored /\ ~IsConcurrent(concurrent)
  /\ TakeInput
  /\ cur' = Input /\ pc' = "inline"
  /\ UNCHANGED <<chunkRest, q, done, known, buf, reply, missed, errors>>

FillEnds ==
  /\ pc = "fill"
  /\ ~(Filling /\ HasInput)
  /\ done' = (done \/ Filling)
  /\ pc' = "next"
  /\ UNCHANGED <<chunkRest, offset, remaining, opened, q, cur, known, buf, reply,
                 missed, errors>>

\* The request that `execute` runs itself ends; a failed one is not kept.
FillInlineEnds ==
  /\ pc = "inline"
  /\ \/ /\ q' = [q EXCEPT !.results = Append(@, cur)]
        /\ known' \in {known, TRUE}
        /\ pc' = "next" /\ cur' = Nothing
        /\ UNCHANGED <<reply, missed, errors>>
     \/ /\ FailError /\ Miss(cur) /\ Return("err")
        /\ UNCHANGED <<q, known>>
  /\ UNCHANGED <<chunkRest, offset, remaining, opened, done, buf>>

\* tasks.next().await
TakeNext ==
  /\ pc = "next"
  /\ \/ /\ q.errored
        /\ Return("err") /\ UNCHANGED <<q, buf>>
     \/ /\ ~q.errored /\ HasResult(q)
        /\ Deliver(Head(q.results))
        /\ q' = [q EXCEPT !.results = Tail(@)]
     \/ /\ ~q.errored /\ ~HasResult(q) /\ q.tasks = <<>>
        /\ Deliver(Nothing) /\ UNCHANGED q
     \/ /\ ~q.errored /\ ~HasResult(q) /\ FrontReady(q)
        /\ \/ /\ q.tasks[1].st = "ok"
              /\ Deliver(q.tasks[1].input)
              /\ q' = FrontToOwner(q)
           \/ /\ q.tasks[1].st # "ok"
              /\ Return("err")
              /\ q' = FrontError(q)
              /\ UNCHANGED buf
  /\ UNCHANGED <<chunkRest, offset, remaining, opened, done, known, missed, errors>>

\* The executor resolves a task; a task that opened its range may have
\* learned the metadata.
TaskResolve(k, outcome) ==
  /\ k \in Running(q)
  /\ IF outcome = "ok" THEN UNCHANGED errors ELSE FailError
  /\ known' \in {known, TRUE}
  /\ q' = Resolve(q, k, outcome)
  /\ UNCHANGED <<chunkRest, offset, remaining, opened, done, cur, pc, buf, reply, missed>>

---------------------------------------------------------------------------
(* BufferStream::metadata while idle: the reader is moved into the call's  *)
(* future, leaving Idle(None); prepare_metadata opens the next range       *)
(* unless a reader is open.  While a poll is pending, or when the metadata *)
(* is known, the call changes nothing.                                     *)

metaRest == <<options, q, buf, pos, reply, errors, seeks>>

Metadata ==
  /\ owner = "stream" /\ pc = "idle" /\ ~known /\ opened = Nothing
  /\ \/ /\ HasRange
        /\ AdvanceRange
        /\ cur' = NextRange /\ pc' = "meta"
        /\ UNCHANGED done
     \/ /\ ~HasRange
        /\ done' = Chunked
        /\ UNCHANGED <<offset, remaining, cur, pc>>
  /\ UNCHANGED <<metaRest, opened, known, missed, drops>>

\* expect("reader must exist while idle")
MetadataPanics ==
  /\ owner = "stream" /\ pc = "gone" /\ ~known
  /\ pc' = "panic"
  /\ UNCHANGED <<metaRest, offset, remaining, opened, done, cur, known, missed, drops>>

MetadataEnds ==
  /\ pc = "meta"
  /\ \/ /\ opened' = cur
        /\ known' \in {known, TRUE}
        /\ UNCHANGED <<missed, errors>>
     \/ FailError /\ Miss(cur) /\ UNCHANGED <<opened, known>>
  /\ pc' = "idle" /\ cur' = Nothing
  /\ UNCHANGED <<options, offset, remaining, q, done, buf, pos, reply, seeks, drops>>

\* The user drops the future of metadata(): the reader goes with it.
DropMetadata ==
  /\ pc = "meta"
  /\ drops < MaxDrops /\ drops' = drops + 1
  /\ pc' = "gone" /\ cur' = Nothing /\ opened' = Nothing
  /\ Miss(cur)
  /\ UNCHANGED <<metaRest, offset, remaining, done, known>>

---------------------------------------------------------------------------
(* The owner.                                                              *)

\* poll_read into n bytes, or consume(n) after poll_fill_buf; an owner of
\* the stream takes the whole item.
TakeBytes(n) ==
  /\ ~IsEmpty(buf)
  /\ n <= buf.to - buf.from
  /\ owner = "stream" => n = buf.to - buf.from
  /\ buf' = [buf EXCEPT !.from = @ + n]
  /\ pos' = pos + n
  /\ UNCHANGED <<options, reader, cur, pc, known, reply, missed, bounds>>

InBuffer(new) == pos <= new /\ new < pos + (buf.to - buf.from)

\* Mutant: a seek inside the buffer leaves it as it is.
SeekKeepsBuffer(new) ==
  /\ InBuffer(new)
  /\ UNCHANGED <<buf, reader, cur, pc, reply, missed>>

\* poll_seek to a position inside the buffer.
SeekInBuffer(new) ==
  /\ InBuffer(new)
  /\ buf' = [buf EXCEPT !.from = @ + (new - pos)]
  /\ UNCHANGED <<reader, cur, pc, reply, missed>>

\* poll_seek elsewhere: a new stream; the old one is dropped with its tasks
\* and with a future that may be pending.
SeekElsewhere(new) ==
  /\ ~InBuffer(new)
  /\ buf' = Nothing
  /\ offset' = new + Start /\ remaining' = End - Start - new
  /\ opened' = Nothing /\ q' = NewQueue /\ done' = FALSE
  /\ cur' = Nothing /\ pc' = "idle" /\ reply' = "none" /\ missed' = {}

\* A negative position, or one beyond the range, is refused.
Seek(new) ==
  /\ owner = "async" /\ seeks < MaxSeeks
  /\ seeks' = seeks + 1
  /\ SeekInBuffer(new) \/ SeekElsewhere(new)
  /\ pos' = new
  /\ UNCHANGED <<options, known, errors, drops>>

Next ==
  \/ PollNext \/ PollNextPanics
  \/ StreamOpen \/ StreamOpened \/ StreamRead
  \/ FillRefused \/ FillPush \/ FillInline \/ FillEnds \/ FillInlineEnds \/ TakeNext
  \/ \E k \in 1..Len(q.tasks), outcome \in Outcomes : TaskResolve(k, outcome)
  \/ Metadata \/ MetadataPanics \/ MetadataEnds \/ DropMetadata
  \/ \E n \in 1..(End - Start) : TakeBytes(n)
  \/ \E new \in 0..(End - Start) : Seek(new)

Spec == Init /\ [][Next]_vars

(***************************************************************************)
(* Fairness.  The executor keeps every task progressing                    *)
(* (types/execute/api.rs:57), an awaited request ends, and the owner reads *)
(* on: it polls the future it started, takes the bytes it got and asks     *)
(* again.  Nothing forces it to seek or to ask for metadata.               *)
(***************************************************************************)
Step ==
  \/ StreamOpen \/ StreamOpened \/ StreamRead
  \/ FillRefused \/ FillPush \/ FillInline \/ FillEnds \/ FillInlineEnds \/ TakeNext
  \/ MetadataEnds

Fairness ==
  /\ WF_vars(PollNext)
  /\ WF_vars(Step)
  /\ WF_vars(\E k \in 1..Len(q.tasks), o \in Outcomes : TaskResolve(k, o))
  /\ WF_vars(\E n \in 1..(End - Start) : TakeBytes(n))

FairSpec == Spec /\ Fairness

---------------------------------------------------------------------------
(* Properties *)

\* The type of every variable.
TypeOK ==
  /\ concurrent \in Concurrents /\ chunk \in Chunks
  /\ owner \in {"async", "stream"}
  /\ offset \in Start..End /\ remaining \in 0..Unknown
  /\ opened \in Ranges /\ cur \in Ranges /\ buf \in Ranges
  /\ q \in QueueType(Ranges)
  /\ done \in BOOLEAN /\ known \in BOOLEAN
  /\ pc \in {"idle", "stream", "open", "fill", "inline", "next", "meta", "gone", "panic"}
  /\ pos \in 0..(End - Start)
  /\ reply \in {"none", "data", "err", "eof"}
  /\ missed \subseteq Start..(End - 1)
  /\ errors \in 0..MaxErrors /\ seeks \in 0..MaxSeeks /\ drops \in 0..MaxDrops

\* What the owner will still be given, in order: the buffer, the chunks that
\* were fetched, the chunks under way, the request awaited, the reader opened
\* ahead of time, and the ranges not asked for yet.
Ahead ==
  <<buf>> \o Pending(q) \o <<cur, opened>>
    \o (IF HasRange THEN <<[from |-> offset, to |-> End]>> ELSE <<>>)

AheadBytes == UNION {Bytes(Ahead[k]) : k \in 1..Len(Ahead)}

\* The offset of the next byte the owner will be given.
NextByte ==
  CHOOSE o \in Start..End :
    /\ o \in AheadBytes \cup {End}
    /\ \A p \in AheadBytes : o <= p

Working == ~q.errored /\ pc \notin {"gone", "panic"}

\* No byte is skipped, repeated or reordered, whatever order the chunks are
\* fetched in, whichever fail and are fetched again, and wherever the owner
\* seeks: the byte at position pos of the owner is byte Start + pos of the
\* object, moved on only by the bytes of requests that failed and were not
\* kept; what is ahead is in order, without gaps or overlaps
\* (buffer_stream.rs:193, futures_util.rs:289, futures_async_reader.rs:164).
InSequence ==
  Working =>
    /\ Start + pos + Cardinality({m \in missed : m < NextByte}) = NextByte
    /\ NextByte..(End - 1) = AheadBytes \cup {m \in missed : m >= NextByte}
    /\ missed \cap AheadBytes = {}
    /\ \A i, j \in 1..Len(Ahead) :
         (i < j /\ ~IsEmpty(Ahead[i]) /\ ~IsEmpty(Ahead[j]))
           => Ahead[i].to <= Ahead[j].from

\* The end of the stream is reported when every byte was returned or was
\* part of a request whose error was returned, and never after an error that
\* broke the task queue (buffer_stream.rs:242, futures_util.rs:278).
EofMeansEnd ==
  reply = "eof" => ~q.errored /\ Start + pos + Cardinality(missed) = End

\* What the owner reads is the object: in sequence, and whole at its end.
Accounted == InSequence /\ EofMeansEnd

\* The chunks held or under way never exceed concurrent + prefetch, and the
\* requests under way exceed `concurrent` by at most one for each request
\* that failed and was started again (futures_util.rs:194,257).
BoundedAhead ==
  /\ Len(Pending(q)) <= concurrent + Prefetch
  /\ Cardinality(Running(q)) <= concurrent + errors

\* "reader must exist while idle" (buffer_stream.rs:330), and so for the
\* unwrap of poll_next (:356): false once the future of metadata() was dropped
\* at its await, because the reader went with it.
ReaderExists == pc # "panic"

\* "If the given result is error, the error will be returned to users and the
\* task will be retried" (futures_util.rs:121-122): no chunk of a
\* FuturesAsyncReader is given up for an error.
FailedChunkRetried == (Chunked /\ owner = "async") => missed = {}

\* An owner that reads on gets to the end, unless a permanent error broke the
\* task queue: no call hangs, no chunk is waited for that nobody fetches.
ReachesEnd == []<>(reply = "eof" \/ ~Working)
=============================================================================
