-------------------------- MODULE WriteGenerator ---------------------------
(***************************************************************************)
(* Writer (core/src/types/write/writer.rs) and the WriteGenerator it is    *)
(* built on (core/src/types/context/write.rs): the user's buffers are cut  *)
(* and joined into the chunks that the service's writer is given.          *)
(*                                                                         *)
(* The user's bytes are numbered 1, 2, ... in the order they are given to  *)
(* Writer::write.  Every call of the inner writer is awaited; there it may *)
(* fail, or the user may drop the call.  The inner writer is external: it  *)
(* accepts a chunk as a whole or not at all (a failed call may have done   *)
(* either), and publishes what it accepted when it is closed, as           *)
(* MultipartWriter is shown to do by AtomicObject.                         *)
(***************************************************************************)
EXTENDS Naturals, Sequences

CONSTANTS None,         \* Option::None (a model value)
          Chunks,       \* values of options.chunk
          MinSizes,     \* values of the capability write_multi_min_size
          MaxSizes,     \* values of the capability write_multi_max_size
          MaxBytes,     \* bound: bytes the user writes
          MaxLen,       \* bound: bytes of one write
          MaxFailures   \* bound: calls that fail or are dropped

ASSUME GeneratorAssumption ==
  /\ None \notin Nat
  /\ Chunks \subseteq Nat \cup {None}
  /\ MinSizes \subseteq Nat \cup {None}
  /\ MaxSizes \subseteq Nat \cup {None}
  /\ MaxBytes \in Nat /\ MaxLen \in Nat /\ MaxFailures \in Nat

VARIABLES chunk,     \* chunk_size
          exact,
          buffer,    \* QueueBuf, flattened
          pc,        \* where the call under way is
          rest,      \* bs of Writer::write: what is left of the user's buffer
          flight,    \* the chunk given to the inner writer's write, awaited
          sent,      \* the inner writer: bytes it accepted
          object,    \* the inner writer: what it published, None before
          begun,     \* history: bytes given before the last call of write
          given,     \* history: bytes given to write so far
          acked,     \* history: bytes of the writes that returned Ok
          ended,     \* history: "open", "aborting" from the first abort on,
                     \*   "closed" or "aborted" once that returned Ok
          failures   \* how much of the bound is used

setup == <<chunk, exact>>
inner == <<sent, object>>
ghost == <<begun, given, acked, ended, failures>>
vars  == <<setup, buffer, pc, rest, flight, inner, ghost>>

Bytes(a, b) == [k \in 1..(b - a) |-> a + k]

Least(a, b) == IF a <= b THEN a ELSE b

Greatest(a, b) == IF a >= b THEN a ELSE b

---------------------------------------------------------------------------
(* WriteGenerator::create *)

\* options.chunk, or else the smallest part the service takes, within what it
\* takes.
ChunkSize(option, min, max) ==
  LET wanted == IF option # None THEN option ELSE min
      capped == IF max = None THEN wanted ELSE Least(wanted, max)
  IN  IF wanted = None THEN None
      ELSE IF min = None THEN capped ELSE Greatest(capped, min)

Init ==
  /\ \E option \in Chunks, min \in MinSizes, max \in MaxSizes :
       /\ chunk = ChunkSize(option, min, max)
       /\ exact = (option # None)
  /\ buffer = <<>> /\ pc = "idle" /\ rest = <<>> /\ flight = <<>>
  /\ sent = <<>> /\ object = None
  /\ begun = 0 /\ given = 0 /\ acked = {} /\ ended = "open" /\ failures = 0

---------------------------------------------------------------------------
(* Writer::write: `while !bs.is_empty() { n = inner.write(bs); advance(n) }` *)

WriteCall(n) ==
  /\ pc = "idle" /\ ended = "open"
  /\ given + n <= MaxBytes
  /\ rest' = Bytes(given, given + n)
  /\ begun' = given /\ given' = given + n
  /\ pc' = "loop"
  /\ UNCHANGED <<setup, buffer, flight, inner, acked, ended, failures>>

\* The loop ends: the bytes of this call are acknowledged.
WriteReturn ==
  /\ pc = "loop" /\ rest = <<>>
  /\ pc' = "idle"
  /\ acked' = acked \cup (begun + 1)..given
  /\ UNCHANGED <<setup, buffer, rest, flight, inner, begun, given, ended, failures>>

\* self.w.write_dyn(data).await, to be continued at p.
Send(data, p) == flight' = data /\ pc' = p

\* No chunk size: the whole buffer goes through.
WriteThrough ==
  /\ chunk = None
  /\ Send(rest, "direct")
  /\ rest' = <<>>
  /\ UNCHANGED buffer

Buffered ==
  /\ chunk # None /\ Len(buffer) + Len(rest) < chunk
  /\ buffer' = buffer \o rest
  /\ rest' = <<>>
  /\ UNCHANGED <<pc, flight>>

Joined ==
  /\ chunk # None /\ Len(buffer) + Len(rest) >= chunk /\ ~exact
  /\ Send(buffer \o rest, "joined")
  /\ buffer' = <<>> /\ rest' = <<>>

\* A full buffer is written before it is filled again.
FlushFull ==
  /\ chunk # None /\ Len(buffer) + Len(rest) >= chunk /\ exact
  /\ Len(buffer) >= chunk
  /\ Send(buffer, "full")
  /\ buffer' = <<>>
  /\ UNCHANGED rest

\* Mutant: bs is not truncated.
FillAll(b) ==
  /\ buffer' = b \o rest
  /\ rest' = <<>>

\* Mutant: the length is taken of the truncated bs, but all of it is pushed.
FillTwice(b) ==
  /\ buffer' = b \o rest
  /\ rest' = SubSeq(rest, Least(chunk - Len(b), Len(rest)) + 1, Len(rest))

\* Mutant: the room is one too small.
FillShort(b) ==
  LET n == Least(chunk - Len(b) - 1, Len(rest))
  IN  /\ buffer' = b \o SubSeq(rest, 1, n)
      /\ rest' = SubSeq(rest, n + 1, Len(rest))

\* Fill the buffer b up to the chunk size from what is left.
Fill(b) ==
  LET n == Least(chunk - Len(b), Len(rest))
  IN  /\ buffer' = b \o SubSeq(rest, 1, n)
      /\ rest' = SubSeq(rest, n + 1, Len(rest))

FillRoom ==
  /\ chunk # None /\ Len(buffer) + Len(rest) >= chunk /\ exact
  /\ Len(buffer) < chunk
  /\ Fill(buffer)
  /\ UNCHANGED <<pc, flight>>

WriteLoop ==
  /\ pc = "loop" /\ rest # <<>>
  /\ WriteThrough \/ Buffered \/ Joined \/ FlushFull \/ FillRoom
  /\ UNCHANGED <<setup, inner, ghost>>

---------------------------------------------------------------------------
(* close and abort *)

CloseCall ==
  /\ pc = "idle" /\ ended = "open"
  /\ pc' = "close"
  /\ UNCHANGED <<setup, buffer, rest, flight, inner, ghost>>

\* Mutant: the buffer is flushed even when it is empty.
CloseFlushes ==
  /\ pc = "close"
  /\ \/ Send(buffer, "last") /\ buffer' = <<>>
     \/ buffer = <<>> /\ pc' = "publish" /\ UNCHANGED <<buffer, flight>>
  /\ UNCHANGED <<setup, rest, inner, ghost>>

\* Mutant: close forgets the buffer.
CloseForgets ==
  /\ pc = "close"
  /\ pc' = "publish"
  /\ UNCHANGED <<setup, buffer, rest, flight, inner, ghost>>

CloseLoop ==
  /\ pc = "close"
  /\ \/ buffer # <<>> /\ Send(buffer, "last") /\ buffer' = <<>>
     \/ buffer = <<>> /\ pc' = "publish" /\ UNCHANGED <<buffer, flight>>
  /\ UNCHANGED <<setup, rest, inner, ghost>>

AbortCall ==
  /\ pc = "idle" /\ ended \in {"open", "aborting"}
  /\ buffer' = <<>>
  /\ pc' = "abort" /\ ended' = "aborting"
  /\ UNCHANGED <<setup, rest, flight, inner, begun, given, acked, failures>>

---------------------------------------------------------------------------
(* The awaited call of the inner writer returns. *)

Writing == {"direct", "joined", "full", "last"}

\* Where a successful write_dyn continues.
InnerWritten ==
  /\ pc \in Writing
  /\ sent' = sent \o flight
  /\ flight' = <<>>
  /\ \/ pc \in {"direct", "joined"} /\ pc' = "loop" /\ UNCHANGED <<buffer, rest>>
     \/ pc = "full" /\ pc' = "loop" /\ Fill(buffer)
     \/ pc = "last" /\ pc' = "close" /\ UNCHANGED <<buffer, rest>>
  /\ UNCHANGED <<setup, object, ghost>>

InnerClosed ==
  /\ pc = "publish"
  /\ object' = sent
  /\ ended' = "closed"
  /\ pc' = "idle"
  /\ UNCHANGED <<setup, buffer, rest, flight, sent, begun, given, acked, failures>>

InnerAborted ==
  /\ pc = "abort"
  /\ ended' = "aborted"
  /\ pc' = "idle"
  /\ UNCHANGED <<setup, buffer, rest, flight, inner, begun, given, acked, failures>>

\* The inner call fails, or the user drops the call: what was left of the
\* user's buffer is gone, and what was in flight too unless it got through.
InnerFailed ==
  /\ pc \in Writing \cup {"publish", "abort"}
  /\ failures < MaxFailures
  /\ failures' = failures + 1
  /\ pc' = "idle" /\ flight' = <<>> /\ rest' = <<>>
  /\ sent' \in {sent, sent \o flight}
  /\ UNCHANGED <<setup, buffer, object, begun, given, acked, ended>>

Answer == InnerWritten \/ InnerClosed \/ InnerAborted

Next ==
  \/ \E n \in 0..MaxLen : WriteCall(n)
  \/ WriteLoop \/ WriteReturn
  \/ CloseCall \/ CloseLoop \/ AbortCall
  \/ InnerWritten \/ InnerClosed \/ InnerAborted \/ InnerFailed

Spec == Init /\ [][Next]_vars

\* The user polls the call it made, and the inner writer answers.
FairSpec ==
  /\ Spec
  /\ WF_vars(WriteLoop) /\ WF_vars(WriteReturn) /\ WF_vars(CloseLoop) /\ WF_vars(Answer)

---------------------------------------------------------------------------
(* Properties *)

\* The state is well typed; a chunk is in flight exactly while a call of the
\* inner writer is awaited, and it is never empty: a buffer is only flushed
\* when there is something in it.
TypeOK ==
  /\ chunk \in Nat \cup {None} /\ exact \in BOOLEAN
  /\ {buffer, rest, flight, sent} \subseteq Seq(1..MaxBytes)
  /\ object = None \/ object \in Seq(1..MaxBytes)
  /\ pc \in {"idle", "loop", "close", "publish", "abort"} \cup Writing
  /\ ended \in {"open", "aborting", "closed", "aborted"}
  /\ begun \in 0..given /\ given \in 0..MaxBytes /\ acked \subseteq 1..given
  /\ failures \in 0..MaxFailures
  /\ pc \in Writing <=> flight # <<>>

Pipeline == sent \o flight \o buffer \o rest

\* Whatever fails or is dropped on the way, no byte is written twice and no
\* byte overtakes another, between the service, the chunk in flight, the
\* buffer and what is left of the user's buffer: the lengths that the
\* generator returns and Writer::write advances by agree with what is kept.
InOrder ==
  \A i, j \in DOMAIN Pipeline : i < j => Pipeline[i] < Pipeline[j]

\* As long as no call failed, every byte the user gave is somewhere on the
\* way, and close publishes all of them: neither the tail of a chunk that is
\* cut nor the short last chunk is forgotten.
CleanIsComplete ==
  failures = 0 /\ ended \in {"open", "closed"} =>
    /\ Pipeline = Bytes(0, given)
    /\ ended = "closed" => object = Bytes(0, given)

\* What the service is given: with options.chunk exactly chunk_size bytes at
\* a time, else at least chunk_size, and a smaller chunk only from close;
\* the buffer never outgrows one chunk, also after failed calls, and without
\* a chunk size nothing is held back.
ChunksSized ==
  /\ chunk = None => buffer = <<>> /\ pc \notin {"full", "joined", "last"}
  /\ chunk # None =>
       /\ pc = "full" => exact /\ Len(flight) = chunk
       /\ pc = "joined" => ~exact /\ Len(flight) >= chunk
       /\ pc = "last" => Len(flight) \in 1..chunk
       /\ Len(buffer) <= chunk /\ (~exact => Len(buffer) < chunk)

\* Every call of write, close and abort returns, if the service answers: each
\* turn of the loop of Writer::write takes something from the user's buffer.
CallsReturn == pc # "idle" ~> pc = "idle"

\* "Close the writer and make sure all data have been committed": a close
\* that returns Ok has published every byte that a write acknowledged.
CloseCommitsAll ==
  ended = "closed" => acked \subseteq {object[i] : i \in DOMAIN object}

\* "This operation will write all data in given buffer into writer": a write
\* whose chunks are all answered comes to its end.
WriteWritesAll == pc = "loop" ~> pc = "idle"

---------------------------------------------------------------------------
=============================================================================
