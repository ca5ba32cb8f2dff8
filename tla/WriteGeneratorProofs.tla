----------------------- MODULE WriteGeneratorProofs ------------------------
(***************************************************************************)
(* WriteGenerator: the sizes of the chunks, for every chunk size and every *)
(* capability of the service other than zero; that, for the same ones, no  *)
(* byte is lost as long as no call fails; and that the bytes stay in order *)
(* whatever fails.                                                         *)
(***************************************************************************)
EXTENDS WriteGenerator, SequenceTheorems, TLAPS

Sizes == (Chunks \cup MinSizes \cup MaxSizes) \ {None}

\* The part of the type invariant that the sizes depend on.
Typed ==
  /\ chunk \in (Nat \ {0}) \cup {None}
  /\ exact \in BOOLEAN
  /\ buffer \in Seq(Nat) /\ rest \in Seq(Nat) /\ flight \in Seq(Nat)
  /\ sent \in Seq(Nat)
  /\ given \in Nat

SizeInv == Typed /\ ChunksSized

LEMMA BytesType ==
  ASSUME NEW a \in Nat, NEW b \in Nat, a <= b
  PROVE  /\ Bytes(a, b) \in Seq(Nat)
         /\ Len(Bytes(a, b)) = b - a
         /\ \A k \in 1..(b - a) : Bytes(a, b)[k] = a + k
<1>1. b - a \in Nat
  OBVIOUS
<1>2. Bytes(a, b) \in [1..(b - a) -> Nat]
  BY <1>1 DEF Bytes
<1> QED
  BY <1>1, <1>2 DEF Bytes

\* WriteGenerator::create never ends up with a chunk size of zero unless it
\* is given one.
LEMMA ChunkSizePositive ==
  ASSUME 0 \notin Sizes,
         NEW option \in Chunks, NEW min \in MinSizes, NEW max \in MaxSizes
  PROVE  ChunkSize(option, min, max) \in (Nat \ {0}) \cup {None}
BY GeneratorAssumption DEF Sizes, ChunkSize, Least, Greatest

LEMMA InitSizes == ASSUME 0 \notin Sizes PROVE Init => SizeInv
<1> SUFFICES ASSUME Init PROVE SizeInv
  OBVIOUS
<1>1. PICK option \in Chunks, min \in MinSizes, max \in MaxSizes :
        chunk = ChunkSize(option, min, max) /\ exact = (option # None)
  BY DEF Init
<1>2. chunk \in (Nat \ {0}) \cup {None}
  BY <1>1, ChunkSizePositive
<1>3. Typed
  BY <1>1, <1>2 DEF Init, Typed
<1>4. ChunksSized
  BY <1>2 DEF Init, ChunksSized
<1> QED
  BY <1>3, <1>4 DEF SizeInv

\* Filling the buffer keeps it within one chunk.
LEMMA FillSizes ==
  ASSUME Typed, chunk # None, NEW b \in Seq(Nat), Len(b) <= chunk, Fill(b)
  PROVE  buffer' \in Seq(Nat) /\ rest' \in Seq(Nat) /\ Len(buffer') <= chunk
<1> DEFINE n == Least(chunk - Len(b), Len(rest))
<1>1. n \in 0..Len(rest) /\ n <= chunk - Len(b)
  BY DEF Least, Typed
<1>2. SubSeq(rest, 1, n) \in Seq(Nat) /\ Len(SubSeq(rest, 1, n)) = n
  BY <1>1 DEF Typed
<1>3. SubSeq(rest, n + 1, Len(rest)) \in Seq(Nat)
  BY <1>1 DEF Typed
<1>4. buffer' = b \o SubSeq(rest, 1, n) /\ rest' = SubSeq(rest, n + 1, Len(rest))
  BY DEF Fill
<1> HIDE DEF n
<1>5. Len(buffer') = Len(b) + n /\ buffer' \in Seq(Nat)
  BY <1>2, <1>4
<1> QED
  BY <1>1, <1>3, <1>4, <1>5 DEF Typed

LEMMA LoopSizes == ASSUME SizeInv, WriteLoop PROVE SizeInv'
<1> USE DEF SizeInv, WriteLoop, setup, inner, ghost, Send
<1>1. CASE WriteThrough
  BY <1>1 DEF WriteThrough, Typed, ChunksSized
<1>2. CASE Buffered
  BY <1>2 DEF Buffered, Typed, ChunksSized
<1>3. CASE Joined
  BY <1>3 DEF Joined, Typed, ChunksSized
<1>4. CASE FlushFull
  BY <1>4 DEF FlushFull, Typed, ChunksSized
<1>5. CASE FillRoom
  <2>1. buffer' \in Seq(Nat) /\ rest' \in Seq(Nat) /\ Len(buffer') <= chunk
    BY <1>5, FillSizes DEF FillRoom, Typed
  <2> QED
    BY <1>5, <2>1 DEF FillRoom, Typed, ChunksSized
<1> QED
  BY <1>1, <1>2, <1>3, <1>4, <1>5

LEMMA WrittenSizes == ASSUME SizeInv, InnerWritten PROVE SizeInv'
<1> USE DEF SizeInv, InnerWritten, setup, ghost
<1>1. CASE pc \in {"direct", "joined"}
  BY <1>1 DEF Typed, ChunksSized
<1>2. CASE pc = "full"
  <2>1. /\ chunk # None /\ exact
        /\ Len(buffer) <= chunk /\ buffer \in Seq(Nat) /\ Fill(buffer)
    BY <1>2 DEF Typed, ChunksSized
  <2>2. buffer' \in Seq(Nat) /\ rest' \in Seq(Nat) /\ Len(buffer') <= chunk
    BY <1>2, <2>1, FillSizes
  <2> QED
    BY <1>2, <2>1, <2>2 DEF Typed, ChunksSized
<1>3. CASE pc = "last"
  BY <1>3 DEF Typed, ChunksSized
<1> QED
  BY <1>1, <1>2, <1>3 DEF Writing

LEMMA StepSizes == SizeInv /\ [Next]_vars => SizeInv'
<1> SUFFICES ASSUME SizeInv, [Next]_vars PROVE SizeInv'
  OBVIOUS
<1> USE DEF SizeInv, setup, inner, ghost
<1>1. ASSUME NEW n \in 0..MaxLen, WriteCall(n) PROVE SizeInv'
  <2>1. n \in Nat /\ given + n \in Nat /\ given <= given + n
    BY <1>1, GeneratorAssumption DEF Typed
  <2>2. Bytes(given, given + n) \in Seq(Nat)
    BY <2>1, BytesType DEF Typed
  <2> QED
    BY <1>1, <2>1, <2>2 DEF WriteCall, Typed, ChunksSized
<1>2. CASE WriteReturn
  BY <1>2 DEF WriteReturn, Typed, ChunksSized
<1>3. CASE CloseCall
  BY <1>3 DEF CloseCall, Typed, ChunksSized
<1>4. CASE CloseLoop
  <2>1. buffer # <<>> => Len(buffer) \in Nat \ {0}
    BY DEF Typed
  <2>2. /\ flight' \in Seq(Nat) /\ buffer' \in Seq(Nat)
        /\ UNCHANGED <<chunk, exact, rest, sent, given>>
    <3>1. CASE buffer # <<>> /\ flight' = buffer /\ buffer' = <<>>
      BY <1>4, <3>1 DEF CloseLoop, Typed
    <3>2. CASE UNCHANGED <<buffer, flight>>
      BY <1>4, <3>2 DEF CloseLoop, Typed
    <3> QED
      BY <1>4, <3>1, <3>2 DEF CloseLoop, Send
  <2>3. Typed'
    BY <2>2 DEF Typed
  <2>4. CASE buffer = <<>>
    BY <1>4, <2>3, <2>4 DEF CloseLoop, Send, Typed, ChunksSized
  <2>5. CASE buffer # <<>>
    BY <1>4, <2>1, <2>3, <2>5 DEF CloseLoop, Send, Typed, ChunksSized
  <2> QED
    BY <2>4, <2>5
<1>5. CASE AbortCall
  BY <1>5 DEF AbortCall, Typed, ChunksSized
<1>6. CASE InnerClosed
  BY <1>6 DEF InnerClosed, Typed, ChunksSized
<1>7. CASE InnerAborted
  BY <1>7 DEF InnerAborted, Typed, ChunksSized
<1>8. CASE InnerFailed
  <2>1. sent' \in Seq(Nat)
    <3>1. sent \o flight \in Seq(Nat)
      BY DEF Typed
    <3> QED
      BY <1>8, <3>1 DEF InnerFailed, Typed
  <2> QED
    BY <1>8, <2>1 DEF InnerFailed, Typed, ChunksSized
<1>9. CASE UNCHANGED vars
  BY <1>9 DEF vars, Typed, ChunksSized
<1> QED
  BY <1>1, <1>2, <1>3, <1>4, <1>5, <1>6, <1>7, <1>8, <1>9, LoopSizes, WrittenSizes DEF Next

\* Unless a size of zero is configured, the service is given chunks of
\* chunk_size bytes (context/write.rs:136-184), and the buffer is at most one
\* chunk, whatever fails.
THEOREM ChunkSizes ==
  ASSUME 0 \notin Sizes
  PROVE  Spec => []ChunksSized
<1>1. Init => SizeInv
  BY InitSizes
<1>2. SizeInv => ChunksSized
  BY DEF SizeInv
<1> QED
  BY <1>1, <1>2, StepSizes, PTL DEF Spec

---------------------------------------------------------------------------
(* No byte is lost while no call fails. *)

\* What each await leaves behind: which parts of the pipeline are empty where,
\* and that a writer that was closed is not called again.
PcInv ==
  /\ failures \in Nat
  /\ pc \notin Writing => flight = <<>>
  /\ pc \notin {"loop", "full"} => rest = <<>>
  /\ pc = "publish" => buffer = <<>>
  /\ pc \notin {"idle", "abort"} => ended = "open"
  /\ pc = "abort" => ended = "aborting"

CleanInv == SizeInv /\ PcInv /\ CleanIsComplete

LEMMA Empties ==
  \A s \in Seq(Nat) : s \o <<>> = s /\ <<>> \o s = s
BY ConcatEmptySeq

LEMMA Associates ==
  \A s, t, u \in Seq(Nat) : (s \o t) \o u = s \o (t \o u)
BY ConcatAssociative

LEMMA Joins ==
  \A s, t \in Seq(Nat) : s \o t \in Seq(Nat)
OBVIOUS

\* Two successive ranges of bytes are one.
LEMMA BytesJoin ==
  ASSUME NEW a \in Nat, NEW n \in Nat
  PROVE  Bytes(0, a) \o Bytes(a, a + n) = Bytes(0, a + n)
<1>1. /\ Bytes(0, a) \in Seq(Nat) /\ Len(Bytes(0, a)) = a
      /\ \A k \in 1..a : Bytes(0, a)[k] = k
  <2>1. a - 0 = a /\ 0 <= a /\ 0 \in Nat
    OBVIOUS
  <2>2. /\ Bytes(0, a) \in Seq(Nat) /\ Len(Bytes(0, a)) = a - 0
        /\ \A k \in 1..(a - 0) : Bytes(0, a)[k] = 0 + k
    BY <2>1, BytesType
  <2>3. \A k \in 1..a : 0 + k = k
    OBVIOUS
  <2> QED
    BY <2>1, <2>2, <2>3
<1>2. /\ Bytes(a, a + n) \in Seq(Nat) /\ Len(Bytes(a, a + n)) = n
      /\ \A k \in 1..n : Bytes(a, a + n)[k] = a + k
  <2>1. (a + n) - a = n /\ a <= a + n /\ a + n \in Nat
    OBVIOUS
  <2> QED
    BY <2>1, BytesType
<1>3. /\ Bytes(0, a + n) \in Seq(Nat) /\ Len(Bytes(0, a + n)) = a + n
      /\ \A k \in 1..(a + n) : Bytes(0, a + n)[k] = k
  BY BytesType
<1> DEFINE s == Bytes(0, a)
           t == Bytes(a, a + n)
           u == Bytes(0, a + n)
<1> HIDE DEF s, t, u
<1>4. s \in Seq(Nat) /\ Len(s) = a /\ \A k \in 1..a : s[k] = k
  BY <1>1 DEF s
<1>5. t \in Seq(Nat) /\ Len(t) = n /\ \A k \in 1..n : t[k] = a + k
  BY <1>2 DEF t
<1>6. u \in Seq(Nat) /\ Len(u) = a + n /\ \A k \in 1..(a + n) : u[k] = k
  BY <1>3 DEF u
<1>7. /\ s \o t \in Seq(Nat) /\ Len(s \o t) = a + n
      /\ \A i \in 1..(a + n) : (s \o t)[i] = IF i <= a THEN s[i] ELSE t[i - a]
  BY <1>4, <1>5, ConcatProperties
<1>8. ASSUME NEW i \in 1..(a + n) PROVE (s \o t)[i] = u[i]
  <2>1. u[i] = i
    BY <1>6
  <2>2. CASE i <= a
    BY <1>4, <1>7, <2>1, <2>2
  <2>3. CASE ~ (i <= a)
    <3>1. i - a \in 1..n /\ a + (i - a) = i
      BY <2>3
    <3>2. t[i - a] = a + (i - a)
      BY <1>5, <3>1
    <3>3. (s \o t)[i] = t[i - a]
      BY <1>7, <2>3
    <3> QED
      BY <2>1, <3>1, <3>2, <3>3
  <2> QED
    BY <2>2, <2>3
<1>9. s \o t = u
  BY <1>6, <1>7, <1>8, SeqEqual
<1> QED
  BY <1>9 DEF s, t, u

\* Filling moves bytes and changes none.
LEMMA FillKeeps ==
  ASSUME Typed, chunk # None, NEW b \in Seq(Nat), Len(b) <= chunk, Fill(b)
  PROVE  buffer' \o rest' = b \o rest
<1> DEFINE n == Least(chunk - Len(b), Len(rest))
           s == SubSeq(rest, 1, n)
           t == SubSeq(rest, n + 1, Len(rest))
<1>1. n \in 0..Len(rest) /\ Len(rest) \in Nat
  BY DEF Least, Typed
<1>5. buffer' = b \o s /\ rest' = t
  BY DEF Fill
<1> HIDE DEF n
<1>2. s \in Seq(Nat) /\ t \in Seq(Nat)
  <2>1. \A i \in 1..n : rest[i] \in Nat
    BY <1>1 DEF Typed
  <2>2. \A i \in (n + 1)..Len(rest) : rest[i] \in Nat
    BY <1>1 DEF Typed
  <2> QED
    BY <1>1, <2>1, <2>2, SubSeqProperties
<1>3. s \o t = SubSeq(rest, 1, Len(rest))
  <2>1. /\ 1 \in 1..(Len(rest) + 1) /\ n \in (1 - 1)..Len(rest)
        /\ Len(rest) \in n..Len(rest) /\ rest \in Seq(Nat)
    BY <1>1 DEF Typed
  <2> QED
    BY <2>1, ConcatAdjacentSubSeq
<1>4. s \o t = rest
  BY <1>3, SubSeqFull DEF Typed
<1> HIDE DEF s, t
<1> QED
  BY <1>2, <1>4, <1>5, Associates

\* A turn of the loop of Writer::write moves bytes along the pipeline.
LEMMA LoopKeeps ==
  ASSUME SizeInv, PcInv, WriteLoop
  PROVE  Pipeline' = Pipeline
<1> USE DEF SizeInv, WriteLoop, setup, inner, ghost, Send
<1>1. /\ flight = <<>> /\ sent' = sent /\ sent \in Seq(Nat)
      /\ buffer \in Seq(Nat) /\ rest \in Seq(Nat)
  BY DEF PcInv, Writing, Typed
<1>2. Pipeline = (sent \o buffer) \o rest
  BY <1>1, Empties DEF Pipeline
<1>3. CASE WriteThrough
  <2>1. buffer = <<>> /\ buffer' = <<>> /\ flight' = rest /\ rest' = <<>>
    BY <1>3 DEF WriteThrough, ChunksSized
  <2> QED
    BY <1>1, <1>2, <2>1, Empties, Joins DEF Pipeline
<1>4. CASE Buffered
  <2>1. flight' = <<>> /\ buffer' = buffer \o rest /\ rest' = <<>>
    BY <1>1, <1>4 DEF Buffered
  <2>2. Pipeline' = sent \o (buffer \o rest)
    BY <1>1, <2>1, Empties, Joins DEF Pipeline
  <2> QED
    BY <1>1, <1>2, <2>2, Associates
<1>5. CASE Joined
  <2>1. flight' = buffer \o rest /\ buffer' = <<>> /\ rest' = <<>>
    BY <1>5 DEF Joined
  <2>2. Pipeline' = sent \o (buffer \o rest)
    BY <1>1, <2>1, Empties, Joins DEF Pipeline
  <2> QED
    BY <1>1, <1>2, <2>2, Associates
<1>6. CASE FlushFull
  <2>1. flight' = buffer /\ buffer' = <<>> /\ rest' = rest
    BY <1>6 DEF FlushFull
  <2> QED
    BY <1>1, <1>2, <2>1, Empties, Joins DEF Pipeline
<1>7. CASE FillRoom
  <2>1. flight' = <<>> /\ chunk # None /\ Len(buffer) <= chunk /\ Fill(buffer)
    BY <1>1, <1>7 DEF FillRoom, ChunksSized
  <2>2. buffer' \o rest' = buffer \o rest
    BY <1>1, <2>1, FillKeeps
  <2>3. buffer' \in Seq(Nat) /\ rest' \in Seq(Nat)
    BY <1>1, <2>1, FillSizes
  <2>4. Pipeline' = (sent \o buffer') \o rest'
    BY <1>1, <2>1, Empties DEF Pipeline
  <2>5. (sent \o buffer') \o rest' = (sent \o buffer) \o rest
    <3>1. (sent \o buffer') \o rest' = sent \o (buffer' \o rest')
      BY <1>1, <2>3, Associates
    <3>2. (sent \o buffer) \o rest = sent \o (buffer \o rest)
      BY <1>1, Associates
    <3> QED
      BY <2>2, <3>1, <3>2, Zenon
  <2> QED
    BY <1>2, <2>4, <2>5, Zenon
<1> QED
  BY <1>3, <1>4, <1>5, <1>6, <1>7

\* So does an answer of the inner writer.
LEMMA WrittenKeeps ==
  ASSUME SizeInv, PcInv, InnerWritten
  PROVE  Pipeline' = Pipeline
<1> USE DEF SizeInv, InnerWritten, setup, ghost
<1>1. /\ flight' = <<>> /\ sent' = sent \o flight /\ sent' \in Seq(Nat)
      /\ buffer \in Seq(Nat) /\ rest \in Seq(Nat)
  BY Joins DEF Typed
<1>2. Pipeline = (sent' \o buffer) \o rest
  BY <1>1 DEF Pipeline
<1>3. Pipeline' = (sent' \o buffer') \o rest'
  BY <1>1, Empties DEF Pipeline
<1>4. CASE UNCHANGED <<buffer, rest>>
  BY <1>2, <1>3, <1>4
<1>5. CASE pc = "full" /\ Fill(buffer)
  <2>1. chunk # None /\ Len(buffer) <= chunk
    BY <1>5 DEF ChunksSized
  <2>2. buffer' \o rest' = buffer \o rest
    BY <1>1, <1>5, <2>1, FillKeeps
  <2>3. buffer' \in Seq(Nat) /\ rest' \in Seq(Nat)
    BY <1>1, <1>5, <2>1, FillSizes
  <2>4. (sent' \o buffer') \o rest' = (sent' \o buffer) \o rest
    <3>1. (sent' \o buffer') \o rest' = sent' \o (buffer' \o rest')
      BY <1>1, <2>3, Associates
    <3>2. (sent' \o buffer) \o rest = sent' \o (buffer \o rest)
      BY <1>1, Associates
    <3> QED
      BY <2>2, <3>1, <3>2, Zenon
  <2> QED
    BY <1>2, <1>3, <2>4, Zenon
<1> QED
  BY <1>4, <1>5

LEMMA InitClean == ASSUME 0 \notin Sizes PROVE Init => CleanInv
<1> SUFFICES ASSUME Init PROVE CleanInv
  OBVIOUS
<1>1. SizeInv
  BY InitSizes
<1>2. PcInv
  BY DEF Init, PcInv
<1>3. Bytes(0, given) = <<>> /\ Pipeline = <<>>
  <2>1. Bytes(0, 0) \in Seq(Nat) /\ Len(Bytes(0, 0)) = 0
    BY BytesType
  <2>2. Bytes(0, 0) = <<>>
    BY <2>1
  <2> QED
    BY <2>2, Empties DEF Init, Pipeline
<1>4. CleanIsComplete
  BY <1>3 DEF Init, CleanIsComplete
<1> QED
  BY <1>1, <1>2, <1>4 DEF CleanInv

LEMMA StepPc == ASSUME CleanInv, Next PROVE PcInv'
<1> USE DEF CleanInv, setup, inner, ghost
<1>1. ASSUME NEW n \in 0..MaxLen, WriteCall(n) PROVE PcInv'
  BY <1>1 DEF WriteCall, PcInv, Writing
<1>2. CASE WriteReturn
  BY <1>2 DEF WriteReturn, PcInv, Writing
<1>3. CASE WriteLoop
  <2> USE <1>3 DEF WriteLoop, PcInv, Writing
  <2>1. CASE WriteThrough
    BY <2>1 DEF WriteThrough, Send
  <2>2. CASE Buffered
    BY <2>2 DEF Buffered
  <2>3. CASE Joined
    BY <2>3 DEF Joined, Send
  <2>4. CASE FlushFull
    BY <2>4 DEF FlushFull, Send
  <2>5. CASE FillRoom
    BY <2>5 DEF FillRoom
  <2> QED
    BY <2>1, <2>2, <2>3, <2>4, <2>5
<1>4. CASE CloseCall
  BY <1>4 DEF CloseCall, PcInv, Writing
<1>5. CASE CloseLoop
  BY <1>5 DEF CloseLoop, Send, PcInv, Writing
<1>6. CASE AbortCall
  BY <1>6 DEF AbortCall, PcInv, Writing
<1>7. CASE InnerWritten
  BY <1>7 DEF InnerWritten, PcInv, Writing
<1>8. CASE InnerClosed
  BY <1>8 DEF InnerClosed, PcInv, Writing
<1>9. CASE InnerAborted
  BY <1>9 DEF InnerAborted, PcInv, Writing
<1>10. CASE InnerFailed
  BY <1>10 DEF InnerFailed, PcInv, Writing
<1> QED
  BY <1>1, <1>2, <1>3, <1>4, <1>5, <1>6, <1>7, <1>8, <1>9, <1>10 DEF Next

LEMMA StepComplete == ASSUME CleanInv, Next PROVE CleanIsComplete'
<1> USE DEF CleanInv, setup, inner, ghost
<1>0. ASSUME Pipeline' = Pipeline, UNCHANGED <<given, failures, object>>,
             ended = "open", ended' = "open"
      PROVE  CleanIsComplete'
  BY <1>0 DEF CleanIsComplete
<1>1. ASSUME NEW n \in 0..MaxLen, WriteCall(n) PROVE CleanIsComplete'
  <2>1. /\ n \in Nat /\ given \in Nat /\ flight = <<>> /\ rest = <<>>
        /\ sent \in Seq(Nat) /\ buffer \in Seq(Nat)
    BY <1>1, GeneratorAssumption DEF WriteCall, SizeInv, Typed, PcInv, Writing
  <2>2. Pipeline = sent \o buffer
    BY <2>1, Empties, Joins DEF Pipeline
  <2>3. Pipeline' = (sent \o buffer) \o Bytes(given, given + n)
    BY <1>1, <2>1, Empties DEF WriteCall, Pipeline
  <2>4. ended = "open" /\ ended' = "open" /\ failures' = failures /\ given' = given + n
    BY <1>1 DEF WriteCall
  <2>5. failures = 0 => Pipeline' = Bytes(0, given + n)
    BY <2>1, <2>2, <2>3, <2>4, BytesJoin DEF CleanIsComplete
  <2> QED
    BY <2>4, <2>5 DEF CleanIsComplete
<1>2. CASE WriteReturn
  BY <1>0, <1>2 DEF WriteReturn, Pipeline, PcInv
<1>3. CASE WriteLoop
  BY <1>0, <1>3, LoopKeeps DEF WriteLoop, PcInv
<1>4. CASE CloseCall
  BY <1>0, <1>4 DEF CloseCall, Pipeline
<1>5. CASE CloseLoop
  <2>1. CASE buffer # <<>>
    <3>1. /\ flight = <<>> /\ flight' = buffer /\ buffer' = <<>>
          /\ rest' = rest /\ sent' = sent
          /\ sent \in Seq(Nat) /\ buffer \in Seq(Nat)
      BY <1>5, <2>1 DEF CloseLoop, Send, PcInv, Writing, SizeInv, Typed
    <3>2. Pipeline' = Pipeline
      BY <3>1, Empties, Joins DEF Pipeline
    <3> QED
      BY <1>0, <1>5, <3>2 DEF CloseLoop, PcInv
  <2>2. CASE buffer = <<>>
    BY <1>0, <1>5, <2>2 DEF CloseLoop, Pipeline, PcInv
  <2> QED
    BY <2>1, <2>2
<1>6. CASE AbortCall
  BY <1>6 DEF AbortCall, CleanIsComplete
<1>7. CASE InnerWritten
  BY <1>0, <1>7, WrittenKeeps DEF InnerWritten, PcInv, Writing
<1>8. CASE InnerClosed
  <2>1. /\ flight = <<>> /\ rest = <<>> /\ buffer = <<>> /\ sent \in Seq(Nat)
        /\ ended = "open"
    BY <1>8 DEF InnerClosed, PcInv, Writing, SizeInv, Typed
  <2>2. Pipeline = sent /\ Pipeline' = sent
    BY <1>8, <2>1, Empties DEF InnerClosed, Pipeline
  <2> QED
    BY <1>8, <2>1, <2>2 DEF InnerClosed, CleanIsComplete
<1>9. CASE InnerAborted
  BY <1>9 DEF InnerAborted, CleanIsComplete
<1>10. CASE InnerFailed
  BY <1>10 DEF InnerFailed, CleanIsComplete, PcInv
<1> QED
  BY <1>1, <1>2, <1>3, <1>4, <1>5, <1>6, <1>7, <1>8, <1>9, <1>10 DEF Next

\* As long as no call failed, close publishes exactly the bytes given to
\* write, however they are cut into chunks (context/write.rs:136-203).
THEOREM NoByteLost ==
  ASSUME 0 \notin Sizes
  PROVE  Spec => []CleanIsComplete
<1>1. Init => CleanInv
  BY InitClean
<1>2. CleanInv /\ [Next]_vars => CleanInv'
  <2> SUFFICES ASSUME CleanInv, [Next]_vars PROVE CleanInv'
    OBVIOUS
  <2>1. SizeInv'
    BY StepSizes DEF CleanInv
  <2>2. CASE Next
    BY <2>1, <2>2, StepPc, StepComplete DEF CleanInv
  <2>3. CASE UNCHANGED vars
    BY <2>1, <2>3
    DEF CleanInv, PcInv, CleanIsComplete, Pipeline, vars, inner, ghost
  <2> QED
    BY <2>2, <2>3
<1>3. CleanInv => CleanIsComplete
  BY DEF CleanInv
<1> QED
  BY <1>1, <1>2, <1>3, PTL DEF Spec

---------------------------------------------------------------------------
(* The order of the bytes, whatever fails. *)

Rising(s) == \A i, j \in 1..Len(s) : i < j => s[i] < s[j]

Below(s, t) == \A i \in 1..Len(s), j \in 1..Len(t) : s[i] < t[j]

LEMMA FunctionIsSeq ==
  ASSUME NEW S, NEW n \in Nat, NEW s \in [1..n -> S]
  PROVE  s \in Seq(S)
BY SeqDef

LEMMA SeqWider ==
  ASSUME NEW S, NEW T, S \subseteq T
  PROVE  \A s \in Seq(S) : s \in Seq(T)
<1> SUFFICES ASSUME NEW s \in Seq(S) PROVE s \in Seq(T)
  OBVIOUS
<1>1. Len(s) \in Nat /\ s \in [1..Len(s) -> S]
  OBVIOUS
<1>2. s \in [1..Len(s) -> T]
  BY <1>1
<1> QED
  BY <1>1, <1>2, FunctionIsSeq

LEMMA RisingConcat ==
  \A s, t \in Seq(Nat) : Rising(s \o t) <=> Rising(s) /\ Rising(t) /\ Below(s, t)
<1> SUFFICES ASSUME NEW s \in Seq(Nat), NEW t \in Seq(Nat)
             PROVE  Rising(s \o t) <=> Rising(s) /\ Rising(t) /\ Below(s, t)
  OBVIOUS
<1> DEFINE u == s \o t
<1>1. /\ Len(s) \in Nat /\ Len(t) \in Nat /\ Len(u) = Len(s) + Len(t)
      /\ \A i \in 1..Len(s) : s[i] \in Nat /\ u[i] = s[i]
      /\ \A j \in 1..Len(t) : t[j] \in Nat /\ u[j + Len(s)] = t[j]
  OBVIOUS
<1> HIDE DEF u
<1>2. ASSUME Rising(u) PROVE Rising(s) /\ Rising(t) /\ Below(s, t)
  <2>1. ASSUME NEW i \in 1..Len(s), NEW j \in 1..Len(s), i < j PROVE s[i] < s[j]
    BY <1>1, <1>2, <2>1 DEF Rising
  <2>2. ASSUME NEW i \in 1..Len(t), NEW j \in 1..Len(t), i < j PROVE t[i] < t[j]
    <3>1. /\ i + Len(s) \in 1..Len(u) /\ j + Len(s) \in 1..Len(u)
          /\ i + Len(s) < j + Len(s)
      BY <1>1, <2>2
    <3> QED
      BY <1>1, <1>2, <3>1 DEF Rising
  <2>3. ASSUME NEW i \in 1..Len(s), NEW j \in 1..Len(t) PROVE s[i] < t[j]
    <3>1. i \in 1..Len(u) /\ j + Len(s) \in 1..Len(u) /\ i < j + Len(s)
      BY <1>1
    <3> QED
      BY <1>1, <1>2, <3>1 DEF Rising
  <2> QED
    BY <2>1, <2>2, <2>3 DEF Rising, Below
<1>3. ASSUME Rising(s), Rising(t), Below(s, t) PROVE Rising(u)
  <2> SUFFICES ASSUME NEW i \in 1..Len(u), NEW j \in 1..Len(u), i < j PROVE u[i] < u[j]
    BY DEF Rising
  <2>1. CASE j <= Len(s)
    <3>1. i \in 1..Len(s) /\ j \in 1..Len(s)
      BY <1>1, <2>1
    <3> QED
      BY <1>1, <1>3, <3>1 DEF Rising
  <2>2. CASE j > Len(s) /\ i <= Len(s)
    <3>1. j - Len(s) \in 1..Len(t) /\ (j - Len(s)) + Len(s) = j /\ i \in 1..Len(s)
      BY <1>1, <2>2
    <3> QED
      BY <1>1, <1>3, <3>1 DEF Below
  <2>3. CASE i > Len(s)
    <3>1. /\ j - Len(s) \in 1..Len(t) /\ (j - Len(s)) + Len(s) = j
          /\ i - Len(s) \in 1..Len(t) /\ (i - Len(s)) + Len(s) = i
          /\ i - Len(s) < j - Len(s)
      BY <1>1, <2>3
    <3> QED
      BY <1>1, <1>3, <3>1 DEF Rising
  <2> QED
    BY <1>1, <2>1, <2>2, <2>3
<1> QED
  BY <1>2, <1>3 DEF u

LEMMA BelowConcat ==
  \A s, t, u \in Seq(Nat) : Below(s \o t, u) => Below(s, u) /\ Below(t, u)
<1> SUFFICES ASSUME NEW s \in Seq(Nat), NEW t \in Seq(Nat), NEW u \in Seq(Nat),
                    Below(s \o t, u)
             PROVE  Below(s, u) /\ Below(t, u)
  OBVIOUS
<1>1. /\ Len(s) \in Nat /\ Len(t) \in Nat /\ Len(s \o t) = Len(s) + Len(t)
      /\ \A i \in 1..Len(s) : (s \o t)[i] = s[i]
      /\ \A j \in 1..Len(t) : (s \o t)[j + Len(s)] = t[j]
  OBVIOUS
<1>2. ASSUME NEW i \in 1..Len(s), NEW j \in 1..Len(u) PROVE s[i] < u[j]
  <2>1. i \in 1..Len(s \o t)
    BY <1>1
  <2> QED
    BY <1>1, <2>1 DEF Below
<1>3. ASSUME NEW i \in 1..Len(t), NEW j \in 1..Len(u) PROVE t[i] < u[j]
  <2>1. i + Len(s) \in 1..Len(s \o t)
    BY <1>1
  <2> QED
    BY <1>1, <2>1 DEF Below
<1> QED
  BY <1>2, <1>3 DEF Below

\* The parts of a sequence of members of S are such sequences.
LEMMA SplitType ==
  ASSUME NEW S
  PROVE  \A s, t \in Seq(Nat) : s \o t \in Seq(S) <=> s \in Seq(S) /\ t \in Seq(S)
<1> SUFFICES ASSUME NEW s \in Seq(Nat), NEW t \in Seq(Nat)
             PROVE  s \o t \in Seq(S) <=> s \in Seq(S) /\ t \in Seq(S)
  OBVIOUS
<1>1. /\ Len(s) \in Nat /\ Len(t) \in Nat /\ Len(s \o t) = Len(s) + Len(t)
      /\ \A i \in 1..Len(s) : (s \o t)[i] = s[i]
      /\ \A j \in 1..Len(t) : (s \o t)[j + Len(s)] = t[j]
  OBVIOUS
<1>2. ASSUME s \o t \in Seq(S) PROVE s \in Seq(S) /\ t \in Seq(S)
  <2>1. \A i \in 1..Len(s \o t) : (s \o t)[i] \in S
    BY <1>2
  <2>2. \A i \in 1..Len(s) : s[i] \in S
    BY <1>1, <2>1
  <2>3. \A j \in 1..Len(t) : t[j] \in S
    <3>1. \A j \in 1..Len(t) : j + Len(s) \in 1..Len(s \o t)
      BY <1>1
    <3> QED
      BY <1>1, <2>1, <3>1
  <2>4. s \in [1..Len(s) -> S] /\ t \in [1..Len(t) -> S]
    BY <2>2, <2>3
  <2>5. Len(s) \in Nat /\ Len(t) \in Nat
    BY <1>1
  <2> QED
    BY <2>4, <2>5, FunctionIsSeq
<1>3. ASSUME s \in Seq(S), t \in Seq(S) PROVE s \o t \in Seq(S)
  BY <1>3
<1> QED
  BY <1>2, <1>3

\* TypeOK, less what follows from the other parts, and the order.
OrderInv ==
  /\ Pipeline \in Seq(1..given) /\ Rising(Pipeline)
  /\ object = None \/ object \in Seq(1..MaxBytes)
  /\ begun \in 0..given /\ given \in 0..MaxBytes /\ acked \subseteq 1..given
  /\ failures \in 0..MaxFailures
  /\ pc \in Writing => flight # <<>>
  /\ pc \in {"idle", "loop", "close", "publish", "abort"} \cup Writing
  /\ ended \in {"open", "aborting", "closed", "aborted"}

FullInv == CleanInv /\ OrderInv

\* The four stretches of the pipeline.
LEMMA PipelineParts ==
  ASSUME Typed, Rising(Pipeline), NEW S, Pipeline \in Seq(S)
  PROVE  /\ {sent, flight, buffer, rest} \subseteq Seq(S)
         /\ Rising(sent) /\ Rising(flight) /\ Rising(buffer) /\ Rising(rest)
         /\ Rising(sent \o flight)
         /\ Below(sent \o flight, buffer) /\ Below(sent, buffer)
         /\ Below((sent \o flight) \o buffer, rest)
         /\ Rising((sent \o flight) \o buffer)
         /\ (sent \o flight) \o buffer \in Seq(S) /\ sent \o flight \in Seq(S)
<1> DEFINE a == sent \o flight
           b == a \o buffer
<1>1. /\ sent \in Seq(Nat) /\ flight \in Seq(Nat) /\ buffer \in Seq(Nat) /\ rest \in Seq(Nat)
      /\ a \in Seq(Nat) /\ b \in Seq(Nat)
  BY DEF Typed
<1>2. Rising(b) /\ Rising(rest) /\ Below(b, rest) /\ b \in Seq(S) /\ rest \in Seq(S)
  BY <1>1, RisingConcat, SplitType DEF Pipeline
<1>3. Rising(a) /\ Rising(buffer) /\ Below(a, buffer) /\ a \in Seq(S) /\ buffer \in Seq(S)
  BY <1>1, <1>2, RisingConcat, SplitType
<1>4. Rising(sent) /\ Rising(flight) /\ sent \in Seq(S) /\ flight \in Seq(S)
  BY <1>1, <1>3, RisingConcat, SplitType
<1>5. Below(sent, buffer)
  BY <1>1, <1>3, BelowConcat
<1> QED
  BY <1>2, <1>3, <1>4, <1>5

\* New bytes join at the end.
LEMMA OrderCall ==
  ASSUME FullInv, NEW n \in 0..MaxLen, WriteCall(n)
  PROVE  OrderInv'
<1> DEFINE s == sent \o buffer
           t == Bytes(given, given + n)
<1>1. /\ n \in Nat /\ given \in Nat /\ given' = given + n /\ given' \in 0..MaxBytes
      /\ begun' = given /\ flight = <<>> /\ rest = <<>> /\ rest' = t
      /\ UNCHANGED <<sent, flight, buffer, object, acked, failures, ended>>
      /\ pc' = "loop" /\ sent \in Seq(Nat) /\ buffer \in Seq(Nat)
  BY GeneratorAssumption
  DEF WriteCall, FullInv, CleanInv, PcInv, SizeInv, Typed, OrderInv, inner, setup, Writing
<1>2. t \in Seq(Nat) /\ Len(t) = n /\ \A k \in 1..n : t[k] = given + k
  <2>1. (given + n) - given = n /\ given <= given + n /\ given + n \in Nat
    BY <1>1
  <2> QED
    BY <1>1, <2>1, BytesType
<1>3. s \in Seq(Nat) /\ Pipeline = s /\ Pipeline' = s \o t
  BY <1>1, Empties, Joins DEF Pipeline
<1> HIDE DEF s, t
<1>4. Rising(s) /\ s \in Seq(1..given) /\ s \in Seq(1..given')
  BY <1>1, <1>3 DEF FullInv, OrderInv
<1>5. Rising(t)
  BY <1>1, <1>2 DEF Rising
<1>6. Below(s, t)
  <2>1. \A i \in 1..Len(s) : s[i] \in 1..given
    BY <1>4, ElementOfSeq
  <2> QED
    BY <1>1, <1>2, <2>1 DEF Below
<1>7. t \in Seq(1..given')
  <2>1. \A k \in 1..n : t[k] \in 1..given'
    BY <1>1, <1>2
  <2>2. t \in [1..n -> 1..given']
    BY <1>2, <2>1
  <2> QED
    BY <1>1, <2>2
<1>8. Rising(Pipeline') /\ Pipeline' \in Seq(1..given')
  BY <1>2, <1>3, <1>4, <1>5, <1>6, <1>7, RisingConcat
<1>9. acked \subseteq 1..given'
  BY <1>1 DEF FullInv, OrderInv
<1> QED
  BY <1>1, <1>8, <1>9 DEF FullInv, OrderInv, Writing

LEMMA OrderStep == ASSUME FullInv, Next PROVE OrderInv'
<1> USE DEF setup, inner, ghost
<1>0. /\ CleanInv /\ OrderInv /\ SizeInv /\ PcInv /\ Typed
      /\ sent \in Seq(Nat) /\ flight \in Seq(Nat) /\ buffer \in Seq(Nat) /\ rest \in Seq(Nat)
  BY DEF FullInv, CleanInv, SizeInv, Typed
<1>1. ASSUME NEW n \in 0..MaxLen, WriteCall(n) PROVE OrderInv'
  BY <1>1, OrderCall
<1>2. CASE WriteReturn
  <2>1. Pipeline' = Pipeline
    BY <1>2 DEF WriteReturn, Pipeline
  <2>2. (begun + 1)..given \subseteq 1..given
    BY <1>0 DEF OrderInv
  <2> QED
    BY <1>0, <1>2, <2>1, <2>2 DEF WriteReturn, OrderInv, Writing
<1>3. CASE WriteLoop
  <2>1. Pipeline' = Pipeline /\ pc = "loop" /\ rest # <<>>
    BY <1>0, <1>3, LoopKeeps DEF WriteLoop
  <2>2. /\ pc' \in {"loop"} \cup Writing
        /\ pc' \in Writing => flight' # <<>>
    <3>1. CASE WriteThrough
      BY <2>1, <3>1 DEF WriteThrough, Send, Writing
    <3>2. CASE Buffered \/ FillRoom
      BY <2>1, <3>2 DEF Buffered, FillRoom, Writing
    <3>3. CASE Joined
      <4>1. buffer \o rest # <<>>
        BY <1>0, <2>1
      <4> QED
        BY <2>1, <3>3, <4>1 DEF Joined, Send, Writing
    <3>4. CASE FlushFull
      <4>1. buffer # <<>>
        BY <1>0, <3>4 DEF FlushFull, Typed
      <4> QED
        BY <3>4, <4>1 DEF FlushFull, Send, Writing
    <3> QED
      BY <1>3, <3>1, <3>2, <3>3, <3>4 DEF WriteLoop
  <2> QED
    BY <1>0, <1>3, <2>1, <2>2 DEF WriteLoop, OrderInv
<1>4. CASE CloseCall
  <2>1. Pipeline' = Pipeline
    BY <1>4 DEF CloseCall, Pipeline
  <2> QED
    BY <1>0, <1>4, <2>1 DEF CloseCall, OrderInv, Writing
<1>5. CASE CloseLoop
  <2>1. flight = <<>> /\ rest' = rest /\ sent' = sent
    BY <1>0, <1>5 DEF CloseLoop, PcInv, Writing
  <2>2. CASE buffer # <<>>
    <3>1. flight' = buffer /\ buffer' = <<>>
      BY <1>5, <2>2 DEF CloseLoop, Send
    <3>2. Pipeline' = Pipeline
      BY <1>0, <2>1, <3>1, Empties, Joins DEF Pipeline
    <3> QED
      BY <1>0, <1>5, <2>2, <3>1, <3>2 DEF CloseLoop, OrderInv, Send, Writing
  <2>3. CASE buffer = <<>>
    <3>1. Pipeline' = Pipeline
      BY <1>5, <2>3 DEF CloseLoop, Pipeline
    <3> QED
      BY <1>0, <1>5, <2>3, <3>1 DEF CloseLoop, OrderInv, Send, Writing
  <2> QED
    BY <2>2, <2>3
<1>6. CASE AbortCall
  <2>1. /\ buffer' = <<>> /\ flight = <<>> /\ rest = <<>>
        /\ UNCHANGED <<sent, flight, rest, given, begun, acked, object, failures>>
        /\ pc' = "abort" /\ ended' = "aborting"
    BY <1>0, <1>6 DEF AbortCall, PcInv, Writing
  <2>2. Pipeline' = sent
    BY <1>0, <2>1, Empties DEF Pipeline
  <2>3. Rising(sent) /\ sent \in Seq(1..given)
    BY <1>0, PipelineParts DEF OrderInv
  <2> QED
    BY <1>0, <2>1, <2>2, <2>3 DEF OrderInv, Writing
<1>7. CASE InnerWritten
  <2>1. Pipeline' = Pipeline
    BY <1>0, <1>7, WrittenKeeps
  <2>2. pc' \in {"loop", "close"} /\ UNCHANGED <<given, begun, failures, acked, object, ended>>
    BY <1>7 DEF InnerWritten, Writing
  <2> QED
    BY <1>0, <2>1, <2>2 DEF OrderInv, Writing
<1>8. CASE InnerClosed
  <2>1. Pipeline' = Pipeline
    BY <1>8 DEF InnerClosed, Pipeline
  <2>2. sent \in Seq(1..given) /\ 1..given \subseteq 1..MaxBytes
    BY <1>0, PipelineParts, GeneratorAssumption DEF OrderInv
  <2>3. sent \in Seq(1..MaxBytes)
    BY <2>2, SeqWider
  <2> QED
    BY <1>0, <1>8, <2>1, <2>3 DEF InnerClosed, OrderInv, Writing
<1>9. CASE InnerAborted
  <2>1. Pipeline' = Pipeline
    BY <1>9 DEF InnerAborted, Pipeline
  <2> QED
    BY <1>0, <1>9, <2>1 DEF InnerAborted, OrderInv, Writing
<1>10. CASE InnerFailed
  <2>1. /\ flight' = <<>> /\ rest' = <<>> /\ buffer' = buffer /\ pc' = "idle"
        /\ sent' = sent \/ sent' = sent \o flight
        /\ UNCHANGED <<given, begun, acked, object, ended>>
        /\ failures < MaxFailures /\ failures' = failures + 1
    BY <1>10 DEF InnerFailed
  <2>2. sent' \in Seq(Nat)
    BY <1>0, <2>1, Joins
  <2>3. sent' \o buffer \in Seq(Nat)
    BY <1>0, <2>2, Joins
  <2>4. Pipeline' = sent' \o buffer
    BY <1>0, <2>1, <2>2, <2>3, Empties DEF Pipeline
  <2>5. /\ Rising(sent') /\ Rising(buffer) /\ Below(sent', buffer)
        /\ sent' \in Seq(1..given) /\ buffer \in Seq(1..given)
    BY <1>0, <2>1, PipelineParts DEF OrderInv
  <2>6. Rising(Pipeline') /\ Pipeline' \in Seq(1..given)
    BY <1>0, <2>2, <2>4, <2>5, RisingConcat
  <2>7. failures' \in 0..MaxFailures
    BY <1>0, <2>1, GeneratorAssumption DEF OrderInv
  <2> QED
    BY <1>0, <2>1, <2>6, <2>7 DEF OrderInv, Writing
<1> QED
  BY <1>1, <1>2, <1>3, <1>4, <1>5, <1>6, <1>7, <1>8, <1>9, <1>10 DEF Next

\* The whole invariant, for every size other than zero.
THEOREM Inductive ==
  ASSUME 0 \notin Sizes
  PROVE  Spec => []FullInv
<1>1. Init => FullInv
  <2> SUFFICES ASSUME Init PROVE FullInv
    OBVIOUS
  <2>1. CleanInv
    BY InitClean
  <2>2. Pipeline = <<>>
    BY Empties DEF Init, Pipeline
  <2> QED
    BY <2>1, <2>2, GeneratorAssumption DEF Init, FullInv, OrderInv, Rising, Writing
<1>2. FullInv /\ [Next]_vars => FullInv'
  <2> SUFFICES ASSUME FullInv, [Next]_vars PROVE FullInv'
    OBVIOUS
  <2>1. SizeInv'
    BY StepSizes DEF FullInv, CleanInv
  <2>2. CASE Next
    BY <2>1, <2>2, StepPc, StepComplete, OrderStep DEF FullInv, CleanInv
  <2>3. CASE UNCHANGED vars
    BY <2>1, <2>3
    DEF FullInv, CleanInv, PcInv, CleanIsComplete, OrderInv, Pipeline, vars, inner, ghost
  <2> QED
    BY <2>2, <2>3
<1> QED
  BY <1>1, <1>2, PTL DEF Spec

\* Every variable keeps its type, and a call of the inner writer is never made
\* with an empty chunk (context/write.rs:155-203).
THEOREM TypeCorrect ==
  ASSUME 0 \notin Sizes
  PROVE  Spec => []TypeOK
<1>1. FullInv => TypeOK
  <2> SUFFICES ASSUME FullInv PROVE TypeOK
    OBVIOUS
  <2>1. {sent, flight, buffer, rest} \subseteq Seq(1..given)
    BY PipelineParts DEF FullInv, CleanInv, SizeInv, OrderInv
  <2>2. 1..given \subseteq 1..MaxBytes
    BY GeneratorAssumption DEF FullInv, OrderInv
  <2>3. {buffer, rest, flight, sent} \subseteq Seq(1..MaxBytes)
    BY <2>1, <2>2, SeqWider
  <2> QED
    BY <2>3 DEF FullInv, CleanInv, SizeInv, Typed, PcInv, OrderInv, TypeOK
<1> QED
  BY <1>1, Inductive, PTL

\* No byte is written twice or overtakes another, whatever fails or is
\* dropped on the way (context/write.rs:136-203, writer.rs:108).
THEOREM BytesInOrder ==
  ASSUME 0 \notin Sizes
  PROVE  Spec => []InOrder
<1>1. FullInv => InOrder
  <2> SUFFICES ASSUME FullInv PROVE InOrder
    OBVIOUS
  <2>1. Pipeline \in Seq(1..given) /\ Rising(Pipeline)
    BY DEF FullInv, OrderInv
  <2>2. DOMAIN Pipeline = 1..Len(Pipeline)
    BY <2>1
  <2> QED
    BY <2>1, <2>2 DEF InOrder, Rising
<1> QED
  BY <1>1, Inductive, PTL
=============================================================================
