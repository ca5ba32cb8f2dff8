-------------------------- MODULE BufferStreamProofs --------------------------
(***************************************************************************)
(* Reading an object: for any range, chunk size, concurrency, prefetch and *)
(* any number of failures, seeks and dropped metadata() futures, the owner *)
(* is given the bytes of the object in sequence, the end of the stream is  *)
(* the end of the object, and what is fetched ahead is bounded.            *)
(*                                                                         *)
(* The argument.  Everything the stream still holds or will ask for (Held) *)
(* is a chain of ranges: the buffer, the pending chunks, the request that  *)
(* is awaited or the reader that is open, the ranges not asked for yet     *)
(* (OrderInv).  Every step but one moves a range along the chain, or out   *)
(* of it into `missed`; so the rest of the object, what was consumed, only *)
(* grows when the owner takes bytes from the front (CoverInv).  A stream   *)
(* says "eof" when the chain is empty: the loop that asks for chunks stops *)
(* with a task pending or with nothing left to ask for (PcInv).            *)
(***************************************************************************)
EXTENDS BufferStream, TaskQueueTheorems

\* A chunk, and a place that holds a range or nothing.
Parts == {r \in Ranges : r.from < r.to /\ r.to <= End}
Slots == {r \in Ranges : r = Nothing \/ (r.from <= r.to /\ r.to <= End)}

Object == Start..(End - 1)

SeqBytes(s) == UNION {Bytes(s[k]) : k \in 1..Len(s)}
Ordered(s) == \A i, j \in 1..Len(s) : i < j => s[i].to <= s[j].from

\* The plain variables.
Plain ==
  /\ concurrent \in Concurrents /\ chunk \in Chunks
  /\ owner \in {"async", "stream"}
  /\ done \in BOOLEAN /\ known \in BOOLEAN
  /\ pc \in {"idle", "stream", "open", "fill", "inline", "next", "meta", "gone", "panic"}
  /\ pos \in 0..(End - Start)
  /\ reply \in {"none", "data", "err", "eof"}
  /\ errors \in 0..MaxErrors /\ seeks \in 0..MaxSeeks /\ drops \in 0..MaxDrops

\* Every range lies in the object; a chunked reader never asks for an empty one.
RangeInv ==
  /\ offset \in Start..End
  /\ \/ remaining = End - offset
     \/ ~Chunked /\ remaining \in {0, Unknown}
  /\ cur \in Slots /\ opened \in Slots /\ buf \in Slots
  /\ Chunked => cur \in Parts \cup {Nothing} /\ opened \in Parts \cup {Nothing}
  /\ missed \subseteq Object

FailedTasks(p) == {k \in 1..Len(p.tasks) : p.tasks[k].st \in {"temp", "perm"}}

\* A request that runs took a free slot, or replaces one that failed.
QueueInv ==
  /\ SoundQueue(Parts, q)
  /\ ~Chunked => q = NewQueue
  /\ IsConcurrent(concurrent) => q.results = <<>>
  /\ ~IsConcurrent(concurrent) => q.tasks = <<>>
  /\ Len(q.results) <= 1
  /\ q.results # <<>> => pc = "next"
  /\ Len(q.tasks) <= concurrent + Prefetch
  /\ ~q.errored => q.completed = Cardinality(Finished(q))
  /\ Cardinality(FailedTasks(q)) <= errors
  /\ Cardinality(Running(q)) + Cardinality(FailedTasks(q)) <= concurrent + errors

Exhausted == ~HasRange /\ opened = Nothing /\ cur = Nothing

\* Where the future is, and what must hold there.
PcInv ==
  /\ cur # Nothing <=> pc \in {"open", "inline", "meta"}
  /\ cur # Nothing => opened = Nothing
  /\ pc \in {"stream", "open"} => ~Chunked
  /\ pc \in {"fill", "inline", "next"} => Chunked
  /\ pc = "inline" => ~IsConcurrent(concurrent) /\ ~q.errored
  /\ pc \in {"stream", "open", "fill", "inline", "next"} => IsEmpty(buf)
  /\ q.errored => IsEmpty(buf)
  /\ done => Exhausted
  /\ pc = "next" => q.errored \/ Pending(q) # <<>> \/ Exhausted
  /\ reply = "eof" => ~q.errored /\ Pending(q) = <<>> /\ Exhausted /\ IsEmpty(buf)

\* x is not beyond the first byte that is not in the buffer or the queue.
Before(x) == x <= cur.from /\ x <= opened.from /\ (HasRange => x <= offset)

\* What is ahead is in order.
OrderInv ==
  /\ Ordered(Pending(q))
  /\ \A k \in 1..Len(Pending(q)) : Before(Pending(q)[k].to)
  /\ ~IsEmpty(buf) => Before(buf.to)
  /\ ~IsEmpty(buf) => \A k \in 1..Len(Pending(q)) : buf.to <= Pending(q)[k].from
  /\ HasRange => /\ cur # Nothing => cur.to <= offset
                 /\ opened # Nothing => opened.to <= offset

Unasked == IF HasRange THEN offset..(End - 1) ELSE {}
Held == Bytes(buf) \cup SeqBytes(Pending(q)) \cup Bytes(cur) \cup Bytes(opened) \cup Unasked
Consumed == Object \ (Held \cup missed)

\* Every byte was consumed, is ahead or was missed; pos counts the first.
CoverInv ==
  ~q.errored =>
    /\ Held \subseteq Object
    /\ Held \cap missed = {}
    /\ \A c \in Consumed, a \in Held : c < a
    /\ Cardinality(Consumed) = pos

IInv == Plain /\ RangeInv /\ QueueInv /\ PcInv /\ OrderInv /\ CoverInv

---------------------------------------------------------------------------
(* Sequences of ranges. *)

\* A range put at the back adds its bytes.
LEMMA BytesAppend ==
  ASSUME NEW s \in Seq(Parts), NEW r \in Parts
  PROVE  SeqBytes(Append(s, r)) = SeqBytes(s) \cup Bytes(r)
<1> DEFINE t == Append(s, r)
<1>1. Len(t) = Len(s) + 1 /\ Len(s) \in Nat
  OBVIOUS
<1>2. \A k \in 1..Len(s) : t[k] = s[k]
  OBVIOUS
<1>3. t[Len(s) + 1] = r
  OBVIOUS
<1> HIDE DEF t
<1>4. 1..Len(t) = 1..Len(s) \cup {Len(s) + 1}
  BY <1>1
<1>5. SeqBytes(t) = SeqBytes(s) \cup Bytes(r)
  BY <1>2, <1>3, <1>4 DEF SeqBytes
<1> QED
  BY <1>5 DEF t

\* A range taken from the front takes its bytes along.
LEMMA BytesHead ==
  ASSUME NEW s \in Seq(Parts), s # <<>>
  PROVE  SeqBytes(s) = Bytes(Head(s)) \cup SeqBytes(Tail(s))
<1> DEFINE t == Tail(s)
<1>1. Len(t) = Len(s) - 1 /\ Len(s) \in Nat /\ Len(s) >= 1 /\ Head(s) = s[1]
  OBVIOUS
<1>2. \A k \in 1..Len(t) : t[k] = s[k + 1]
  OBVIOUS
<1> HIDE DEF t
<1>3. \A k \in 2..Len(s) : s[k] = t[k - 1] /\ k - 1 \in 1..Len(t)
  BY <1>1, <1>2
<1>4. ASSUME NEW b \in SeqBytes(s) PROVE b \in Bytes(Head(s)) \cup SeqBytes(t)
  <2>1. PICK k \in 1..Len(s) : b \in Bytes(s[k])
    BY <1>4 DEF SeqBytes
  <2>2. CASE k = 1
    BY <1>1, <2>1, <2>2
  <2>3. CASE k # 1
    BY <1>1, <1>3, <2>1, <2>3 DEF SeqBytes
  <2> QED
    BY <2>2, <2>3
<1>5. ASSUME NEW b \in SeqBytes(t) PROVE b \in SeqBytes(s)
  <2>1. PICK k \in 1..Len(t) : b \in Bytes(t[k])
    BY <1>5 DEF SeqBytes
  <2>2. k + 1 \in 1..Len(s) /\ t[k] = s[k + 1]
    BY <1>1, <1>2
  <2> QED
    BY <2>1, <2>2 DEF SeqBytes
<1>6. \A b \in Bytes(Head(s)) : b \in SeqBytes(s)
  BY <1>1 DEF SeqBytes
<1>7. SeqBytes(s) = Bytes(Head(s)) \cup SeqBytes(t)
  BY <1>4, <1>5, <1>6
<1> QED
  BY <1>7 DEF t

\* Order is kept at both ends.
LEMMA OrderedAppend ==
  ASSUME NEW s \in Seq(Parts), NEW r \in Parts, Ordered(s),
         \A k \in 1..Len(s) : s[k].to <= r.from
  PROVE  /\ Append(s, r) \in Seq(Parts)
         /\ Ordered(Append(s, r))
         /\ \A k \in 1..Len(Append(s, r)) :
              Append(s, r)[k] = r \/ \E j \in 1..Len(s) : Append(s, r)[k] = s[j]
<1> DEFINE t == Append(s, r)
<1>1. Len(t) = Len(s) + 1 /\ Len(s) \in Nat /\ t \in Seq(Parts)
  OBVIOUS
<1>2. \A k \in 1..Len(s) : t[k] = s[k]
  OBVIOUS
<1>3. t[Len(s) + 1] = r
  OBVIOUS
<1> HIDE DEF t
<1>4. \A k \in 1..Len(t) : t[k] = r \/ \E j \in 1..Len(s) : t[k] = s[j]
  BY <1>1, <1>2, <1>3
<1>5. Ordered(t)
  <2> SUFFICES ASSUME NEW i \in 1..Len(t), NEW j \in 1..Len(t), i < j
               PROVE  t[i].to <= t[j].from
    BY DEF Ordered
  <2>1. i \in 1..Len(s)
    BY <1>1
  <2>2. CASE j = Len(s) + 1
    BY <1>2, <1>3, <2>1, <2>2
  <2>3. CASE j \in 1..Len(s)
    BY <1>2, <2>1, <2>3 DEF Ordered
  <2> QED
    BY <1>1, <2>2, <2>3
<1> QED
  BY <1>1, <1>4, <1>5 DEF t

LEMMA OrderedTail ==
  ASSUME NEW s \in Seq(Parts), s # <<>>, Ordered(s)
  PROVE  /\ Tail(s) \in Seq(Parts) /\ Head(s) \in Parts /\ Head(s) = s[1] /\ 1 \in 1..Len(s)
         /\ Ordered(Tail(s))
         /\ \A k \in 1..Len(Tail(s)) :
              /\ Head(s).to <= Tail(s)[k].from
              /\ \E j \in 1..Len(s) : Tail(s)[k] = s[j]
<1> DEFINE t == Tail(s)
<1>1. /\ Len(t) = Len(s) - 1 /\ Len(s) \in Nat /\ Len(s) >= 1
      /\ Head(s) = s[1] /\ t \in Seq(Parts) /\ Head(s) \in Parts
  OBVIOUS
<1>2. \A k \in 1..Len(t) : t[k] = s[k + 1]
  OBVIOUS
<1> HIDE DEF t
<1>3. \A k \in 1..Len(t) : k + 1 \in 1..Len(s)
  BY <1>1
<1>4. Ordered(t)
  BY <1>1, <1>2, <1>3 DEF Ordered
<1>5. \A k \in 1..Len(t) : Head(s).to <= t[k].from
  BY <1>1, <1>2, <1>3 DEF Ordered
<1>6. \A k \in 1..Len(t) : \E j \in 1..Len(s) : t[k] = s[j]
  BY <1>2, <1>3
<1> QED
  BY <1>1, <1>4, <1>5, <1>6 DEF t

---------------------------------------------------------------------------
(* The requests that failed and were not looked at yet. *)

LEMMA FailedFinite ==
  ASSUME NEW S, NEW p \in QueueType(S)
  PROVE  /\ IsFiniteSet(FailedTasks(p)) /\ Cardinality(FailedTasks(p)) \in Nat
         /\ p.tasks = <<>> => Cardinality(FailedTasks(p)) = 0
<1>1. Len(p.tasks) \in Nat
  BY PendingType, LenProperties
<1>2. IsFiniteSet(1..Len(p.tasks)) /\ FailedTasks(p) \in SUBSET (1..Len(p.tasks))
  BY <1>1, FS_Interval DEF FailedTasks
<1>3. IsFiniteSet(FailedTasks(p))
  BY <1>2, FS_Subset
<1>4. p.tasks = <<>> => FailedTasks(p) = {}
  BY DEF FailedTasks
<1> QED
  BY <1>3, <1>4, FS_CardinalityType, FS_EmptySet

LEMMA FailedPush ==
  ASSUME NEW S, NEW p \in QueueType(S), NEW i \in S
  PROVE  FailedTasks(PushTask(p, i)) = FailedTasks(p)
<1> DEFINE t == PushTask(p, i).tasks
<1>1. p.tasks \in Seq(TaskType(S)) /\ NewTask(i) \in TaskType(S) /\ NewTask(i).st = "running"
  BY DEF QueueType, NewTask, TaskType
<1>2. t = Append(p.tasks, NewTask(i))
  BY DEF PushTask, QueueType
<1>3. /\ Len(t) = Len(p.tasks) + 1 /\ Len(p.tasks) \in Nat
      /\ t[Len(p.tasks) + 1].st = "running"
      /\ \A k \in 1..Len(p.tasks) : t[k] = p.tasks[k]
  BY <1>1, <1>2
<1> HIDE DEF t
<1>4. {k \in 1..Len(t) : t[k].st \in {"temp", "perm"}} = FailedTasks(p)
  BY <1>3 DEF FailedTasks
<1> QED
  BY <1>4 DEF FailedTasks, t

LEMMA FailedResolve ==
  ASSUME NEW S, NEW p \in QueueType(S), NEW k \in Running(p), NEW o \in Outcomes
  PROVE  Cardinality(FailedTasks(Resolve(p, k, o))) =
           Cardinality(FailedTasks(p)) + (IF o = "ok" THEN 0 ELSE 1)
<1> DEFINE r == Resolve(p, k, o)
           t == [p.tasks[k] EXCEPT !.st = o]
<1>1. p.tasks \in Seq(TaskType(S)) /\ k \in 1..Len(p.tasks) /\ p.tasks[k].st = "running"
  BY PendingType DEF Running
<1>2. p.tasks[k] \in TaskType(S)
  BY <1>1, ElementOfSeq
<1>3. t \in TaskType(S) /\ t.st = o
  BY <1>2 DEF TaskType, Outcomes
<1>4. r.tasks = [p.tasks EXCEPT ![k] = t]
  BY DEF Resolve, QueueType
<1> HIDE DEF t, r
<1>5. /\ Len(r.tasks) = Len(p.tasks)
      /\ \A j \in 1..Len(p.tasks) : r.tasks[j] = IF j = k THEN t ELSE p.tasks[j]
  BY <1>1, <1>3, <1>4, ExceptSeq
<1>6. k \notin FailedTasks(p)
  BY <1>1 DEF FailedTasks
<1>7. CASE o = "ok"
  <2>1. FailedTasks(r) = FailedTasks(p)
    BY <1>1, <1>3, <1>5, <1>7 DEF FailedTasks
  <2> QED
    BY <1>7, <2>1, FailedFinite DEF r
<1>8. CASE o # "ok"
  <2>1. FailedTasks(r) = FailedTasks(p) \cup {k}
    BY <1>1, <1>3, <1>5, <1>8 DEF FailedTasks, Outcomes
  <2> QED
    BY <1>6, <1>8, <2>1, FailedFinite, FS_AddElement DEF r
<1> QED
  BY <1>7, <1>8

LEMMA FailedTake ==
  ASSUME NEW S, NEW p \in QueueType(S), FrontReady(p)
  PROVE  Cardinality(FailedTasks(FrontToOwner(p))) <= Cardinality(FailedTasks(p))
<1> DEFINE r == FrontToOwner(p)
           f == [k \in FailedTasks(r) |-> k + 1]
<1>1. p.tasks \in Seq(TaskType(S)) /\ p.tasks # <<>>
  BY PendingType DEF FrontReady
<1>2. r.tasks = Tail(p.tasks)
  BY DEF FrontToOwner, PopFront, Retrieve, QueueType
<1>3. /\ Len(r.tasks) = Len(p.tasks) - 1 /\ Len(p.tasks) \in Nat \ {0}
      /\ \A k \in 1..(Len(p.tasks) - 1) : r.tasks[k] = p.tasks[k + 1]
  BY <1>1, <1>2, HeadTailProperties, EmptySeq
<1> HIDE DEF r
<1>4. f \in [FailedTasks(r) -> FailedTasks(p)]
  BY <1>3 DEF FailedTasks
<1>5. \A a, b \in FailedTasks(r) : f[a] = f[b] => a = b
  BY DEF FailedTasks
<1>6. f \in Injection(FailedTasks(r), FailedTasks(p))
  BY <1>4, <1>5 DEF Injection, IsInjective
<1>7. IsFiniteSet(FailedTasks(p))
  BY FailedFinite
<1>8. Cardinality(FailedTasks(r)) <= Cardinality(FailedTasks(p))
  BY <1>6, <1>7, FS_Injection
<1> QED
  BY <1>8 DEF r

LEMMA FailedRelaunch ==
  ASSUME NEW S, NEW p \in QueueType(S), FrontReady(p), p.tasks[1].st = "temp"
  PROVE  Cardinality(FailedTasks(FrontError(p))) = Cardinality(FailedTasks(p)) - 1
<1> DEFINE r == FrontError(p)
           t == NewTask(p.tasks[1].input)
<1>1. p.tasks \in Seq(TaskType(S)) /\ 1 \in 1..Len(p.tasks)
  BY PendingType, FrontCounted DEF Finished
<1>2. p.tasks[1] \in TaskType(S)
  BY <1>1, ElementOfSeq
<1>3. t \in TaskType(S) /\ t.st = "running"
  BY <1>2 DEF TaskType, NewTask
<1>4. r.tasks = [p.tasks EXCEPT ![1] = t]
  BY <1>1 DEF FrontError, Relaunch, Retrieve, QueueType
<1> HIDE DEF t, r
<1>5. /\ Len(r.tasks) = Len(p.tasks)
      /\ \A j \in 1..Len(p.tasks) : r.tasks[j] = IF j = 1 THEN t ELSE p.tasks[j]
  BY <1>1, <1>3, <1>4, ExceptSeq
<1>6. FailedTasks(r) = FailedTasks(p) \ {1} /\ 1 \in FailedTasks(p)
  BY <1>1, <1>3, <1>5 DEF FailedTasks
<1> QED
  BY <1>6, FailedFinite, FS_RemoveElement DEF r

---------------------------------------------------------------------------
(* Ranges. *)

\* Every constant is a number.
LEMMA Numbers ==
  ASSUME Plain
  PROVE  /\ Start \in Nat /\ End \in Nat /\ Start <= End /\ Prefetch \in Nat
         /\ concurrent \in Nat /\ concurrent >= 1 /\ chunk \in Nat
         /\ errors \in Nat /\ pos \in Nat /\ seeks \in Nat /\ drops \in Nat
         /\ MaxErrors \in Nat /\ MaxSeeks \in Nat /\ MaxDrops \in Nat
BY StreamAssumption DEF Plain

\* What it means to be a chunk or a place.
LEMMA SlotFacts ==
  ASSUME Plain
  PROVE  /\ \A r \in Slots : /\ r \in Ranges /\ r.from \in Nat /\ r.to \in Nat
                             /\ Start <= r.from /\ r.from <= End + 1
                             /\ r.from <= r.to /\ r.to <= End + 1
                             /\ r # Nothing => r.to <= End
                             /\ Bytes(r) \subseteq Object
         /\ Parts \subseteq Slots
         /\ \A r \in Parts : ~IsEmpty(r) /\ r # Nothing /\ r.to <= End /\ r.from < r.to
         /\ Nothing \in Slots /\ IsEmpty(Nothing) /\ Bytes(Nothing) = {}
         /\ Nothing.from = End + 1 /\ Nothing.to = End + 1
         /\ \A r \in Slots : IsEmpty(r) => Bytes(r) = {}
<1>1. /\ Nothing.from = End + 1 /\ Nothing.to = End + 1
      /\ End + 1 \in Offsets
  BY Numbers DEF Nothing, Offsets
<1>2. Nothing \in Ranges
  BY <1>1 DEF Nothing, Ranges
<1>3. \A r \in Ranges : /\ r.from \in Nat /\ r.to \in Nat
                        /\ Start <= r.from /\ r.from <= End + 1 /\ r.to <= End + 1
  BY Numbers DEF Ranges, Offsets
<1>4. \A r \in Slots : /\ r \in Ranges /\ r.from <= r.to
                       /\ r # Nothing => r.to <= End
  BY <1>1, Numbers DEF Slots
<1>5. \A r \in Slots : Bytes(r) \subseteq Object
  BY <1>1, <1>3, <1>4, Numbers DEF Bytes, Object
<1>6. Parts \subseteq Slots
  BY <1>3 DEF Parts, Slots
<1>7. \A r \in Parts : r # Nothing /\ ~IsEmpty(r) /\ r.to <= End /\ r.from < r.to
  BY <1>1, <1>3 DEF Parts, IsEmpty
<1>8. Nothing \in Slots /\ IsEmpty(Nothing) /\ Bytes(Nothing) = {}
  BY <1>1, <1>2, Numbers DEF Slots, IsEmpty, Bytes
<1>9. \A r \in Slots : IsEmpty(r) => Bytes(r) = {}
  BY <1>3, <1>4 DEF IsEmpty, Bytes
<1> QED
  BY <1>1, <1>3, <1>4, <1>5, <1>6, <1>7, <1>8, <1>9

\* A range of the object is a place; a nonempty one is a chunk.
LEMMA MakeSlot ==
  ASSUME Plain, NEW a \in Nat, NEW b \in Nat, Start <= a, a <= b, b <= End
  PROVE  /\ [from |-> a, to |-> b] \in Slots
         /\ [from |-> a, to |-> b] # Nothing
         /\ a < b => [from |-> a, to |-> b] \in Parts
<1>1. a \in Offsets /\ b \in Offsets
  BY Numbers DEF Offsets
<1>2. [from |-> a, to |-> b] \in Ranges
  BY <1>1 DEF Ranges
<1>3. [from |-> a, to |-> b].from # Nothing.from
  BY Numbers DEF Nothing
<1> QED
  BY <1>2, <1>3 DEF Slots, Parts

\* next_range: the range is taken from the front of what was not asked for.
LEMMA NextRangeFacts ==
  ASSUME Plain, RangeInv, HasRange, AdvanceRange
  PROVE  /\ NextRange \in Slots /\ NextRange # Nothing
         /\ Chunked => NextRange \in Parts
         /\ NextRange.from = offset
         /\ offset' \in Start..End
         /\ remaining' = End - offset' \/ (~Chunked /\ remaining' \in {0, Unknown})
         /\ HasRange' => NextRange.to = offset' /\ offset <= offset'
         /\ Unasked = Bytes(NextRange) \cup Unasked'
<1>0. offset \in Nat /\ Start <= offset /\ offset <= End
  BY Numbers DEF RangeInv
<1> DEFINE b == NextRange.to
<1>1. NextRange = [from |-> offset, to |-> b]
  BY DEF NextRange
<1>2. CASE remaining = Unknown
  <2>1. b = End /\ offset' = offset /\ remaining' = 0 /\ ~Chunked
    BY <1>0, <1>2, Numbers DEF NextRange, AdvanceRange, RangeInv, Unknown
  <2> HIDE DEF b
  <2>2. /\ NextRange \in Slots /\ NextRange # Nothing
        /\ NextRange.from = offset /\ NextRange.to = End
    BY <1>0, <1>1, <2>1, MakeSlot, Numbers
  <2>3. Unasked = Bytes(NextRange) \cup Unasked'
    BY <2>1, <2>2 DEF Unasked, Bytes, HasRange
  <2> QED
    BY <1>0, <2>1, <2>2, <2>3 DEF HasRange
<1>3. CASE remaining # Unknown
  <2>1. remaining = End - offset /\ remaining \in Nat /\ remaining > 0
    BY <1>0, <1>3, Numbers DEF RangeInv, HasRange
  <2>2. /\ b \in Nat /\ offset < b /\ b <= End
        /\ ~Chunked => b = End
    BY <1>0, <1>3, <2>1, Numbers DEF NextRange, Chunked, Min2
  <2>3. offset' = b /\ remaining' = End - b
    BY <1>0, <1>1, <1>3, <2>1, <2>2, Numbers DEF AdvanceRange
  <2> HIDE DEF b
  <2>4. /\ NextRange \in Parts /\ NextRange \in Slots /\ NextRange # Nothing
        /\ NextRange.from = offset /\ NextRange.to = b
    BY <1>0, <1>1, <2>2, MakeSlot, Numbers
  <2>5. Unasked = Bytes(NextRange) \cup Unasked'
    BY <1>0, <2>2, <2>3, <2>4, Numbers DEF Unasked, Bytes, HasRange
  <2> QED
    BY <1>0, <2>2, <2>3, <2>4, <2>5, Numbers
<1> QED
  BY <1>2, <1>3

---------------------------------------------------------------------------
(* What the parts of the invariant need to be kept. *)

\* A step that leaves the queue alone.
LEMMA QueueKept ==
  ASSUME Plain, QueueInv, q' = q, concurrent' = concurrent, chunk' = chunk,
         errors' \in Nat, errors <= errors', q.results # <<>> => pc' = "next"
  PROVE  QueueInv'
<1>1. q \in QueueType(Parts)
  BY DEF QueueInv, SoundQueue
<1>2. Cardinality(FailedTasks(q)) \in Nat /\ Cardinality(Running(q)) \in Nat
  BY <1>1, FailedFinite, FinishedFinite
<1>3. /\ Cardinality(FailedTasks(q)) <= errors'
      /\ Cardinality(Running(q)) + Cardinality(FailedTasks(q)) <= concurrent + errors'
  <2>1. errors \in Nat /\ concurrent \in Nat
    BY Numbers
  <2>2. /\ Cardinality(FailedTasks(q)) <= errors
        /\ Cardinality(Running(q)) + Cardinality(FailedTasks(q)) <= concurrent + errors
    BY DEF QueueInv
  <2> QED
    BY <1>2, <2>1, <2>2
<1> QED
  BY <1>3 DEF QueueInv, Chunked

\* The pending chunks are chunks.
LEMMA PendingParts ==
  ASSUME QueueInv
  PROVE  /\ q \in QueueType(Parts) /\ Pending(q) \in Seq(Parts) /\ Len(Pending(q)) \in Nat
         /\ q.results \in Seq(Parts) /\ q.tasks \in Seq(TaskType(Parts))
         /\ \A k \in 1..Len(Pending(q)) : Pending(q)[k] \in Parts
         /\ Len(Pending(q)) = Len(q.results) + Len(q.tasks)
         /\ q.errored => Pending(q) = <<>>
<1>1. q \in QueueType(Parts)
  BY DEF QueueInv, SoundQueue
<1>2. /\ Pending(q) \in Seq(Parts) /\ TaskInputs(q) \in Seq(Parts)
      /\ q.results \in Seq(Parts) /\ q.tasks \in Seq(TaskType(Parts))
      /\ Len(TaskInputs(q)) = Len(q.tasks)
  BY <1>1, PendingType
<1>3. Len(Pending(q)) = Len(q.results) + Len(q.tasks)
  <2>1. Len(q.results \o TaskInputs(q)) = Len(q.results) + Len(TaskInputs(q))
    BY <1>2, ConcatProperties
  <2> QED
    BY <1>2, <2>1 DEF Pending
<1>4. \A k \in 1..Len(Pending(q)) : Pending(q)[k] \in Parts
  BY <1>2, ElementOfSeq
<1>5. Len(q.results) \in Nat /\ Len(q.tasks) \in Nat /\ Len(Pending(q)) \in Nat
  BY <1>2, LenProperties
<1>6. q.errored => Pending(q) = <<>>
  <2> SUFFICES ASSUME q.errored PROVE Pending(q) = <<>>
    OBVIOUS
  <2>1. q.results = <<>> /\ q.tasks = <<>>
    BY DEF QueueInv, SoundQueue
  <2>2. Len(Pending(q)) = 0
    BY <1>3, <2>1
  <2> QED
    BY <1>2, <2>2, EmptySeq
<1> QED
  BY <1>1, <1>2, <1>3, <1>4, <1>5, <1>6

\* A step that consumes nothing.
LEMMA CoverKept ==
  ASSUME CoverInv, ~q'.errored => ~q.errored, pos' = pos,
         ~q'.errored => /\ Held' \subseteq Held
                        /\ Held' \cup missed' = Held \cup missed
                        /\ Held' \cap missed' = {}
  PROVE  CoverInv'
<1> SUFFICES ASSUME ~q'.errored PROVE CoverInv'
  BY DEF CoverInv
<1>1. Consumed' = Consumed
  BY DEF Consumed, Object
<1>2. /\ Held \subseteq Object
      /\ \A c \in Consumed, a \in Held : c < a
      /\ Cardinality(Consumed) = pos
  BY DEF CoverInv
<1>3. /\ Held' \subseteq Object
      /\ \A c \in Consumed', a \in Held' : c < a
      /\ Cardinality(Consumed') = pos'
  BY <1>1, <1>2
<1> QED
  BY <1>3 DEF CoverInv, Object

\* The awaited range holds no byte that is elsewhere.
LEMMA CurApart ==
  ASSUME IInv
  PROVE  Bytes(cur) \cap (Bytes(buf) \cup SeqBytes(Pending(q)) \cup Bytes(opened) \cup Unasked) = {}
<1>0. Plain /\ RangeInv /\ QueueInv /\ PcInv /\ OrderInv
  BY DEF IInv
<1>1. CASE cur = Nothing
  BY <1>0, <1>1, SlotFacts
<1>2. CASE cur # Nothing
  <2>1. Bytes(opened) = {}
    BY <1>0, <1>2, SlotFacts DEF PcInv
  <2>2. cur \in Slots /\ buf \in Slots
    BY <1>0 DEF RangeInv
  <2>3. cur.from \in Nat /\ cur.to \in Nat /\ buf.from \in Nat /\ buf.to \in Nat
    BY <1>0, <2>2, SlotFacts
  <2>4. Bytes(cur) \cap Bytes(buf) = {}
    <3>1. CASE IsEmpty(buf)
      BY <1>0, <2>2, <3>1, SlotFacts
    <3>2. CASE ~IsEmpty(buf)
      <4>1. buf.to <= cur.from
        BY <1>0, <3>2 DEF OrderInv, Before
      <4> QED
        BY <2>3, <4>1 DEF Bytes
    <3> QED
      BY <3>1, <3>2
  <2>5. Bytes(cur) \cap SeqBytes(Pending(q)) = {}
    <3> SUFFICES ASSUME NEW k \in 1..Len(Pending(q)) PROVE Bytes(cur) \cap Bytes(Pending(q)[k]) = {}
      BY DEF SeqBytes
    <3>1. Pending(q)[k].to <= cur.from
      BY <1>0 DEF OrderInv, Before
    <3>2. Pending(q)[k].from \in Nat /\ Pending(q)[k].to \in Nat
      BY <1>0, PendingParts, SlotFacts
    <3> QED
      BY <2>3, <3>1, <3>2 DEF Bytes
  <2>6. Bytes(cur) \cap Unasked = {}
    <3>1. HasRange => cur.to <= offset
      BY <1>0, <1>2 DEF OrderInv
    <3>2. offset \in Nat
      BY <1>0, Numbers DEF RangeInv
    <3> QED
      BY <2>3, <3>1, <3>2, Numbers DEF Bytes, Unasked
  <2> QED
    BY <2>1, <2>4, <2>5, <2>6
<1> QED
  BY <1>1, <1>2

\* A request that fails is given up: its bytes are missed.
LEMMA CurMissed ==
  ASSUME IInv, Miss(cur), cur' = Nothing, opened' = opened, buf' = buf, q' = q,
         offset' = offset, remaining' = remaining, pos' = pos, chunk' = chunk
  PROVE  RangeInv' /\ OrderInv' /\ CoverInv'
<1>0. Plain /\ RangeInv /\ QueueInv /\ PcInv /\ OrderInv /\ CoverInv
  BY DEF IInv
<1>1. Nothing \in Slots /\ Bytes(Nothing) = {} /\ Nothing.from = End + 1 /\ Bytes(cur) \subseteq Object
  BY <1>0, SlotFacts DEF RangeInv
<1>2. RangeInv'
  BY <1>0, <1>1 DEF RangeInv, Miss, Chunked, Slots, Parts, Ranges, Offsets, Nothing, Object, Unknown
<1>3. \A k \in 1..Len(Pending(q)) : Pending(q)[k].to <= End + 1
  BY <1>0, PendingParts, SlotFacts
<1>4. buf.to <= End + 1
  BY <1>0, SlotFacts DEF RangeInv
<1>5. OrderInv'
  BY <1>0, <1>1, <1>3, <1>4 DEF OrderInv, Before, HasRange, IsEmpty, Nothing
<1>6. /\ Held' = Bytes(buf) \cup SeqBytes(Pending(q)) \cup Bytes(opened) \cup Unasked
      /\ Held = Bytes(cur) \cup (Bytes(buf) \cup SeqBytes(Pending(q)) \cup Bytes(opened) \cup Unasked)
      /\ missed' = missed \cup Bytes(cur)
  BY <1>1 DEF Held, Unasked, HasRange, Miss, Nothing, Bytes
<1>7. ~q'.errored => Held \cap missed = {}
  BY <1>0 DEF CoverInv
<1>8. CoverInv'
  BY <1>0, <1>6, <1>7, CurApart, CoverKept
<1> QED
  BY <1>2, <1>5, <1>8

\* The next input is the front of what is neither fetched nor under way.
LEMMA TakeInputFacts ==
  ASSUME IInv, cur = Nothing, HasInput, TakeInput
  PROVE  /\ Input \in Slots /\ Input # Nothing
         /\ Chunked => Input \in Parts
         /\ opened' = Nothing
         /\ offset' \in Start..End
         /\ remaining' = End - offset' \/ (~Chunked /\ remaining' \in {0, Unknown})
         /\ HasRange' => Input.to <= offset'
         /\ \A x \in Nat : Before(x) => x <= Input.from /\ (HasRange' => x <= offset')
         /\ Bytes(opened) \cup Unasked = Bytes(Input) \cup Unasked'
<1>0. Plain /\ RangeInv /\ PcInv /\ OrderInv
  BY DEF IInv
<1>1. CASE opened # Nothing
  <2>1. Input = opened /\ opened' = Nothing /\ offset' = offset /\ remaining' = remaining
    BY <1>1 DEF Input, TakeInput
  <2>2. opened \in Slots /\ (Chunked => opened \in Parts) /\ offset \in Start..End
    BY <1>0, <1>1 DEF RangeInv
  <2>3. HasRange' => opened.to <= offset
    BY <1>0, <1>1, <2>1 DEF OrderInv, HasRange
  <2>4. Unasked' = Unasked /\ HasRange' = HasRange
    BY <2>1 DEF Unasked, HasRange
  <2>5. \A x \in Nat : Before(x) => x <= Input.from /\ (HasRange' => x <= offset')
    BY <2>1, <2>4 DEF Before
  <2> QED
    BY <1>0, <1>1, <2>1, <2>2, <2>3, <2>4, <2>5 DEF RangeInv
<1>2. CASE opened = Nothing
  <2>1. Input = NextRange /\ opened' = Nothing /\ AdvanceRange /\ HasRange
    BY <1>2 DEF Input, TakeInput, HasInput
  <2>2. /\ NextRange \in Slots /\ NextRange # Nothing
        /\ Chunked => NextRange \in Parts
        /\ NextRange.from = offset
        /\ offset' \in Start..End
        /\ remaining' = End - offset' \/ (~Chunked /\ remaining' \in {0, Unknown})
        /\ HasRange' => NextRange.to = offset' /\ offset <= offset'
        /\ Unasked = Bytes(NextRange) \cup Unasked'
    BY <1>0, <2>1, NextRangeFacts
  <2>3. Bytes(opened) = {}
    BY <1>0, <1>2, SlotFacts
  <2>4. offset \in Nat /\ offset' \in Nat
    BY <1>0, <2>2, Numbers DEF RangeInv
  <2>5. \A x \in Nat : Before(x) => x <= NextRange.from /\ (HasRange' => x <= offset')
    BY <2>1, <2>2, <2>4 DEF Before
  <2>6. HasRange' => NextRange.to <= offset'
    BY <2>2, <2>4
  <2> QED
    BY <2>1, <2>2, <2>3, <2>5, <2>6
<1> QED
  BY <1>1, <1>2

\* A range is asked for and awaited.
LEMMA InputToCur ==
  ASSUME IInv, cur = Nothing, HasInput, TakeInput, cur' = Input, q' = q, buf' = buf,
         missed' = missed, pos' = pos, chunk' = chunk
  PROVE  RangeInv' /\ OrderInv' /\ CoverInv'
<1>0. Plain /\ RangeInv /\ QueueInv /\ PcInv /\ OrderInv /\ CoverInv
  BY DEF IInv
<1>1. /\ Input \in Slots /\ Input # Nothing
      /\ Chunked => Input \in Parts
      /\ opened' = Nothing
      /\ offset' \in Start..End
      /\ remaining' = End - offset' \/ (~Chunked /\ remaining' \in {0, Unknown})
      /\ HasRange' => Input.to <= offset'
      /\ \A x \in Nat : Before(x) => x <= Input.from /\ (HasRange' => x <= offset')
      /\ Bytes(opened) \cup Unasked = Bytes(Input) \cup Unasked'
  BY <1>0, TakeInputFacts
<1>2. /\ Nothing \in Slots /\ Bytes(Nothing) = {} /\ Nothing.from = End + 1
      /\ buf \in Slots /\ buf.to \in Nat /\ buf.to <= End + 1
  BY <1>0, SlotFacts DEF RangeInv
<1>3. \A k \in 1..Len(Pending(q)) : Pending(q)[k].to \in Nat /\ Pending(q)[k].to <= End + 1
  BY <1>0, PendingParts, SlotFacts
<1> HIDE DEF Input, Nothing
<1>4. RangeInv'
  BY <1>0, <1>1, <1>2 DEF RangeInv, Chunked, Slots, Parts, Ranges, Offsets, Object, Unknown
<1>5. \A x \in Nat : Before(x) /\ x <= End + 1 => Before(x)'
  BY <1>1, <1>2 DEF Before
<1>6. OrderInv'
  <2>1. \A k \in 1..Len(Pending(q)) : Before(Pending(q)[k].to)'
    BY <1>0, <1>3, <1>5 DEF OrderInv
  <2>2. ~IsEmpty(buf) => Before(buf.to)'
    BY <1>0, <1>2, <1>5 DEF OrderInv
  <2> QED
    BY <1>0, <1>1, <2>1, <2>2 DEF OrderInv, IsEmpty
<1>7. Held' = Held
  BY <1>1, <1>2 DEF Held, Bytes
<1>8. CoverInv'
  BY <1>0, <1>7, CoverKept DEF CoverInv
<1> QED
  BY <1>4, <1>6, <1>8

---------------------------------------------------------------------------
(* The steps. *)

\* The first states.
LEMMA InitInv == Init => IInv
<1> SUFFICES ASSUME Init PROVE IInv
  OBVIOUS
<1>1. Plain
  <2>1. done \in BOOLEAN /\ known \in BOOLEAN
    BY DEF Init
  <2>2. 0 \in 0..(End - Start) /\ 0 \in 0..MaxErrors /\ 0 \in 0..MaxSeeks /\ 0 \in 0..MaxDrops
    BY StreamAssumption
  <2> QED
    BY <2>1, <2>2 DEF Init, Plain
<1>2. /\ offset = Start /\ opened = Nothing /\ q = NewQueue /\ cur = Nothing
      /\ buf = Nothing /\ pos = 0 /\ missed = {} /\ errors = 0 /\ pc = "idle"
      /\ reply = "none" /\ ~done
  BY DEF Init
<1>3. /\ Nothing \in Slots /\ IsEmpty(Nothing) /\ Bytes(Nothing) = {}
  BY <1>1, SlotFacts
<1>4. /\ SoundQueue(Parts, NewQueue) /\ Pending(NewQueue) = <<>>
      /\ NewQueue.tasks = <<>> /\ NewQueue.results = <<>>
      /\ ~NewQueue.errored /\ NewQueue.completed = 0
      /\ Cardinality(Finished(NewQueue)) = 0
  BY NewSound, NewQueueFacts
<1>5. Cardinality(Running(NewQueue)) = 0 /\ Cardinality(FailedTasks(NewQueue)) = 0
  <2>1. NewQueue \in QueueType(Parts)
    BY <1>4 DEF SoundQueue
  <2> QED
    BY <1>4, <2>1, FailedFinite, RunningFinished
<1> HIDE DEF Nothing
<1>6. RangeInv
  BY <1>1, <1>2, <1>3, Numbers DEF RangeInv, Init, Unknown, Chunked
<1>7. QueueInv
  <2>1. Len(q.tasks) = 0 /\ Len(q.results) = 0
    BY <1>2, <1>4
  <2> QED
    BY <1>1, <1>2, <1>4, <1>5, <2>1, Numbers DEF QueueInv
<1>8. PcInv
  BY <1>2, <1>3, <1>4 DEF PcInv
<1>9. OrderInv
  BY <1>2, <1>3, <1>4 DEF OrderInv, Ordered
<1>10. CoverInv
  <2>1. SeqBytes(Pending(q)) = {}
    BY <1>2, <1>4 DEF SeqBytes
  <2>2. Held = Unasked
    BY <1>2, <1>3, <2>1 DEF Held
  <2>3. Unasked = Object
    BY <1>1, <1>2, <1>6, Numbers DEF Unasked, Object, Init, HasRange, Unknown
  <2>4. Consumed = {}
    BY <1>2, <2>2, <2>3 DEF Consumed
  <2> QED
    BY <1>2, <2>2, <2>3, <2>4, FS_EmptySet DEF CoverInv
<1> QED
  BY <1>1, <1>6, <1>7, <1>8, <1>9, <1>10 DEF IInv

\* A step that moves no range.
LEMMA NoMove ==
  ASSUME IInv, UNCHANGED <<options, offset, remaining, opened, q, cur, buf, pos, missed>>
  PROVE  RangeInv' /\ OrderInv' /\ CoverInv'
<1>0. RangeInv /\ OrderInv /\ CoverInv
  BY DEF IInv
<1>1. RangeInv' 
  BY <1>0 DEF options, RangeInv, Chunked, Slots, Parts, Ranges, Offsets, Nothing, Object, Unknown
<1>2. OrderInv'
  BY <1>0 DEF OrderInv, Before, HasRange, IsEmpty, Nothing
<1>3. Held' = Held
  BY DEF Held, Unasked, HasRange, Bytes
<1>4. CoverInv'
  BY <1>0, <1>3, CoverKept DEF CoverInv
<1> QED
  BY <1>1, <1>2, <1>4

LEMMA PollNextStep ==
  ASSUME IInv, PollNext \/ PollNextPanics \/ MetadataPanics
  PROVE  IInv'
<1>0. Plain /\ QueueInv /\ PcInv
  BY DEF IInv
<1>1. /\ UNCHANGED <<options, offset, remaining, opened, q, done, cur, known, buf, pos, missed, bounds>>
      /\ \/ pc = "idle" /\ IsEmpty(buf) /\ pc' = IF Chunked THEN "fill" ELSE "stream"
         \/ pc = "gone" /\ pc' = "panic"
      /\ reply' \in {reply, "none"}
  BY DEF PollNext, PollNextPanics, MetadataPanics, reader, metaRest, options, bounds
<1>2. Plain'
  BY <1>0, <1>1 DEF Plain, options, bounds
<1>3. RangeInv' /\ OrderInv' /\ CoverInv'
  BY <1>1, NoMove
<1>4. QueueInv'
  <2>1. errors' = errors /\ errors \in Nat /\ q.results = <<>>
    BY <1>0, <1>1, Numbers DEF QueueInv, bounds
  <2> QED
    BY <1>0, <1>1, <2>1, QueueKept DEF options
<1>5. PcInv'
  BY <1>0, <1>1 DEF PcInv, Exhausted, HasRange, Chunked, options, bounds, IsEmpty, Nothing
<1> QED
  BY <1>2, <1>3, <1>4, <1>5 DEF IInv

\* StreamingReader asks for its range, or is at the end.
LEMMA StreamOpenStep ==
  ASSUME IInv, StreamOpen
  PROVE  IInv'
<1>0. Plain /\ RangeInv /\ QueueInv /\ PcInv
  BY DEF IInv
<1>1. /\ pc = "stream" /\ opened = Nothing /\ cur = Nothing /\ IsEmpty(buf) /\ ~Chunked
      /\ UNCHANGED <<options, q, done, pos, opened, known, missed, bounds>>
  BY <1>0 DEF StreamOpen, streamRest, PcInv
<1>2. q = NewQueue /\ Pending(q) = <<>> /\ ~q.errored /\ q.results = <<>>
  BY <1>0, <1>1, NewSound DEF QueueInv
<1>3. errors' = errors /\ errors \in Nat /\ concurrent' = concurrent /\ chunk' = chunk
  BY <1>0, <1>1, Numbers DEF bounds, options
<1>4. QueueInv'
  BY <1>0, <1>1, <1>2, <1>3, QueueKept
<1>5. CASE HasRange /\ AdvanceRange /\ cur' = NextRange /\ pc' = "open" /\ UNCHANGED <<reply, buf>>
  <2>1. HasInput /\ TakeInput /\ cur' = Input
    BY <1>1, <1>5 DEF HasInput, TakeInput, Input
  <2>2. RangeInv' /\ OrderInv' /\ CoverInv'
    BY <1>1, <1>3, <1>5, <2>1, InputToCur
  <2>3. NextRange # Nothing
    BY <1>0, <1>5, NextRangeFacts
  <2>4. Plain'
    BY <1>0, <1>1, <1>5 DEF Plain, options, bounds
  <2> HIDE DEF Nothing, NextRange
  <2>5. ~done /\ reply # "eof"
    BY <1>0, <1>5 DEF PcInv, Exhausted
  <2>6. PcInv'
    BY <1>0, <1>1, <1>3, <1>5, <2>3, <2>5 DEF PcInv, Chunked, IsEmpty
  <2> QED
    BY <1>4, <2>2, <2>4, <2>6 DEF IInv
<1>6. CASE ~HasRange /\ Deliver(Nothing) /\ UNCHANGED <<offset, remaining>>
  <2>1. IsEmpty(Nothing)
    BY <1>0, SlotFacts
  <2>2. pc' = "idle" /\ reply' = "eof" /\ cur' = Nothing /\ buf' = buf
    BY <1>6, <2>1 DEF Deliver, Return
  <2>3. RangeInv' /\ OrderInv' /\ CoverInv'
    BY <1>1, <1>6, <2>2, NoMove
  <2>4. Plain'
    BY <1>0, <1>1, <2>2 DEF Plain, options, bounds
  <2> HIDE DEF Nothing
  <2>5. Exhausted'
    BY <1>1, <1>6, <2>2 DEF Exhausted, HasRange
  <2>6. PcInv'
    BY <1>0, <1>1, <1>2, <2>2, <2>5 DEF PcInv, IsEmpty
  <2> QED
    BY <1>4, <2>3, <2>4, <2>6 DEF IInv
<1> QED
  BY <1>5, <1>6 DEF StreamOpen

\* The awaited open ends: the range goes into the reader, or is given up.
LEMMA CurOpened ==
  ASSUME IInv, cur # Nothing, opened' = cur, cur' = Nothing,
         UNCHANGED <<options, offset, remaining, q, buf, pos, missed>>
  PROVE  RangeInv' /\ OrderInv' /\ CoverInv'
<1>0. Plain /\ RangeInv /\ QueueInv /\ PcInv /\ OrderInv /\ CoverInv /\ opened = Nothing
  BY DEF IInv, PcInv
<1>1. /\ Nothing \in Slots /\ Bytes(Nothing) = {} /\ Nothing.from = End + 1
      /\ buf.to \in Nat /\ buf.to <= End + 1
  BY <1>0, SlotFacts DEF RangeInv
<1>2. \A k \in 1..Len(Pending(q)) : Pending(q)[k].to \in Nat /\ Pending(q)[k].to <= End + 1
  BY <1>0, PendingParts, SlotFacts
<1> HIDE DEF Nothing
<1>3. RangeInv'
  BY <1>0, <1>1 DEF options, RangeInv, Chunked, Slots, Parts, Ranges, Offsets, Object, Unknown
<1>4. \A x \in Nat : Before(x) /\ x <= End + 1 => Before(x)'
  BY <1>1 DEF Before, HasRange
<1>5. OrderInv'
  <2>1. \A k \in 1..Len(Pending(q)) : Before(Pending(q)[k].to)'
    BY <1>0, <1>2, <1>4 DEF OrderInv
  <2>2. ~IsEmpty(buf) => Before(buf.to)'
    BY <1>0, <1>1, <1>4 DEF OrderInv
  <2> QED
    BY <1>0, <2>1, <2>2 DEF OrderInv, IsEmpty, HasRange
<1>6. Held' = Held
  BY <1>0, <1>1 DEF Held, Bytes, Unasked, HasRange
<1>7. CoverInv'
  BY <1>0, <1>6, CoverKept DEF CoverInv
<1> QED
  BY <1>3, <1>5, <1>7

LEMMA StreamOpenedStep ==
  ASSUME IInv, StreamOpened
  PROVE  IInv'
<1>0. Plain /\ RangeInv /\ QueueInv /\ PcInv
  BY DEF IInv
<1>1. /\ pc = "open" /\ cur # Nothing /\ opened = Nothing /\ IsEmpty(buf) /\ ~Chunked
      /\ ~done /\ reply # "eof"
      /\ UNCHANGED <<options, q, done, pos, offset, remaining, buf, seeks, drops>>
  BY <1>0 DEF StreamOpened, streamRest, PcInv, Exhausted
<1>2. q = NewQueue /\ ~q.errored /\ q.results = <<>>
  BY <1>0, <1>1, NewSound DEF QueueInv
<1>3. CASE /\ opened' = cur /\ cur' = Nothing /\ pc' = "stream"
           /\ known' \in {known, TRUE}
           /\ UNCHANGED <<reply, missed, errors>>
  <2>1. RangeInv' /\ OrderInv' /\ CoverInv'
    BY <1>1, <1>3, CurOpened
  <2>2. known' \in BOOLEAN
    BY <1>0, <1>3 DEF Plain
  <2>3. Plain'
    BY <1>0, <1>1, <1>3, <2>2 DEF Plain, options
  <2>4. QueueInv'
    BY <1>0, <1>1, <1>2, <1>3, QueueKept, Numbers DEF options
  <2> HIDE DEF Nothing
  <2>5. PcInv'
    BY <1>0, <1>1, <1>2, <1>3 DEF PcInv, Chunked, IsEmpty, options
  <2> QED
    BY <2>1, <2>3, <2>4, <2>5 DEF IInv
<1>4. CASE FailError /\ Miss(cur) /\ Return("err") /\ UNCHANGED <<opened, known>>
  <2>1. errors' = errors + 1 /\ errors' \in 0..MaxErrors /\ errors' \in Nat /\ errors <= errors'
    BY <1>0, <1>4, Numbers DEF FailError
  <2>2. pc' = "idle" /\ reply' = "err" /\ cur' = Nothing
    BY <1>4 DEF Return
  <2>3. RangeInv' /\ OrderInv' /\ CoverInv'
    BY <1>1, <1>4, <2>2, CurMissed DEF options
  <2>4. Plain'
    BY <1>0, <1>1, <1>4, <2>1, <2>2 DEF Plain, options
  <2>5. QueueInv'
    BY <1>0, <1>1, <1>2, <2>1, QueueKept DEF options
  <2> HIDE DEF Nothing
  <2>6. PcInv'
    BY <1>0, <1>1, <1>2, <1>4, <2>2 DEF PcInv, IsEmpty
  <2> QED
    BY <2>3, <2>4, <2>5, <2>6 DEF IInv
<1> QED
  BY <1>3, <1>4 DEF StreamOpened

\* The open reader hands out a piece, is at its end, or fails.
LEMMA StreamReadStep ==
  ASSUME IInv, StreamRead
  PROVE  IInv'
<1>0. Plain /\ RangeInv /\ QueueInv /\ PcInv /\ OrderInv /\ CoverInv
  BY DEF IInv
<1>1. /\ pc = "stream" /\ opened # Nothing /\ cur = Nothing /\ IsEmpty(buf) /\ ~Chunked
      /\ ~done /\ reply # "eof"
      /\ UNCHANGED <<options, q, done, pos, offset, remaining, known, missed, seeks, drops>>
  BY <1>0 DEF StreamRead, streamRest, PcInv, Exhausted
<1>2. q = NewQueue /\ ~q.errored /\ q.results = <<>> /\ Pending(q) = <<>>
  BY <1>0, <1>1, NewSound DEF QueueInv
<1>3. /\ opened \in Slots /\ opened.from \in Nat /\ opened.to \in Nat /\ opened.to <= End
      /\ Start <= opened.from /\ opened.from <= opened.to
      /\ Nothing \in Slots /\ Bytes(Nothing) = {} /\ Nothing.from = End + 1
      /\ Bytes(buf) = {} /\ SeqBytes(Pending(q)) = {}
  <2>1. SeqBytes(Pending(q)) = {}
    BY <1>2 DEF SeqBytes
  <2> QED
    BY <1>0, <1>1, <2>1, SlotFacts DEF RangeInv
<1>4. opened = [from |-> opened.from, to |-> opened.to]
  BY <1>3 DEF Slots, Ranges
<1>5. ASSUME NEW n \in opened.from + 1 .. opened.to,
             Deliver([from |-> opened.from, to |-> n]),
             opened' = [opened EXCEPT !.from = n],
             errors' = errors
      PROVE  IInv'
  <2>1. n \in Nat /\ opened.from < n /\ n <= opened.to /\ n <= End /\ Start <= n
    BY <1>0, <1>3, Numbers
  <2> DEFINE piece == [from |-> opened.from, to |-> n]
             rest == [from |-> n, to |-> opened.to]
  <2>2. opened' = rest
    BY <1>4, <1>5
  <2>3. piece.from = opened.from /\ piece.to = n /\ rest.from = n /\ rest.to = opened.to
    OBVIOUS
  <2>4. piece \in Slots /\ rest \in Slots /\ rest # Nothing
    BY <1>0, <1>3, <2>1, MakeSlot
  <2>5. ~IsEmpty(piece)
    BY <1>3, <2>1, <2>3 DEF IsEmpty
  <2>6. pc' = "idle" /\ reply' = "data" /\ cur' = Nothing /\ buf' = piece
    BY <1>5, <2>5 DEF Deliver, Return
  <2> HIDE DEF piece, rest, Nothing
  <2>7. Plain'
    BY <1>0, <1>1, <1>5, <2>6 DEF Plain, options
  <2>8. RangeInv'
    BY <1>0, <1>1, <1>3, <2>2, <2>4, <2>6
       DEF options, RangeInv, Chunked, Slots, Parts, Ranges, Offsets, Object, Unknown
  <2>9. QueueInv'
    BY <1>0, <1>1, <1>2, <1>5, QueueKept, Numbers DEF options
  <2>10. PcInv'
    BY <1>0, <1>1, <1>2, <2>2, <2>4, <2>6 DEF PcInv
  <2>11. OrderInv'
    <3>1. offset \in Nat /\ End \in Nat
      BY <1>0, Numbers DEF RangeInv
    <3>2. HasRange => opened.to <= offset
      BY <1>0, <1>1 DEF OrderInv
    <3>3. Before(buf.to)'
      BY <1>1, <1>3, <2>1, <2>2, <2>3, <2>6, <3>1, <3>2 DEF Before, HasRange
    <3> QED
      BY <1>1, <1>2, <2>2, <2>3, <2>6, <3>2, <3>3 DEF OrderInv, Ordered, HasRange
  <2>12. Bytes(opened) = Bytes(piece) \cup Bytes(rest)
    BY <1>3, <2>1, <2>3 DEF Bytes
  <2>13. Held' = Held
    <3>1. Held' = Bytes(piece) \cup SeqBytes(Pending(q)) \cup Bytes(Nothing) \cup Bytes(rest) \cup Unasked
      BY <1>1, <2>2, <2>6 DEF Held, Unasked, HasRange, Bytes
    <3> QED
      BY <1>1, <1>3, <2>12, <3>1 DEF Held
  <2>14. CoverInv'
    BY <1>0, <1>1, <2>13, CoverKept DEF CoverInv
  <2> QED
    BY <2>7, <2>8, <2>9, <2>10, <2>11, <2>14 DEF IInv
<1>6. CASE IsEmpty(opened) /\ opened' = Nothing /\ UNCHANGED <<cur, pc, reply, buf, errors>>
  <2>1. Bytes(opened) = {} /\ buf.to \in Nat
    BY <1>0, <1>3, <1>6, SlotFacts DEF RangeInv
  <2> HIDE DEF Nothing
  <2>2. Plain'
    BY <1>0, <1>1, <1>6 DEF Plain, options
  <2>3. RangeInv'
    BY <1>0, <1>1, <1>3, <1>6 DEF options, RangeInv, Chunked, Slots, Parts, Ranges, Offsets, Object, Unknown
  <2>4. QueueInv'
    BY <1>0, <1>1, <1>2, <1>6, QueueKept, Numbers DEF options
  <2>5. PcInv'
    BY <1>0, <1>1, <1>2, <1>6 DEF PcInv, IsEmpty, Chunked, options
  <2>6. OrderInv'
    BY <1>1, <1>2, <1>6 DEF OrderInv, Ordered, HasRange, IsEmpty
  <2>7. Held' = Held
    BY <1>1, <1>3, <1>6, <2>1 DEF Held, Unasked, HasRange, Bytes
  <2>8. CoverInv'
    BY <1>0, <1>1, <2>7, CoverKept DEF CoverInv
  <2> QED
    BY <2>2, <2>3, <2>4, <2>5, <2>6, <2>8 DEF IInv
<1>7. CASE FailError /\ Return("err") /\ UNCHANGED <<opened, buf>>
  <2>1. errors' = errors + 1 /\ errors' \in 0..MaxErrors /\ errors' \in Nat /\ errors <= errors'
    BY <1>0, <1>7, Numbers DEF FailError
  <2>2. pc' = "idle" /\ reply' = "err" /\ cur' = Nothing
    BY <1>7 DEF Return
  <2>3. RangeInv' /\ OrderInv' /\ CoverInv'
    BY <1>1, <1>7, <2>2, NoMove
  <2>4. Plain'
    BY <1>0, <1>1, <1>7, <2>1, <2>2 DEF Plain, options
  <2>5. QueueInv'
    BY <1>0, <1>1, <1>2, <2>1, QueueKept DEF options
  <2> HIDE DEF Nothing
  <2>6. PcInv'
    BY <1>0, <1>1, <1>2, <1>7, <2>2 DEF PcInv, IsEmpty
  <2> QED
    BY <2>3, <2>4, <2>5, <2>6 DEF IInv
<1> QED
  BY <1>5, <1>6, <1>7 DEF StreamRead

\* has_remaining, in numbers.
LEMMA SlotsLeft ==
  ASSUME NEW l \in Nat, NEW c \in Nat, NEW f \in Nat, NEW x \in Nat
  PROVE  /\ l < c + Min2(f, x) => l < c + f /\ l < c + x
         /\ (c >= 1 /\ ~(l < c + Min2(f, x))) => l >= 1
BY DEF Min2

LEMMA RemainingFacts ==
  ASSUME Plain, QueueInv
  PROVE  /\ HasRemaining(q, concurrent, Prefetch) =>
              Len(q.tasks) < concurrent + q.completed /\ Len(q.tasks) < concurrent + Prefetch
         /\ ~HasRemaining(q, concurrent, Prefetch) => Len(q.tasks) >= 1
<1>1. Len(q.tasks) \in Nat /\ q.completed \in Nat
  BY PendingParts, LenProperties DEF QueueType
<1>2. concurrent \in Nat /\ concurrent >= 1 /\ Prefetch \in Nat
  BY Numbers
<1> QED
  BY <1>1, <1>2, SlotsLeft DEF HasRemaining

\* ChunkedReader::read goes on with a task queue that is broken.
LEMMA FillRefusedStep ==
  ASSUME IInv, FillRefused
  PROVE  IInv'
<1>0. Plain /\ RangeInv /\ QueueInv /\ PcInv /\ OrderInv
  BY DEF IInv
<1>1. /\ pc = "fill" /\ ~done /\ q.errored /\ HasInput /\ TakeInput
      /\ pc' = "idle" /\ reply' = "err" /\ cur' = Nothing
      /\ UNCHANGED <<options, pos, seeks, drops, q, done, known, buf, missed, errors>>
  BY DEF FillRefused, Filling, Return, chunkRest
<1>2. cur = Nothing /\ IsEmpty(buf) /\ Pending(q) = <<>> /\ q.results = <<>>
  BY <1>0, <1>1, PendingParts DEF PcInv, QueueInv, SoundQueue
<1>3. /\ opened' = Nothing /\ offset' \in Start..End
      /\ remaining' = End - offset' \/ (~Chunked /\ remaining' \in {0, Unknown})
  BY <1>1, <1>2, TakeInputFacts
<1>4. Nothing \in Slots
  BY <1>0, SlotFacts
<1>5. Plain'
  BY <1>0, <1>1 DEF Plain, options
<1>6. QueueInv'
  BY <1>0, <1>1, <1>2, QueueKept, Numbers DEF options
<1> HIDE DEF Nothing
<1>7. RangeInv'
  BY <1>0, <1>1, <1>2, <1>3, <1>4
     DEF options, RangeInv, Chunked, Slots, Parts, Ranges, Offsets, Object, Unknown
<1>8. PcInv'
  BY <1>0, <1>1, <1>2, <1>3 DEF PcInv, IsEmpty
<1>9. OrderInv'
  BY <1>1, <1>2, <1>3 DEF OrderInv, Ordered, IsEmpty
<1>10. CoverInv'
  BY <1>1 DEF CoverInv
<1> QED
  BY <1>5, <1>6, <1>7, <1>8, <1>9, <1>10 DEF IInv

\* A chunk is put at the back of the queue.
LEMMA QueueAppend ==
  ASSUME IInv, NEW p, NEW r \in Parts, p \in QueueType(Parts), ~p.errored, ~q.errored,
         Pending(p) = Append(Pending(q), r), q' = p,
         \A k \in 1..Len(Pending(q)) : Pending(q)[k].to <= r.from,
         IsEmpty(buf), buf' = buf, pos' = pos, missed' = missed,
         \A x \in Nat : (x = r.to \/ \E k \in 1..Len(Pending(q)) : x = Pending(q)[k].to)
           => Before(x)',
         HasRange' => /\ (cur # Nothing)' => cur'.to <= offset'
                      /\ (opened # Nothing)' => opened'.to <= offset',
         Bytes(cur) \cup Bytes(opened) \cup Unasked
           = Bytes(r) \cup (Bytes(cur)' \cup Bytes(opened)' \cup Unasked')
  PROVE  OrderInv' /\ CoverInv'
<1>0. Plain /\ RangeInv /\ QueueInv /\ PcInv /\ OrderInv /\ CoverInv
  BY DEF IInv
<1>1. /\ Pending(q) \in Seq(Parts)
      /\ \A k \in 1..Len(Pending(q)) : Pending(q)[k].to \in Nat
  BY <1>0, PendingParts, SlotFacts
<1>2. r.to \in Nat
  BY <1>0, SlotFacts
<1>3. /\ Ordered(Pending(p))
      /\ \A k \in 1..Len(Pending(p)) :
              Pending(p)[k] = r \/ \E j \in 1..Len(Pending(q)) : Pending(p)[k] = Pending(q)[j]
  BY <1>0, <1>1, OrderedAppend DEF OrderInv
<1>4. \A k \in 1..Len(Pending(p)) : Before(Pending(p)[k].to)'
  BY <1>1, <1>2, <1>3
<1>5. OrderInv'
  BY <1>3, <1>4 DEF OrderInv, IsEmpty
<1>6. SeqBytes(Pending(p)) = SeqBytes(Pending(q)) \cup Bytes(r)
  BY <1>1, BytesAppend
<1>7. Held' = Held
  <2>1. Held' = Bytes(buf) \cup SeqBytes(Pending(p)) \cup (Bytes(cur)' \cup Bytes(opened)' \cup Unasked')
    BY DEF Held, Bytes
  <2> QED
    BY <1>6, <2>1 DEF Held
<1>8. CoverInv'
  BY <1>0, <1>7, CoverKept DEF CoverInv
<1> QED
  BY <1>5, <1>8

LEMMA FillPushStep ==
  ASSUME IInv, FillPush
  PROVE  IInv'
<1>0. Plain /\ RangeInv /\ QueueInv /\ PcInv /\ OrderInv /\ CoverInv
  BY DEF IInv
<1>1. /\ pc = "fill" /\ ~done /\ HasRemaining(q, concurrent, Prefetch)
      /\ ~q.errored /\ IsConcurrent(concurrent) /\ HasInput /\ TakeInput
      /\ q' = PushTask(q, Input)
      /\ UNCHANGED <<options, pos, seeks, drops, done, cur, known, buf, reply, missed, errors>>
  BY DEF FillPush, Filling, chunkRest
<1>2. q.results = <<>> /\ cur = Nothing /\ IsEmpty(buf) /\ Chunked
  BY <1>0, <1>1 DEF QueueInv, PcInv
<1>3. pc' = "fill"
  BY <1>2 DEF FillPush, HasResult
<1>4. /\ Input \in Parts
      /\ opened' = Nothing
      /\ offset' \in Start..End
      /\ remaining' = End - offset'
      /\ HasRange' => Input.to <= offset'
      /\ \A x \in Nat : Before(x) => x <= Input.from /\ (HasRange' => x <= offset')
      /\ Bytes(opened) \cup Unasked = Bytes(Input) \cup Unasked'
  BY <1>1, <1>2, TakeInputFacts
<1> DEFINE p == PushTask(q, Input)
<1> HIDE DEF Input, Nothing
<1>5. /\ SoundQueue(Parts, p) /\ ~p.errored /\ p.completed = q.completed
      /\ p.results = q.results /\ p.tasks # <<>>
      /\ Len(p.tasks) = Len(q.tasks) + 1 /\ Finished(p) = Finished(q)
      /\ Pending(p) = Append(Pending(q), Input)
  BY <1>0, <1>1, <1>4, PushSound DEF QueueInv
<1>6. p \in QueueType(Parts) /\ q \in QueueType(Parts) /\ FailedTasks(p) = FailedTasks(q)
  BY <1>0, <1>4, <1>5, FailedPush DEF SoundQueue, QueueInv
<1> HIDE DEF p
<1>7. q' = p
  BY <1>1 DEF p
<1>8. /\ Nothing \in Slots /\ Bytes(Nothing) = {} /\ Nothing.from = End + 1
      /\ Input.from \in Nat /\ Input.to \in Nat /\ Input.from <= Input.to /\ Input.to <= End
      /\ \A k \in 1..Len(Pending(q)) : Pending(q)[k].to \in Nat /\ Pending(q)[k].to <= End
  BY <1>0, <1>4, PendingParts, SlotFacts
<1>9. Plain'
  BY <1>0, <1>1, <1>3 DEF Plain, options
<1>10. RangeInv'
  BY <1>0, <1>1, <1>2, <1>4, <1>8
     DEF options, RangeInv, Chunked, Slots, Parts, Ranges, Offsets, Object, Unknown
<1>11. QueueInv'
  <2>1. /\ Len(q.tasks) \in Nat /\ Len(q.results) \in Nat /\ q.completed \in Nat
        /\ Cardinality(Finished(q)) \in Nat /\ Cardinality(FailedTasks(q)) \in Nat
        /\ q.completed = Cardinality(Finished(q))
        /\ Cardinality(FailedTasks(q)) <= errors
    BY <1>0, <1>1, <1>6, PendingParts, LenProperties, FinishedFinite, FailedFinite
       DEF QueueInv, QueueType
  <2>2. /\ Len(q.tasks) < concurrent + q.completed
        /\ Len(q.tasks) < concurrent + Prefetch
    BY <1>0, <1>1, RemainingFacts
  <2>3. Cardinality(Running(p)) = Len(q.tasks) + 1 - Cardinality(Finished(q))
    <3>1. Cardinality(Running(p)) = Len(p.tasks) - Cardinality(Finished(p))
      BY <1>6, RunningFinished
    <3>2. Len(p.tasks) = Len(q.tasks) + 1 /\ Cardinality(Finished(p)) = Cardinality(Finished(q))
      BY <1>5
    <3> QED
      BY <2>1, <3>1, <3>2
  <2>4. /\ Cardinality(Running(p)) + Cardinality(FailedTasks(p)) <= concurrent + errors
        /\ Len(p.tasks) <= concurrent + Prefetch
    <3>1. concurrent \in Nat /\ Prefetch \in Nat /\ errors \in Nat
      BY <1>0, Numbers
    <3> QED
      BY <1>5, <1>6, <2>1, <2>2, <2>3, <3>1
  <2>5. Len(p.results) <= 1
    BY <1>2, <1>5
  <2> QED
    BY <1>1, <1>2, <1>5, <1>6, <1>7, <2>1, <2>4, <2>5 DEF QueueInv, Chunked, options
<1>12. PcInv'
  BY <1>0, <1>1, <1>2, <1>3, <1>4, <1>5, <1>7 DEF PcInv, Chunked, options, IsEmpty, Exhausted, HasInput
<1>13. OrderInv' /\ CoverInv'
  <2>1. \A k \in 1..Len(Pending(q)) :
           /\ Pending(q)[k].to <= Input.from
           /\ HasRange' => Pending(q)[k].to <= offset'
    BY <1>0, <1>4, <1>8 DEF OrderInv
  <2>2. \A x \in Nat : (x = Input.to \/ \E k \in 1..Len(Pending(q)) : x = Pending(q)[k].to)
           => Before(x)'
    <3>1. End \in Nat /\ cur' = Nothing
      BY <1>0, <1>1, <1>2, Numbers
    <3>2. Input.to <= Nothing.from /\ \A k \in 1..Len(Pending(q)) : Pending(q)[k].to <= Nothing.from
      BY <1>8, <3>1
    <3> QED
      BY <1>4, <2>1, <3>1, <3>2 DEF Before
  <2>3. Bytes(cur) \cup Bytes(opened) \cup Unasked
           = Bytes(Input) \cup (Bytes(cur)' \cup Bytes(opened)' \cup Unasked')
    BY <1>1, <1>2, <1>4, <1>8 DEF Bytes
  <2>4. /\ (cur # Nothing)' => cur'.to <= offset'
        /\ (opened # Nothing)' => opened'.to <= offset'
    BY <1>1, <1>2, <1>4 DEF Nothing
  <2> QED
    BY <1>1, <1>2, <1>4, <1>5, <1>6, <1>7, <2>1, <2>2, <2>3, <2>4, QueueAppend
<1> QED
  BY <1>9, <1>10, <1>11, <1>12, <1>13 DEF IInv

LEMMA FillInlineStep ==
  ASSUME IInv, FillInline
  PROVE  IInv'
<1>0. Plain /\ RangeInv /\ QueueInv /\ PcInv /\ OrderInv
  BY DEF IInv
<1>1. /\ pc = "fill" /\ ~done /\ ~q.errored /\ ~IsConcurrent(concurrent)
      /\ HasInput /\ TakeInput /\ cur' = Input /\ pc' = "inline"
      /\ UNCHANGED <<options, pos, seeks, drops, q, done, known, buf, reply, missed, errors>>
  BY DEF FillInline, Filling, chunkRest
<1>2. cur = Nothing /\ IsEmpty(buf) /\ q.results = <<>> /\ reply # "eof" /\ Chunked
  <2>1. ~Exhausted
    BY <1>1 DEF Exhausted, HasInput
  <2> QED
    BY <1>0, <1>1, <2>1 DEF PcInv, QueueInv
<1>3. opened' = Nothing /\ Input # Nothing
  BY <1>1, <1>2, TakeInputFacts
<1>4. RangeInv' /\ OrderInv' /\ CoverInv'
  BY <1>1, <1>2, InputToCur DEF options
<1>5. Plain'
  BY <1>0, <1>1 DEF Plain, options
<1>6. QueueInv'
  BY <1>0, <1>1, <1>2, QueueKept, Numbers DEF options
<1> HIDE DEF Nothing, Input
<1>7. PcInv'
  BY <1>0, <1>1, <1>2, <1>3 DEF PcInv, IsEmpty, Chunked, options, IsConcurrent
<1> QED
  BY <1>4, <1>5, <1>6, <1>7 DEF IInv

\* The loop ends: a task is pending, or there is nothing left to ask for.
LEMMA FillEndsStep ==
  ASSUME IInv, FillEnds
  PROVE  IInv'
<1>0. Plain /\ RangeInv /\ QueueInv /\ PcInv /\ OrderInv
  BY DEF IInv
<1>1. /\ pc = "fill" /\ ~(Filling /\ HasInput) /\ done' = (done \/ Filling) /\ pc' = "next"
      /\ UNCHANGED <<options, pos, seeks, drops, offset, remaining, opened, q, cur, known,
                     buf, reply, missed, errors>>
  BY DEF FillEnds, chunkRest
<1>2. cur = Nothing /\ IsEmpty(buf) /\ Chunked
  BY <1>0, <1>1 DEF PcInv
<1>3. ~HasInput => Exhausted
  BY <1>2 DEF HasInput, Exhausted
<1>4. q.errored \/ Pending(q) # <<>> \/ Exhausted
  <2>1. CASE ~HasRemaining(q, concurrent, Prefetch)
    <3>1. Len(q.tasks) \in Nat /\ Len(q.results) \in Nat /\ q.completed \in Nat
      BY <1>0, PendingParts, LenProperties DEF QueueType
    <3>2. Len(q.tasks) >= 1
      BY <1>0, <2>1, RemainingFacts
    <3>3. Len(Pending(q)) >= 1
      <4> DEFINE a == Len(q.results)
                 b == Len(q.tasks)
                 c == Len(Pending(q))
      <4>1. c = a + b
        BY <1>0, PendingParts
      <4>2. a \in Nat /\ b \in Nat /\ b >= 1
        BY <3>1, <3>2
      <4> HIDE DEF a, b, c
      <4>3. c >= 1
        BY <4>1, <4>2
      <4> QED
        BY <4>3 DEF c
    <3> QED
      BY <3>3
  <2>2. CASE done
    BY <1>0, <2>2 DEF PcInv
  <2> QED
    BY <1>1, <1>3, <2>1, <2>2 DEF Filling
<1>5. done' => Exhausted
  BY <1>0, <1>1, <1>3 DEF PcInv
<1>6. RangeInv' /\ OrderInv' /\ CoverInv'
  BY <1>1, NoMove
<1>7. Plain'
  <2>1. done' \in BOOLEAN
    BY <1>1
  <2> QED
    BY <1>0, <1>1, <2>1 DEF Plain, options
<1>8. QueueInv'
  BY <1>0, <1>1, QueueKept, Numbers DEF options
<1> HIDE DEF Nothing
<1>9. Exhausted' = Exhausted
  BY <1>1 DEF Exhausted, HasRange, Nothing
<1>10. PcInv'
  BY <1>0, <1>1, <1>2, <1>4, <1>5, <1>9 DEF PcInv, IsEmpty, Chunked, options
<1> QED
  BY <1>6, <1>7, <1>8, <1>10 DEF IInv

\* The request that execute ran itself ends.
LEMMA FillInlineEndsStep ==
  ASSUME IInv, FillInlineEnds
  PROVE  IInv'
<1>0. Plain /\ RangeInv /\ QueueInv /\ PcInv /\ OrderInv /\ CoverInv
  BY DEF IInv
<1>1. /\ pc = "inline" /\ cur # Nothing /\ opened = Nothing /\ IsEmpty(buf) /\ Chunked
      /\ ~IsConcurrent(concurrent) /\ ~q.errored /\ ~done /\ reply # "eof"
      /\ UNCHANGED <<options, pos, seeks, drops, offset, remaining, opened, done, buf>>
  BY <1>0 DEF FillInlineEnds, chunkRest, PcInv, Exhausted
<1>2. q.results = <<>> /\ q.tasks = <<>> /\ cur \in Parts
  BY <1>0, <1>1 DEF QueueInv, RangeInv
<1>3. CASE /\ q' = [q EXCEPT !.results = Append(@, cur)]
           /\ known' \in {known, TRUE}
           /\ pc' = "next" /\ cur' = Nothing
           /\ UNCHANGED <<reply, missed, errors>>
  <2> DEFINE p == [q EXCEPT !.results = Append(q.results, cur)]
  <2>0. p = [q EXCEPT !.results = Append(q.results, cur)] /\ SoundQueue(Parts, q)
    BY <1>0 DEF QueueInv
  <2>2. q' = p /\ q.tasks = <<>> /\ ~q.errored /\ cur \in Parts
    BY <1>1, <1>2, <1>3
  <2> HIDE DEF p, Nothing
  <2>1. /\ SoundQueue(Parts, p) /\ ~p.errored /\ p.completed = q.completed
        /\ p.tasks = <<>> /\ p.results = Append(q.results, cur)
        /\ Pending(p) = Append(Pending(q), cur)
    BY <2>0, <2>2, InlineSound
  <2>3. Len(p.results) = 1 /\ p.results # <<>>
    BY <1>2, <2>1
  <2>4. p \in QueueType(Parts) /\ q \in QueueType(Parts)
    BY <1>0, <2>1 DEF SoundQueue, QueueInv
  <2>5. Finished(p) = Finished(q) /\ Running(p) = Running(q) /\ FailedTasks(p) = FailedTasks(q)
    BY <1>2, <2>1 DEF Finished, Running, FailedTasks
  <2>6. QueueInv'
    BY <1>0, <1>1, <1>2, <1>3, <2>1, <2>2, <2>3, <2>5 DEF QueueInv, Chunked, options
  <2>7. known' \in BOOLEAN
    BY <1>0, <1>3 DEF Plain
  <2>8. Plain'
    BY <1>0, <1>1, <1>3, <2>7 DEF Plain, options
  <2>9. /\ Nothing \in Slots /\ Bytes(Nothing) = {} /\ Nothing.from = End + 1
        /\ cur.from \in Nat /\ cur.to \in Nat /\ cur.from <= cur.to /\ cur.to <= End
        /\ \A k \in 1..Len(Pending(q)) : Pending(q)[k].to \in Nat /\ Pending(q)[k].to <= End
    BY <1>0, <1>2, PendingParts, SlotFacts
  <2>10. RangeInv'
    BY <1>0, <1>1, <1>3, <2>9
       DEF options, RangeInv, Chunked, Slots, Parts, Ranges, Offsets, Object, Unknown
  <2>11. Pending(p) # <<>>
    <3>1. Pending(q) \in Seq(Parts)
      BY <1>0, PendingParts
    <3> QED
      BY <1>2, <2>1, <3>1
  <2>12. PcInv'
    BY <1>0, <1>1, <1>3, <2>1, <2>2, <2>11 DEF PcInv, Chunked, options, IsEmpty
  <2>13. OrderInv' /\ CoverInv'
    <3>1. \A k \in 1..Len(Pending(q)) :
           /\ Pending(q)[k].to <= cur.from
           /\ HasRange => Pending(q)[k].to <= offset
      BY <1>0 DEF OrderInv, Before
    <3>2. \A x \in Nat : (x = cur.to \/ \E k \in 1..Len(Pending(q)) : x = Pending(q)[k].to)
           => Before(x)'
      <4>1. End \in Nat
        BY <1>0, Numbers
      <4>2. cur.to <= Nothing.from /\ \A k \in 1..Len(Pending(q)) : Pending(q)[k].to <= Nothing.from
        BY <2>9, <4>1
      <4>3. HasRange => cur.to <= offset
        BY <1>0, <1>1 DEF OrderInv
      <4> QED
        BY <1>1, <1>3, <3>1, <4>2, <4>3 DEF Before, HasRange
    <3>3. Bytes(cur) \cup Bytes(opened) \cup Unasked
             = Bytes(cur) \cup (Bytes(cur)' \cup Bytes(opened)' \cup Unasked')
      BY <1>1, <1>3, <2>9 DEF Bytes, Unasked, HasRange
    <3>4. /\ (cur # Nothing)' => cur'.to <= offset'
          /\ (opened # Nothing)' => opened'.to <= offset'
      BY <1>1, <1>3 DEF Nothing
    <3> QED
      BY <1>1, <1>2, <1>3, <2>1, <2>2, <2>4, <3>1, <3>2, <3>3, <3>4, QueueAppend
  <2> QED
    BY <2>6, <2>8, <2>10, <2>12, <2>13 DEF IInv
<1>4. CASE FailError /\ Miss(cur) /\ Return("err") /\ UNCHANGED <<q, known>>
  <2>1. errors' = errors + 1 /\ errors' \in 0..MaxErrors /\ errors' \in Nat /\ errors <= errors'
    BY <1>0, <1>4, Numbers DEF FailError
  <2>2. pc' = "idle" /\ reply' = "err" /\ cur' = Nothing
    BY <1>4 DEF Return
  <2>3. RangeInv' /\ OrderInv' /\ CoverInv'
    BY <1>1, <1>4, <2>2, CurMissed DEF options
  <2>4. Plain'
    BY <1>0, <1>1, <1>4, <2>1, <2>2 DEF Plain, options
  <2>5. QueueInv'
    BY <1>0, <1>1, <1>2, <1>4, <2>1, QueueKept DEF options
  <2> HIDE DEF Nothing
  <2>6. PcInv'
    BY <1>0, <1>1, <1>2, <1>4, <2>2 DEF PcInv, IsEmpty
  <2> QED
    BY <2>3, <2>4, <2>5, <2>6 DEF IInv
<1> QED
  BY <1>3, <1>4 DEF FillInlineEnds

\* The front of the queue goes to the owner.
LEMMA QueueTake ==
  ASSUME IInv, cur = Nothing, IsEmpty(buf), NEW p, ~p.errored, ~q.errored, Pending(q) # <<>>,
         NEW h, h = Head(Pending(q)),
         Pending(p) = Tail(Pending(q)), q' = p, buf' = h, cur' = Nothing,
         UNCHANGED <<options, offset, remaining, opened, pos, missed>>
  PROVE  RangeInv' /\ OrderInv' /\ CoverInv' /\ h \in Parts
<1>0. Plain /\ RangeInv /\ QueueInv /\ PcInv /\ OrderInv /\ CoverInv
  BY DEF IInv
<1> DEFINE t == Tail(Pending(q))
           s == Pending(q)
<1>1. s \in Seq(Parts) /\ s # <<>> /\ Ordered(s)
  BY <1>0, PendingParts DEF OrderInv
<1> HIDE DEF s
<1>2. /\ Tail(s) \in Seq(Parts) /\ Head(s) \in Parts /\ Head(s) = s[1] /\ 1 \in 1..Len(s)
      /\ Ordered(Tail(s))
      /\ \A k \in 1..Len(Tail(s)) :
              /\ Head(s).to <= Tail(s)[k].from
              /\ \E j \in 1..Len(s) : Tail(s)[k] = s[j]
      /\ SeqBytes(s) = Bytes(Head(s)) \cup SeqBytes(Tail(s))
  BY <1>1, OrderedTail, BytesHead
<1>3. /\ t \in Seq(Parts) /\ h \in Parts /\ h = Pending(q)[1] /\ 1 \in 1..Len(Pending(q))
      /\ Ordered(t)
      /\ \A k \in 1..Len(t) :
              /\ h.to <= t[k].from
              /\ \E j \in 1..Len(Pending(q)) : t[k] = Pending(q)[j]
      /\ SeqBytes(Pending(q)) = Bytes(h) \cup SeqBytes(t)
  BY <1>2 DEF s
<1>4. h \in Slots /\ Bytes(buf) = {}
  BY <1>0, <1>3, SlotFacts DEF RangeInv
<1> HIDE DEF t, Nothing
<1>5. Pending(p) = t
  BY DEF t
<1>6. RangeInv'
  BY <1>0, <1>4, <1>5
     DEF options, RangeInv, Chunked, Slots, Parts, Ranges, Offsets, Object, Unknown
<1>7. \A x : Before(x)' = Before(x)
  BY DEF Before, HasRange
<1>8. OrderInv'
  <2>1. Before(h.to)
    BY <1>0, <1>3 DEF OrderInv
  <2>2. \A k \in 1..Len(t) : Before(t[k].to)
    BY <1>0, <1>3 DEF OrderInv
  <2>3. /\ Ordered(Pending(p))
        /\ \A k \in 1..Len(Pending(p)) : Before(Pending(p)[k].to)'
        /\ Before(h.to)'
        /\ \A k \in 1..Len(Pending(p)) : h.to <= Pending(p)[k].from
    BY <1>3, <1>5, <1>7, <2>1, <2>2
  <2>4. HasRange' => /\ (cur # Nothing)' => cur'.to <= offset'
                     /\ (opened # Nothing)' => opened'.to <= offset'
    BY <1>0 DEF OrderInv, HasRange, Nothing
  <2> QED
    BY <2>3, <2>4 DEF OrderInv
<1>9. Held' = Held
  <2>1. Held' = Bytes(h) \cup SeqBytes(t) \cup Bytes(cur) \cup Bytes(opened) \cup Unasked
    BY <1>5 DEF Held, Unasked, HasRange, Bytes
  <2> QED
    BY <1>3, <1>4, <2>1 DEF Held
<1>10. CoverInv'
  BY <1>0, <1>9, CoverKept DEF CoverInv
<1> QED
  BY <1>3, <1>6, <1>8, <1>10

\* tasks.next()
LEMMA TakeNextStep ==
  ASSUME IInv, TakeNext
  PROVE  IInv'
<1>0. Plain /\ RangeInv /\ QueueInv /\ PcInv /\ OrderInv /\ CoverInv
  BY DEF IInv
<1>1. /\ pc = "next" /\ cur = Nothing /\ IsEmpty(buf) /\ Chunked
      /\ UNCHANGED <<options, pos, seeks, drops, offset, remaining, opened, done, known, missed, errors>>
  BY <1>0 DEF TakeNext, chunkRest, PcInv
<1>2. SoundQueue(Parts, q) /\ q \in QueueType(Parts)
  BY <1>0 DEF QueueInv, SoundQueue
<1>3. /\ Len(q.tasks) \in Nat /\ Cardinality(Finished(q)) \in Nat
      /\ Cardinality(FailedTasks(q)) \in Nat /\ Cardinality(Running(q)) \in Nat
      /\ Cardinality(Running(q)) = Len(q.tasks) - Cardinality(Finished(q))
      /\ concurrent \in Nat /\ Prefetch \in Nat /\ errors \in Nat
  BY <1>0, <1>2, PendingParts, LenProperties, FinishedFinite, FailedFinite, RunningFinished, Numbers
<1>4. CASE q.errored /\ Return("err") /\ UNCHANGED <<q, buf>>
  <2>1. pc' = "idle" /\ reply' = "err" /\ cur' = Nothing
    BY <1>4 DEF Return
  <2>2. RangeInv' /\ OrderInv' /\ CoverInv'
    BY <1>1, <1>4, <2>1, NoMove
  <2>3. Plain'
    BY <1>0, <1>1, <2>1 DEF Plain, options
  <2>4. q.results = <<>>
    BY <1>2, <1>4 DEF SoundQueue
  <2>5. QueueInv'
    BY <1>0, <1>1, <1>3, <1>4, <2>4, QueueKept DEF options
  <2> HIDE DEF Nothing
  <2>6. PcInv'
    BY <1>0, <1>1, <1>4, <2>1 DEF PcInv, IsEmpty, Exhausted, HasRange, Nothing
  <2> QED
    BY <2>2, <2>3, <2>5, <2>6 DEF IInv
<1>5. CASE /\ ~q.errored /\ HasResult(q)
           /\ Deliver(Head(q.results))
           /\ q' = [q EXCEPT !.results = Tail(@)]
  <2> DEFINE p == [q EXCEPT !.results = Tail(q.results)]
             h == Head(q.results)
  <2>1. p = [q EXCEPT !.results = Tail(q.results)] /\ HasResult(q) /\ q' = p /\ Deliver(h)
    BY <1>5
  <2> HIDE DEF p, h
  <2>2. /\ SoundQueue(Parts, p) /\ p.errored = q.errored /\ p.completed = q.completed
        /\ p.tasks = q.tasks /\ Finished(p) = Finished(q)
        /\ Pending(q) # <<>> /\ Head(Pending(q)) = h /\ h \in Parts
        /\ Pending(p) = Tail(Pending(q))
    BY <1>2, <2>1, BufferedSound DEF h
  <2>3. ~p.errored
    BY <1>5, <2>2
  <2>4. ~IsEmpty(h)
    BY <1>0, <2>2, SlotFacts
  <2>5. pc' = "idle" /\ reply' = "data" /\ cur' = Nothing /\ buf' = h
    BY <2>1, <2>4 DEF Deliver, Return
  <2>6. RangeInv' /\ OrderInv' /\ CoverInv'
    BY <1>1, <1>5, <2>1, <2>2, <2>3, <2>5, QueueTake
  <2>7. Plain'
    BY <1>0, <1>1, <2>5 DEF Plain, options
  <2>8. p.results = <<>>
    <3>1. q.results \in Seq(Parts) /\ q.results # <<>> /\ Len(q.results) <= 1
      BY <1>0, <2>1, PendingParts DEF HasResult, QueueInv
    <3>2. p.results = Tail(q.results)
      BY <1>2, <2>1 DEF QueueType
    <3>3. Tail(q.results) \in Seq(Parts) /\ Len(Tail(q.results)) = 0
      <4> DEFINE r == q.results
      <4>1. r \in Seq(Parts) /\ r # <<>> /\ Len(r) <= 1
        BY <3>1
      <4> HIDE DEF r
      <4>2. Len(r) \in Nat /\ Len(r) # 0
        BY <4>1, EmptySeq, LenProperties
      <4>3. Tail(r) \in Seq(Parts) /\ Len(Tail(r)) = Len(r) - 1
        BY <4>1, HeadTailProperties
      <4>4. Len(Tail(r)) = 0
        BY <4>1, <4>2, <4>3
      <4> QED
        BY <4>3, <4>4 DEF r
    <3> QED
      BY <3>2, <3>3, EmptySeq
  <2>9. Running(p) = Running(q) /\ FailedTasks(p) = FailedTasks(q)
    BY <2>2 DEF Running, FailedTasks
  <2>10. Len(p.results) <= 1
    BY <2>8
  <2>11. QueueInv'
    BY <1>0, <1>1, <2>1, <2>2, <2>8, <2>9, <2>10 DEF QueueInv, Chunked, options
  <2> HIDE DEF Nothing
  <2>12. PcInv'
    BY <1>0, <1>1, <2>1, <2>3, <2>5 DEF PcInv, Exhausted, HasRange, Nothing
  <2> QED
    BY <2>6, <2>7, <2>11, <2>12 DEF IInv
<1>6. CASE ~q.errored /\ ~HasResult(q) /\ q.tasks = <<>> /\ Deliver(Nothing) /\ UNCHANGED q
  <2>1. IsEmpty(Nothing)
    BY <1>0, SlotFacts
  <2>2. pc' = "idle" /\ reply' = "eof" /\ cur' = Nothing /\ buf' = buf
    BY <1>6, <2>1 DEF Deliver, Return
  <2>3. Pending(q) = <<>> /\ q.results = <<>>
    <3>1. q.results = <<>>
      BY <1>6 DEF HasResult
    <3>2. Len(Pending(q)) = 0 /\ Pending(q) \in Seq(Parts)
      BY <1>0, <1>6, <3>1, PendingParts
    <3> QED
      BY <3>1, <3>2, EmptySeq
  <2>4. Exhausted
    BY <1>0, <1>1, <1>6, <2>3 DEF PcInv
  <2>5. RangeInv' /\ OrderInv' /\ CoverInv'
    BY <1>1, <1>6, <2>2, NoMove
  <2>6. Plain'
    BY <1>0, <1>1, <2>2 DEF Plain, options
  <2>7. QueueInv'
    BY <1>0, <1>1, <1>3, <1>6, <2>3, QueueKept DEF options
  <2> HIDE DEF Nothing
  <2>8. Exhausted'
    BY <1>1, <2>2, <2>4 DEF Exhausted, HasRange, Nothing
  <2>9. PcInv'
    BY <1>0, <1>1, <1>6, <2>2, <2>3, <2>8 DEF PcInv, IsEmpty
  <2> QED
    BY <2>5, <2>6, <2>7, <2>9 DEF IInv
<1>7. CASE /\ ~q.errored /\ ~HasResult(q) /\ FrontReady(q)
           /\ q.tasks[1].st = "ok"
           /\ Deliver(q.tasks[1].input)
           /\ q' = FrontToOwner(q)
  <2> DEFINE p == FrontToOwner(q)
             h == q.tasks[1].input
  <2>0. q.results = <<>>
    BY <1>7 DEF HasResult
  <2>1. /\ SoundQueue(Parts, p) /\ p.errored = q.errored
        /\ p.completed = q.completed - 1 /\ p.results = <<>>
        /\ Cardinality(Finished(p)) = Cardinality(Finished(q)) - 1
        /\ Len(p.tasks) = Len(q.tasks) - 1
        /\ Pending(q) # <<>> /\ Head(Pending(q)) = h
        /\ Pending(p) = Tail(Pending(q))
    BY <1>2, <1>7, <2>0, TakeSound
  <2>2. Cardinality(FailedTasks(p)) <= Cardinality(FailedTasks(q))
    BY <1>2, <1>7, FailedTake
  <2>3. q' = p /\ Deliver(h) /\ ~p.errored
    BY <1>7, <2>1
  <2>4. p.tasks = Tail(q.tasks)
    BY <1>2 DEF FrontToOwner, PopFront, Retrieve, QueueType
  <2> HIDE DEF p, h
  <2>5. p \in QueueType(Parts)
    BY <2>1 DEF SoundQueue
  <2>6. /\ Cardinality(FailedTasks(p)) \in Nat /\ Len(p.tasks) \in Nat
        /\ Cardinality(Running(p)) = Len(p.tasks) - Cardinality(Finished(p))
    <3>1. p.tasks \in Seq(TaskType(Parts))
      BY <2>5, PendingType
    <3> QED
      BY <2>5, <3>1, FailedFinite, RunningFinished, LenProperties
  <2>7. h \in Parts
    BY <1>2, <1>7, FrontInTasks DEF h
  <2>8. ~IsEmpty(h)
    BY <1>0, <2>7, SlotFacts
  <2>9. pc' = "idle" /\ reply' = "data" /\ cur' = Nothing /\ buf' = h
    BY <2>3, <2>8 DEF Deliver, Return
  <2>10. RangeInv' /\ OrderInv' /\ CoverInv'
    BY <1>1, <1>7, <2>1, <2>3, <2>9, QueueTake
  <2>11. Plain'
    BY <1>0, <1>1, <2>9 DEF Plain, options
  <2>12. /\ Cardinality(FailedTasks(q)) <= errors
         /\ Cardinality(Running(q)) + Cardinality(FailedTasks(q)) <= concurrent + errors
         /\ Len(q.tasks) <= concurrent + Prefetch
         /\ q.completed = Cardinality(Finished(q))
    BY <1>0, <1>7 DEF QueueInv
  <2>13. /\ Cardinality(FailedTasks(p)) <= errors
         /\ Cardinality(Running(p)) + Cardinality(FailedTasks(p)) <= concurrent + errors
         /\ Len(p.tasks) <= concurrent + Prefetch
         /\ p.completed = Cardinality(Finished(p))
    <3> DEFINE a == Len(q.tasks)
               b == Cardinality(Finished(q))
               c == Cardinality(FailedTasks(q))
               d == Cardinality(Running(q))
               a1 == Len(p.tasks)
               b1 == Cardinality(Finished(p))
               c1 == Cardinality(FailedTasks(p))
               d1 == Cardinality(Running(p))
    <3>1. /\ a \in Nat /\ b \in Nat /\ c \in Nat /\ d = a - b
          /\ concurrent \in Nat /\ Prefetch \in Nat /\ errors \in Nat
          /\ c <= errors /\ d + c <= concurrent + errors /\ a <= concurrent + Prefetch
      BY <1>3, <2>12
    <3>2. c1 \in Nat /\ a1 = a - 1 /\ b1 = b - 1 /\ d1 = a1 - b1 /\ c1 <= c
      BY <2>1, <2>2, <2>6
    <3>3. p.completed = b1
      BY <2>1, <2>12
    <3> HIDE DEF a, b, c, d, a1, b1, c1, d1
    <3>4. c1 <= errors /\ d1 + c1 <= concurrent + errors /\ a1 <= concurrent + Prefetch
      BY <3>1, <3>2
    <3> QED
      BY <3>3, <3>4 DEF a1, b1, c1, d1
  <2>14. IsConcurrent(concurrent)
    BY <1>0, <1>7 DEF QueueInv, FrontReady
  <2>15. QueueInv'
    BY <1>1, <2>1, <2>3, <2>13, <2>14 DEF QueueInv, Chunked, options
  <2> HIDE DEF Nothing
  <2>16. PcInv'
    BY <1>0, <1>1, <2>3, <2>9 DEF PcInv, Exhausted, HasRange, Nothing
  <2> QED
    BY <2>10, <2>11, <2>15, <2>16 DEF IInv
<1>8. CASE /\ ~q.errored /\ ~HasResult(q) /\ FrontReady(q)
           /\ q.tasks[1].st # "ok"
           /\ Return("err")
           /\ q' = FrontError(q)
           /\ UNCHANGED buf
  <2> DEFINE p == FrontError(q)
  <2>0. q.results = <<>> /\ q' = p
    BY <1>8 DEF HasResult
  <2>1. pc' = "idle" /\ reply' = "err" /\ cur' = Nothing /\ buf' = buf
    BY <1>8 DEF Return
  <2>2. Plain'
    BY <1>0, <1>1, <2>1 DEF Plain, options
  <2>3. /\ SoundQueue(Parts, p)
        /\ q.tasks[1].st = "temp" =>
              /\ ~p.errored /\ p.results = q.results
              /\ Len(p.tasks) = Len(q.tasks)
              /\ p.completed = q.completed - 1
              /\ Cardinality(Finished(p)) = Cardinality(Finished(q)) - 1
              /\ Pending(p) = Pending(q)
        /\ q.tasks[1].st # "temp" =>
              /\ p.errored /\ p.tasks = <<>> /\ p.results = <<>>
              /\ Pending(p) = <<>>
    BY <1>2, <1>8, ErrorSound
  <2>4. q.tasks[1].st = "temp" => Cardinality(FailedTasks(p)) = Cardinality(FailedTasks(q)) - 1
    BY <1>2, <1>8, FailedRelaunch
  <2> HIDE DEF p
  <2>5. p \in QueueType(Parts)
    BY <2>3 DEF SoundQueue
  <2>6. /\ Cardinality(FailedTasks(p)) \in Nat
        /\ Cardinality(Running(p)) = Len(p.tasks) - Cardinality(Finished(p))
        /\ p.tasks = <<>> => Cardinality(FailedTasks(p)) = 0
    BY <2>5, FailedFinite, RunningFinished
  <2>7. IsConcurrent(concurrent) /\ p.results = <<>>
    BY <1>0, <1>8, <2>0, <2>3 DEF QueueInv, FrontReady
  <2>8. /\ Cardinality(FailedTasks(q)) <= errors
        /\ Cardinality(Running(q)) + Cardinality(FailedTasks(q)) <= concurrent + errors
        /\ Len(q.tasks) <= concurrent + Prefetch
        /\ q.completed = Cardinality(Finished(q))
    BY <1>0, <1>8 DEF QueueInv
  <2>9. /\ Cardinality(FailedTasks(p)) <= errors
        /\ Cardinality(Running(p)) + Cardinality(FailedTasks(p)) <= concurrent + errors
        /\ Len(p.tasks) <= concurrent + Prefetch
        /\ ~p.errored => p.completed = Cardinality(Finished(p))
    <3>1. CASE q.tasks[1].st = "temp"
      <4> DEFINE a == Len(q.tasks)
                 b == Cardinality(Finished(q))
                 c == Cardinality(FailedTasks(q))
                 d == Cardinality(Running(q))
                 a1 == Len(p.tasks)
                 b1 == Cardinality(Finished(p))
                 c1 == Cardinality(FailedTasks(p))
                 d1 == Cardinality(Running(p))
      <4>1. /\ a \in Nat /\ b \in Nat /\ c \in Nat /\ d = a - b
            /\ concurrent \in Nat /\ Prefetch \in Nat /\ errors \in Nat
            /\ c <= errors /\ d + c <= concurrent + errors /\ a <= concurrent + Prefetch
        BY <1>3, <2>8
      <4>2. a1 = a /\ b1 = b - 1 /\ d1 = a1 - b1 /\ c1 = c - 1
        BY <2>3, <2>4, <2>6, <3>1
      <4>3. p.completed = b1
        BY <2>3, <2>8, <3>1
      <4> HIDE DEF a, b, c, d, a1, b1, c1, d1
      <4>4. c1 <= errors /\ d1 + c1 <= concurrent + errors /\ a1 <= concurrent + Prefetch
        BY <4>1, <4>2
      <4> QED
        BY <4>3, <4>4 DEF a1, b1, c1, d1
    <3>2. CASE q.tasks[1].st # "temp"
      <4>1. p.tasks = <<>> /\ p.errored
        BY <2>3, <3>2
      <4>2. Running(p) = {} /\ Len(p.tasks) = 0
        BY <4>1 DEF Running
      <4> QED
        BY <1>3, <2>6, <4>1, <4>2, FS_EmptySet
    <3> QED
      BY <3>1, <3>2
  <2>10. Len(p.results) <= 1
    BY <2>7
  <2>11. QueueInv'
    BY <1>1, <2>0, <2>3, <2>7, <2>9, <2>10 DEF QueueInv, Chunked, options
  <2>12. RangeInv'
    BY <1>0, <1>1, <2>1 DEF options, RangeInv, Chunked, Slots, Parts, Ranges, Offsets, Nothing, Object, Unknown
  <2>13. OrderInv'
    <3>1. CASE q.tasks[1].st = "temp"
      BY <1>0, <1>1, <2>0, <2>1, <2>3, <3>1 DEF OrderInv, Before, HasRange, IsEmpty, Nothing
    <3>2. CASE q.tasks[1].st # "temp"
      BY <1>0, <1>1, <2>0, <2>1, <2>3, <3>2 DEF OrderInv, Ordered, HasRange, IsEmpty, Nothing
    <3> QED
      BY <3>1, <3>2
  <2>14. CoverInv'
    <3>1. CASE q.tasks[1].st = "temp"
      <4>1. Held' = Held
        BY <1>1, <2>0, <2>1, <2>3, <3>1 DEF Held, Unasked, HasRange, Bytes
      <4> QED
        BY <1>0, <1>1, <1>8, <4>1, CoverKept DEF CoverInv
    <3>2. CASE q.tasks[1].st # "temp"
      BY <2>0, <2>3, <3>2 DEF CoverInv
    <3> QED
      BY <3>1, <3>2
  <2> HIDE DEF Nothing
  <2>15. PcInv'
    BY <1>0, <1>1, <2>0, <2>1 DEF PcInv, Exhausted, HasRange, IsEmpty, Nothing
  <2> QED
    BY <2>2, <2>11, <2>12, <2>13, <2>14, <2>15 DEF IInv
<1> QED
  BY <1>4, <1>5, <1>6, <1>7, <1>8 DEF TakeNext

\* The executor resolves a task.
LEMMA ResolveStep ==
  ASSUME IInv, NEW k \in 1..Len(q.tasks), NEW o \in Outcomes, TaskResolve(k, o)
  PROVE  IInv'
<1>0. Plain /\ RangeInv /\ QueueInv /\ PcInv /\ OrderInv /\ CoverInv
  BY DEF IInv
<1>1. /\ k \in Running(q)
      /\ IF o = "ok" THEN UNCHANGED errors ELSE FailError
      /\ known' \in {known, TRUE}
      /\ q' = Resolve(q, k, o)
      /\ UNCHANGED <<options, pos, seeks, drops, offset, remaining, opened, done, cur, pc, buf,
                     reply, missed>>
  BY DEF TaskResolve, chunkRest
<1> DEFINE p == Resolve(q, k, o)
<1>2. SoundQueue(Parts, q) /\ q \in QueueType(Parts)
  BY <1>0 DEF QueueInv, SoundQueue
<1>3. /\ SoundQueue(Parts, p) /\ p.errored = q.errored /\ p.completed = q.completed + 1
      /\ p.results = q.results /\ q.tasks # <<>>
      /\ Len(p.tasks) = Len(q.tasks)
      /\ Cardinality(Finished(p)) = Cardinality(Finished(q)) + 1
      /\ Pending(p) = Pending(q)
  BY <1>1, <1>2, ResolveSound
<1>4. Cardinality(FailedTasks(p)) = Cardinality(FailedTasks(q)) + (IF o = "ok" THEN 0 ELSE 1)
  BY <1>1, <1>2, FailedResolve
<1>5. q' = p
  BY <1>1
<1> HIDE DEF p
<1>6. p \in QueueType(Parts)
  BY <1>3 DEF SoundQueue
<1>7. /\ Len(q.tasks) \in Nat /\ Cardinality(Finished(q)) \in Nat
      /\ Cardinality(FailedTasks(q)) \in Nat /\ Cardinality(Running(q)) \in Nat
      /\ Cardinality(Running(q)) = Len(q.tasks) - Cardinality(Finished(q))
      /\ concurrent \in Nat /\ errors \in Nat /\ MaxErrors \in Nat
  BY <1>0, <1>2, PendingParts, LenProperties, FinishedFinite, FailedFinite, RunningFinished, Numbers
<1>8. Cardinality(Running(p)) = Len(p.tasks) - Cardinality(Finished(p))
  BY <1>6, RunningFinished
<1>9. /\ Cardinality(FailedTasks(q)) <= errors
      /\ Cardinality(Running(q)) + Cardinality(FailedTasks(q)) <= concurrent + errors
  BY <1>0 DEF QueueInv
<1>10. /\ o = "ok" => errors' = errors
       /\ o # "ok" => errors' = errors + 1 /\ errors < MaxErrors
  BY <1>1 DEF FailError
<1>11. errors' \in 0..MaxErrors
  BY <1>0, <1>7, <1>10 DEF Plain
<1>12. /\ Cardinality(FailedTasks(p)) <= errors'
       /\ Cardinality(Running(p)) + Cardinality(FailedTasks(p)) <= concurrent + errors'
  <2> DEFINE a == Len(q.tasks)
             b == Cardinality(Finished(q))
             c == Cardinality(FailedTasks(q))
             d == Cardinality(Running(q))
             a1 == Len(p.tasks)
             b1 == Cardinality(Finished(p))
             c1 == Cardinality(FailedTasks(p))
             d1 == Cardinality(Running(p))
  <2>1. /\ a \in Nat /\ b \in Nat /\ c \in Nat /\ d = a - b
        /\ concurrent \in Nat /\ errors \in Nat
        /\ c <= errors /\ d + c <= concurrent + errors
    BY <1>7, <1>9
  <2>2. a1 = a /\ b1 = b + 1 /\ d1 = a1 - b1
    BY <1>3, <1>8
  <2>3. \/ c1 = c /\ errors' = errors
        \/ c1 = c + 1 /\ errors' = errors + 1
    BY <1>4, <1>7, <1>10
  <2> HIDE DEF a, b, c, d, a1, b1, c1, d1
  <2>4. c1 <= errors' /\ d1 + c1 <= concurrent + errors'
    BY <2>1, <2>2, <2>3
  <2> QED
    BY <2>4 DEF c1, d1
<1>13. ~q.errored /\ Chunked /\ IsConcurrent(concurrent)
  BY <1>0, <1>2, <1>3, NewSound DEF QueueInv, SoundQueue
<1>14. QueueInv'
  BY <1>0, <1>1, <1>3, <1>5, <1>12, <1>13 DEF QueueInv, Chunked, options
<1>15. Plain'
  <2>1. known' \in BOOLEAN
    BY <1>0, <1>1 DEF Plain
  <2> QED
    BY <1>0, <1>1, <1>11, <2>1 DEF Plain, options
<1>16. RangeInv'
  BY <1>0, <1>1 DEF options, RangeInv, Chunked, Slots, Parts, Ranges, Offsets, Nothing, Object, Unknown
<1>17. OrderInv'
  BY <1>0, <1>1, <1>3, <1>5 DEF OrderInv, Before, HasRange, IsEmpty, Nothing
<1>18. Held' = Held
  BY <1>1, <1>3, <1>5 DEF Held, Unasked, HasRange, Bytes
<1>19. CoverInv'
  BY <1>0, <1>1, <1>13, <1>18, CoverKept DEF CoverInv
<1> HIDE DEF Nothing
<1>20. PcInv'
  BY <1>0, <1>1, <1>3, <1>5, <1>13 DEF PcInv, Exhausted, HasRange, IsEmpty, Chunked, options, Nothing
<1> QED
  BY <1>14, <1>15, <1>16, <1>17, <1>19, <1>20 DEF IInv

\* metadata() opens the next range.
LEMMA MetadataStep ==
  ASSUME IInv, Metadata
  PROVE  IInv'
<1>0. Plain /\ RangeInv /\ QueueInv /\ PcInv
  BY DEF IInv
<1>1. /\ pc = "idle" /\ opened = Nothing /\ cur = Nothing
      /\ UNCHANGED <<options, q, buf, pos, reply, errors, seeks, opened, known, missed, drops>>
  BY <1>0 DEF Metadata, metaRest, PcInv
<1>2. q.results = <<>> /\ errors \in Nat
  BY <1>0, <1>1, Numbers DEF QueueInv
<1>3. QueueInv'
  BY <1>0, <1>1, <1>2, QueueKept DEF options
<1>4. CASE HasRange /\ AdvanceRange /\ cur' = NextRange /\ pc' = "meta" /\ UNCHANGED done
  <2>1. HasInput /\ TakeInput /\ cur' = Input
    BY <1>1, <1>4 DEF HasInput, TakeInput, Input
  <2>2. RangeInv' /\ OrderInv' /\ CoverInv'
    BY <1>1, <2>1, InputToCur DEF options
  <2>3. NextRange # Nothing
    BY <1>0, <1>4, NextRangeFacts
  <2>4. Plain'
    BY <1>0, <1>1, <1>4 DEF Plain, options
  <2> HIDE DEF Nothing, NextRange
  <2>5. ~done /\ reply # "eof"
    BY <1>0, <1>4 DEF PcInv, Exhausted
  <2>6. PcInv'
    BY <1>0, <1>1, <1>4, <2>3, <2>5 DEF PcInv, IsEmpty
  <2> QED
    BY <1>3, <2>2, <2>4, <2>6 DEF IInv
<1>5. CASE ~HasRange /\ done' = Chunked /\ UNCHANGED <<offset, remaining, cur, pc>>
  <2>1. RangeInv' /\ OrderInv' /\ CoverInv'
    BY <1>1, <1>5, NoMove
  <2>2. done' \in BOOLEAN
    BY <1>5 DEF Chunked
  <2>3. Plain'
    BY <1>0, <1>1, <1>5, <2>2 DEF Plain, options
  <2> HIDE DEF Nothing
  <2>4. Exhausted' /\ Exhausted
    BY <1>1, <1>5 DEF Exhausted, HasRange, Nothing
  <2>5. PcInv'
    BY <1>0, <1>1, <1>5, <2>4 DEF PcInv, IsEmpty, Nothing
  <2> QED
    BY <1>3, <2>1, <2>3, <2>5 DEF IInv
<1> QED
  BY <1>4, <1>5 DEF Metadata

LEMMA MetadataEndsStep ==
  ASSUME IInv, MetadataEnds
  PROVE  IInv'
<1>0. Plain /\ RangeInv /\ QueueInv /\ PcInv
  BY DEF IInv
<1>1. /\ pc = "meta" /\ pc' = "idle" /\ cur # Nothing /\ cur' = Nothing /\ opened = Nothing
      /\ ~done /\ reply # "eof"
      /\ UNCHANGED <<options, offset, remaining, q, done, buf, pos, reply, seeks, drops>>
  BY <1>0 DEF MetadataEnds, PcInv, Exhausted
<1>2. q.results = <<>> /\ errors \in Nat
  BY <1>0, <1>1, Numbers DEF QueueInv
<1>3. CASE /\ opened' = cur /\ known' \in {known, TRUE}
           /\ UNCHANGED <<missed, errors>>
  <2>1. RangeInv' /\ OrderInv' /\ CoverInv'
    BY <1>1, <1>3, CurOpened
  <2>2. known' \in BOOLEAN
    BY <1>0, <1>3 DEF Plain
  <2>3. Plain'
    BY <1>0, <1>1, <1>3, <2>2 DEF Plain, options
  <2>4. QueueInv'
    BY <1>0, <1>1, <1>2, <1>3, QueueKept DEF options
  <2> HIDE DEF Nothing
  <2>5. PcInv'
    BY <1>0, <1>1, <1>3 DEF PcInv, IsEmpty
  <2> QED
    BY <2>1, <2>3, <2>4, <2>5 DEF IInv
<1>4. CASE FailError /\ Miss(cur) /\ UNCHANGED <<opened, known>>
  <2>1. errors' = errors + 1 /\ errors' \in 0..MaxErrors /\ errors' \in Nat /\ errors <= errors'
    BY <1>0, <1>4, Numbers DEF FailError
  <2>2. RangeInv' /\ OrderInv' /\ CoverInv'
    BY <1>1, <1>4, CurMissed DEF options
  <2>3. Plain'
    BY <1>0, <1>1, <1>4, <2>1 DEF Plain, options
  <2>4. QueueInv'
    BY <1>0, <1>1, <1>2, <2>1, QueueKept DEF options
  <2> HIDE DEF Nothing
  <2>5. PcInv'
    BY <1>0, <1>1, <1>4 DEF PcInv, IsEmpty
  <2> QED
    BY <2>2, <2>3, <2>4, <2>5 DEF IInv
<1> QED
  BY <1>3, <1>4 DEF MetadataEnds

LEMMA DropMetadataStep ==
  ASSUME IInv, DropMetadata
  PROVE  IInv'
<1>0. Plain /\ RangeInv /\ QueueInv /\ PcInv
  BY DEF IInv
<1>1. /\ pc = "meta" /\ pc' = "gone" /\ cur # Nothing /\ cur' = Nothing
      /\ opened = Nothing /\ opened' = opened
      /\ drops < MaxDrops /\ drops' = drops + 1 /\ Miss(cur)
      /\ UNCHANGED <<options, q, buf, pos, reply, errors, seeks, offset, remaining, done, known>>
  BY <1>0 DEF DropMetadata, metaRest, PcInv
<1>2. q.results = <<>> /\ errors \in Nat
  BY <1>0, <1>1, Numbers DEF QueueInv
<1>3. RangeInv' /\ OrderInv' /\ CoverInv'
  BY <1>1, CurMissed DEF options
<1>4. drops' \in 0..MaxDrops
  BY <1>0, <1>1, Numbers
<1>5. Plain'
  BY <1>0, <1>1, <1>4 DEF Plain, options
<1>6. QueueInv'
  BY <1>0, <1>1, <1>2, QueueKept DEF options
<1> HIDE DEF Nothing
<1>7. PcInv'
  BY <1>0, <1>1, <1>4 DEF PcInv, IsEmpty, Exhausted
<1> QED
  BY <1>3, <1>5, <1>6, <1>7 DEF IInv

---------------------------------------------------------------------------
(* The owner takes bytes. *)

\* Whatever is ahead of a buffer lies beyond it.
LEMMA BufferFirst ==
  ASSUME IInv, ~IsEmpty(buf)
  PROVE  /\ \A a \in SeqBytes(Pending(q)) \cup Bytes(cur) \cup Bytes(opened) \cup Unasked :
              a \in Nat /\ buf.to <= a
         /\ buf \in Slots /\ buf.from \in Nat /\ buf.to \in Nat /\ buf.from < buf.to
         /\ Start <= buf.from /\ buf.to <= End /\ buf # Nothing
<1>0. Plain /\ RangeInv /\ QueueInv /\ OrderInv
  BY DEF IInv
<1>1. buf \in Slots /\ cur \in Slots /\ opened \in Slots /\ offset \in Nat
  BY <1>0, Numbers DEF RangeInv
<1>2. buf.from \in Nat /\ buf.to \in Nat /\ buf.from < buf.to
      /\ Start <= buf.from /\ buf.to <= End /\ buf # Nothing
  <2>1. buf # Nothing
    BY <1>0, SlotFacts
  <2> QED
    BY <1>0, <1>1, <2>1, SlotFacts DEF IsEmpty
<1>3. buf.to <= cur.from /\ buf.to <= opened.from /\ (HasRange => buf.to <= offset)
  BY <1>0 DEF OrderInv, Before
<1>4. ASSUME NEW r \in Slots, buf.to <= r.from, NEW a \in Bytes(r) PROVE a \in Nat /\ buf.to <= a
  <2>1. r.from \in Nat /\ r.to \in Nat
    BY <1>0, SlotFacts
  <2> QED
    BY <1>2, <1>4, <2>1 DEF Bytes
<1>5. ASSUME NEW a \in SeqBytes(Pending(q)) PROVE a \in Nat /\ buf.to <= a
  <2>1. PICK k \in 1..Len(Pending(q)) : a \in Bytes(Pending(q)[k])
    BY <1>5 DEF SeqBytes
  <2>2. Pending(q)[k] \in Slots
    BY <1>0, PendingParts, SlotFacts
  <2>3. buf.to <= Pending(q)[k].from
    BY <1>0 DEF OrderInv
  <2> QED
    BY <1>4, <2>1, <2>2, <2>3
<1>6. ASSUME NEW a \in Unasked PROVE a \in Nat /\ buf.to <= a
  BY <1>0, <1>1, <1>2, <1>3, <1>6, Numbers DEF Unasked
<1> QED
  BY <1>1, <1>2, <1>3, <1>4, <1>5, <1>6

\* The number of bytes of a range.
LEMMA IntervalSize ==
  ASSUME NEW a \in Nat, NEW b \in Nat, a <= b
  PROVE  IsFiniteSet(a..(b - 1)) /\ Cardinality(a..(b - 1)) = b - a
<1> DEFINE c == b - 1
<1>1. a \in Int /\ c \in Int /\ (a > c => b - a = 0) /\ (~(a > c) => c - a + 1 = b - a)
  OBVIOUS
<1> HIDE DEF c
<1>2. IsFiniteSet(a..c) /\ Cardinality(a..c) = IF a > c THEN 0 ELSE c - a + 1
  BY <1>1, FS_Interval
<1>3. IsFiniteSet(a..c) /\ Cardinality(a..c) = b - a
  BY <1>1, <1>2
<1> QED
  BY <1>3 DEF c

\* A range cut in two.
LEMMA IntervalCut ==
  ASSUME NEW a \in Nat, NEW o \in Nat, NEW b \in Nat, a <= o, o <= b
  PROVE  /\ \A c \in a..(o - 1), d \in o..(b - 1) : c < d
         /\ b - o = 0 => o..(b - 1) = {}
OBVIOUS

\* n bytes leave the front of the buffer.
LEMMA FrontConsumed ==
  ASSUME IInv, ~IsEmpty(buf), NEW n \in Nat, n <= buf.to - buf.from,
         buf' = [buf EXCEPT !.from = buf.from + n], pos' = pos + n,
         UNCHANGED <<options, offset, remaining, opened, q, cur, missed>>
  PROVE  RangeInv' /\ OrderInv' /\ CoverInv' /\ ~q.errored /\ pos' \in 0..(End - Start)
<1>0. Plain /\ RangeInv /\ QueueInv /\ PcInv /\ OrderInv /\ CoverInv
  BY DEF IInv
<1>1. ~q.errored
  BY <1>0 DEF PcInv
<1> DEFINE Rest == SeqBytes(Pending(q)) \cup Bytes(cur) \cup Bytes(opened) \cup Unasked
           mid == buf.from + n
           Taken == buf.from..(mid - 1)
           Left == mid..(buf.to - 1)
<1>2. /\ \A a \in Rest : a \in Nat /\ buf.to <= a
      /\ buf \in Slots /\ buf.from \in Nat /\ buf.to \in Nat /\ buf.from < buf.to
      /\ Start <= buf.from /\ buf.to <= End
  BY BufferFirst
<1>3. mid \in Nat /\ buf.from <= mid /\ mid <= buf.to /\ Start <= mid
  BY <1>0, <1>2, Numbers
<1>4. buf' = [from |-> mid, to |-> buf.to]
  BY <1>2 DEF Slots, Ranges
<1>5. buf' \in Slots /\ buf'.from = mid /\ buf'.to = buf.to
  BY <1>0, <1>2, <1>3, <1>4, MakeSlot
<1>6. Bytes(buf) = Taken \cup Left /\ Bytes(buf)' = Left
  BY <1>2, <1>3, <1>5 DEF Bytes
<1>7. Held = Taken \cup Left \cup Rest
  BY <1>6 DEF Held
<1>8. Held' = Left \cup Rest
  BY <1>6 DEF Held, Bytes, Unasked, HasRange
<1>9. \A t \in Taken, a \in Left \cup Rest : t < a
  BY <1>2, <1>3
<1>10. RangeInv'
  BY <1>0, <1>5 DEF options, RangeInv, Chunked, Slots, Parts, Ranges, Offsets, Nothing, Object, Unknown
<1>11. OrderInv'
  <2>1. \A x : Before(x)' = Before(x)
    BY DEF Before, HasRange
  <2>2. Before(buf.to)
    BY <1>0 DEF OrderInv
  <2>3. PICK b : b = buf.to
    OBVIOUS
  <2>4. Before(b)' /\ buf'.to = b
    BY <1>5, <2>1, <2>2, <2>3
  <2>5. Before(buf.to)'
    BY <2>4 DEF Before
  <2>6. \A k \in 1..Len(Pending(q)) : Before(Pending(q)[k].to)'
    BY <1>0 DEF OrderInv, Before, HasRange
  <2>7. \A k \in 1..Len(Pending(q)) : buf'.to <= Pending(q)[k].from
    BY <1>0, <1>5 DEF OrderInv
  <2> QED
    BY <1>0, <2>5, <2>6, <2>7 DEF OrderInv, HasRange, Nothing
<1> HIDE DEF Rest, mid, Taken, Left
<1>12. /\ Held \subseteq Object /\ Held \cap missed = {}
       /\ \A c \in Consumed, a \in Held : c < a
       /\ Cardinality(Consumed) = pos
  BY <1>0, <1>1 DEF CoverInv
<1>13. Taken \cap (Left \cup Rest) = {}
  <2>1. \A t \in Taken : t \in Nat
    BY <1>2, <1>3 DEF Taken
  <2> QED
    BY <1>9, <2>1
<1>14. Consumed' = Consumed \cup Taken /\ Consumed \cap Taken = {}
  BY <1>7, <1>8, <1>12, <1>13 DEF Consumed, Object
<1>15. IsFiniteSet(Object) /\ Cardinality(Object) = End - Start
  BY <1>0, Numbers, IntervalSize DEF Object
<1>16. Consumed \in SUBSET Object /\ Consumed' \in SUBSET Object
  BY <1>7, <1>12, <1>14 DEF Consumed
<1>17. IsFiniteSet(Taken) /\ Cardinality(Taken) = n
  <2>1. mid - buf.from = n
    BY <1>2 DEF mid
  <2> QED
    BY <1>2, <1>3, <2>1, IntervalSize DEF Taken
<1>18. Cardinality(Consumed') = pos + n
  <2>1. IsFiniteSet(Consumed)
    BY <1>15, <1>16, FS_Subset
  <2>2. Cardinality(Consumed \cup Taken) = Cardinality(Consumed) + Cardinality(Taken) - Cardinality({})
    BY <1>14, <1>17, <2>1, FS_Union
  <2> QED
    BY <1>0, <1>12, <1>14, <1>17, <2>2, FS_EmptySet, Numbers
<1>19. pos' \in 0..(End - Start)
  <2>1. Cardinality(Consumed') <= End - Start
    BY <1>15, <1>16, FS_Subset
  <2>2. pos \in Nat
    BY <1>0, Numbers
  <2> QED
    BY <1>18, <2>1, <2>2
<1>20. \A c \in Consumed', a \in Held' : c < a
  BY <1>7, <1>8, <1>9, <1>12, <1>14
<1>21. CoverInv'
  <2>1. Held' \subseteq Object /\ Held' \cap missed' = {}
    BY <1>7, <1>8, <1>12
  <2>2. Cardinality(Consumed') = pos'
    BY <1>18
  <2> QED
    BY <1>20, <2>1, <2>2 DEF CoverInv, Object
<1> QED
  BY <1>1, <1>10, <1>11, <1>19, <1>21

LEMMA TakeBytesStep ==
  ASSUME IInv, NEW n \in 1..(End - Start), TakeBytes(n)
  PROVE  IInv'
<1>0. Plain /\ RangeInv /\ QueueInv /\ PcInv
  BY DEF IInv
<1>1. /\ ~IsEmpty(buf) /\ n \in Nat /\ n <= buf.to - buf.from
      /\ buf' = [buf EXCEPT !.from = buf.from + n] /\ pos' = pos + n
      /\ UNCHANGED <<options, offset, remaining, opened, q, done, cur, pc, known, reply, missed,
                     errors, seeks, drops>>
  BY DEF TakeBytes, reader, bounds
<1>2. RangeInv' /\ OrderInv' /\ CoverInv' /\ ~q.errored /\ pos' \in 0..(End - Start)
  BY <1>1, FrontConsumed
<1>3. Plain'
  BY <1>0, <1>1, <1>2 DEF Plain, options
<1>4. QueueInv'
  <2>1. q.results # <<>> => pc' = "next"
    BY <1>0, <1>1 DEF QueueInv
  <2> QED
    BY <1>0, <1>1, <2>1, QueueKept, Numbers DEF options
<1>5. pc \notin {"stream", "open", "fill", "inline", "next"} /\ reply # "eof"
  BY <1>0, <1>1 DEF PcInv
<1> HIDE DEF Nothing
<1>6. PcInv'
  BY <1>0, <1>1, <1>2, <1>5 DEF PcInv, Exhausted, HasRange, Nothing
<1> QED
  BY <1>2, <1>3, <1>4, <1>6 DEF IInv

\* A seek inside the buffer takes bytes; elsewhere it starts a new stream.
LEMMA SeekStep ==
  ASSUME IInv, NEW new \in 0..(End - Start), Seek(new)
  PROVE  IInv'
<1>0. Plain /\ RangeInv /\ QueueInv /\ PcInv
  BY DEF IInv
<1>1. /\ seeks < MaxSeeks /\ seeks' = seeks + 1 /\ pos' = new
      /\ UNCHANGED <<options, known, errors, drops>>
      /\ Start \in Nat /\ End \in Nat /\ Start <= End /\ new \in Nat /\ new <= End - Start
      /\ seeks' \in 0..MaxSeeks /\ pos \in Nat
  BY <1>0, Numbers DEF Seek
<1>2. CASE SeekInBuffer(new)
  <2> DEFINE n == new - pos
  <2>1. /\ buf' = [buf EXCEPT !.from = buf.from + n]
        /\ UNCHANGED <<offset, remaining, opened, q, done, cur, pc, reply, missed>>
    BY <1>2 DEF SeekInBuffer, reader
  <2>2. pos <= new /\ new < pos + (buf.to - buf.from)
    BY <1>2 DEF SeekInBuffer, InBuffer
  <2>3. buf.to \in Nat /\ buf.from \in Nat
    BY <1>0, SlotFacts DEF RangeInv
  <2>4. n \in Nat /\ n <= buf.to - buf.from /\ ~IsEmpty(buf) /\ pos' = pos + n
    BY <1>1, <2>2, <2>3 DEF IsEmpty
  <2> HIDE DEF n
  <2>5. RangeInv' /\ OrderInv' /\ CoverInv' /\ ~q.errored /\ pos' \in 0..(End - Start)
    BY <1>1, <2>1, <2>4, FrontConsumed
  <2>6. Plain'
    BY <1>0, <1>1, <2>1, <2>5 DEF Plain, options
  <2>7. QueueInv'
    <3>1. q.results # <<>> => pc' = "next"
      BY <1>0, <2>1 DEF QueueInv
    <3> QED
      BY <1>0, <1>1, <2>1, <3>1, QueueKept, Numbers DEF options
  <2>8. pc \notin {"stream", "open", "fill", "inline", "next"} /\ reply # "eof"
    BY <1>0, <2>4 DEF PcInv
  <2> HIDE DEF Nothing
  <2>9. PcInv'
    BY <1>0, <1>1, <2>1, <2>5, <2>8 DEF PcInv, Exhausted, HasRange, Nothing
  <2> QED
    BY <2>5, <2>6, <2>7, <2>9 DEF IInv
<1>3. CASE SeekElsewhere(new)
  <2>1. /\ buf' = Nothing /\ offset' = new + Start /\ remaining' = End - Start - new
        /\ opened' = Nothing /\ q' = NewQueue /\ done' = FALSE
        /\ cur' = Nothing /\ pc' = "idle" /\ reply' = "none" /\ missed' = {}
    BY <1>3 DEF SeekElsewhere
  <2>2. Plain'
    BY <1>0, <1>1, <2>1 DEF Plain, options
  <2>3. Nothing \in Slots /\ Bytes(Nothing) = {} /\ IsEmpty(Nothing)
    BY <1>0, SlotFacts
  <2>4. /\ SoundQueue(Parts, NewQueue) /\ Pending(NewQueue) = <<>>
        /\ NewQueue.tasks = <<>> /\ NewQueue.results = <<>>
        /\ ~NewQueue.errored /\ NewQueue.completed = 0
        /\ Cardinality(Finished(NewQueue)) = 0
    BY NewSound, NewQueueFacts
  <2>5. Cardinality(Running(NewQueue)) = 0 /\ Cardinality(FailedTasks(NewQueue)) = 0
    <3>1. NewQueue \in QueueType(Parts)
      BY <2>4 DEF SoundQueue
    <3> QED
      BY <2>4, <3>1, FailedFinite, RunningFinished
  <2> HIDE DEF Nothing
  <2>6. QueueInv'
    <3>1. Len(NewQueue.tasks) = 0 /\ Len(NewQueue.results) = 0
      BY <2>4
    <3>2. concurrent \in Nat /\ Prefetch \in Nat /\ errors \in Nat
      BY <1>0, Numbers
    <3> QED
      BY <1>1, <2>1, <2>4, <2>5, <3>1, <3>2 DEF QueueInv, options
  <2>7. /\ offset' \in Start..End /\ remaining' = End - offset'
        /\ offset'..(End - 1) \subseteq Object
        /\ Object \ (offset'..(End - 1)) = Start..(offset' - 1)
        /\ Start <= offset' /\ offset' \in Nat /\ offset' - Start = new
    BY <1>1, <2>1 DEF Object
  <2>8. RangeInv'
    BY <2>1, <2>3, <2>7 DEF RangeInv, Slots, Parts, Ranges, Offsets, Object, Nothing
  <2>9. PcInv'
    BY <2>1, <2>3, <2>4 DEF PcInv, IsEmpty, Nothing
  <2>10. OrderInv'
    BY <2>1, <2>3, <2>4 DEF OrderInv, Ordered, IsEmpty, Nothing
  <2>11. CoverInv'
    <3>0. offset' <= End
      BY <1>1, <2>1
    <3>1. SeqBytes(<<>>) = {}
      BY DEF SeqBytes
    <3>2. Held' = Unasked'
      BY <2>1, <2>3, <2>4, <3>1 DEF Held, Bytes
    <3>3. Unasked' = offset'..(End - 1)
      <4>1. remaining' = 0 => offset'..(End - 1) = {}
        BY <1>1, <2>7, <3>0, IntervalCut
      <4> QED
        BY <4>1 DEF Unasked, HasRange
    <3>4. Consumed' = Start..(offset' - 1)
      BY <2>1, <2>7, <3>2, <3>3 DEF Consumed, Object
    <3>5. Cardinality(Consumed') = new
      BY <1>1, <2>7, <3>4, IntervalSize
    <3>6. \A c \in Consumed', a \in Held' : c < a
      <4>1. \A c \in Start..(offset' - 1), a \in offset'..(End - 1) : c < a
        BY <1>1, <2>7, <3>0, IntervalCut
      <4> QED
        BY <3>2, <3>3, <3>4, <4>1
    <3>7. Held' \subseteq Object /\ Held' \cap missed' = {}
      BY <2>1, <2>7, <3>2, <3>3
    <3> QED
      BY <1>1, <3>5, <3>6, <3>7 DEF CoverInv, Object
  <2> QED
    BY <2>2, <2>6, <2>8, <2>9, <2>10, <2>11 DEF IInv
<1> QED
  BY <1>2, <1>3 DEF Seek

\* A step that changes nothing.
LEMMA StutterStep ==
  ASSUME IInv, UNCHANGED vars
  PROVE  IInv'
<1>0. Plain /\ QueueInv /\ PcInv
  BY DEF IInv
<1>1. UNCHANGED <<options, offset, remaining, opened, q, done, cur, pc, known, buf, pos, reply,
                  missed, errors, seeks, drops>>
  BY DEF vars, reader, bounds
<1>2. RangeInv' /\ OrderInv' /\ CoverInv'
  BY <1>1, NoMove
<1>3. Plain'
  BY <1>0, <1>1 DEF Plain, options
<1>4. QueueInv'
  <2>1. q.results # <<>> => pc' = "next"
    BY <1>0, <1>1 DEF QueueInv
  <2> QED
    BY <1>0, <1>1, <2>1, QueueKept, Numbers DEF options
<1> HIDE DEF Nothing
<1>5. PcInv'
  BY <1>0, <1>1 DEF PcInv, Exhausted, HasRange, IsEmpty, Chunked, options, Nothing
<1> QED
  BY <1>2, <1>3, <1>4, <1>5 DEF IInv

\* Every step keeps the invariant.
LEMMA StepInv == IInv /\ [Next]_vars => IInv'
<1> SUFFICES ASSUME IInv, [Next]_vars PROVE IInv'
  OBVIOUS
<1>1. ASSUME PollNext \/ PollNextPanics \/ MetadataPanics PROVE IInv'
  BY <1>1, PollNextStep
<1>2. ASSUME StreamOpen PROVE IInv'
  BY <1>2, StreamOpenStep
<1>3. ASSUME StreamOpened PROVE IInv'
  BY <1>3, StreamOpenedStep
<1>4. ASSUME StreamRead PROVE IInv'
  BY <1>4, StreamReadStep
<1>5. ASSUME FillRefused PROVE IInv'
  BY <1>5, FillRefusedStep
<1>6. ASSUME FillPush PROVE IInv'
  BY <1>6, FillPushStep
<1>7. ASSUME FillInline PROVE IInv'
  BY <1>7, FillInlineStep
<1>8. ASSUME FillEnds PROVE IInv'
  BY <1>8, FillEndsStep
<1>9. ASSUME FillInlineEnds PROVE IInv'
  BY <1>9, FillInlineEndsStep
<1>10. ASSUME TakeNext PROVE IInv'
  BY <1>10, TakeNextStep
<1>11. ASSUME NEW k \in 1..Len(q.tasks), NEW outcome \in Outcomes, TaskResolve(k, outcome)
       PROVE  IInv'
  BY <1>11, ResolveStep
<1>12. ASSUME Metadata PROVE IInv'
  BY <1>12, MetadataStep
<1>13. ASSUME MetadataEnds PROVE IInv'
  BY <1>13, MetadataEndsStep
<1>14. ASSUME DropMetadata PROVE IInv'
  BY <1>14, DropMetadataStep
<1>15. ASSUME NEW n \in 1..(End - Start), TakeBytes(n) PROVE IInv'
  BY <1>15, TakeBytesStep
<1>16. ASSUME NEW new \in 0..(End - Start), Seek(new) PROVE IInv'
  BY <1>16, SeekStep
<1>17. ASSUME UNCHANGED vars PROVE IInv'
  BY <1>17, StutterStep
<1> QED
  BY <1>1, <1>2, <1>3, <1>4, <1>5, <1>6, <1>7, <1>8, <1>9, <1>10, <1>11, <1>12, <1>13, <1>14,
     <1>15, <1>16, <1>17 DEF Next

\* The invariant holds for ever.
THEOREM Inductive == Spec => []IInv
<1>1. Init => IInv
  BY InitInv
<1>2. IInv /\ [Next]_vars => IInv'
  BY StepInv
<1> QED
  BY <1>1, <1>2, PTL DEF Spec

---------------------------------------------------------------------------
(* What follows from the invariant. *)

LEMMA InvType == IInv => TypeOK
<1> SUFFICES ASSUME IInv PROVE TypeOK
  OBVIOUS
<1>0. Plain /\ RangeInv /\ QueueInv
  BY DEF IInv
<1>1. offset \in Start..End /\ remaining \in 0..Unknown
  BY <1>0, Numbers DEF RangeInv, Unknown
<1>2. opened \in Ranges /\ cur \in Ranges /\ buf \in Ranges /\ missed \subseteq Start..(End - 1)
  BY <1>0, SlotFacts DEF RangeInv, Object
<1>3. q \in QueueType(Ranges)
  <2>1. q \in QueueType(Parts)
    BY <1>0, PendingParts
  <2>2. Parts \subseteq Ranges
    BY DEF Parts
  <2>3. TaskType(Parts) \subseteq TaskType(Ranges)
    BY <2>2 DEF TaskType
  <2>4. q.tasks \in Seq(TaskType(Ranges)) /\ q.results \in Seq(Ranges)
    <3>1. q.tasks \in Seq(TaskType(Parts)) /\ q.results \in Seq(Parts)
      BY <1>0, PendingParts
    <3> QED
      BY <2>2, <2>3, <3>1
  <2> QED
    BY <2>1, <2>4 DEF QueueType
<1> QED
  BY <1>0, <1>1, <1>2, <1>3 DEF TypeOK, Plain

LEMMA InvBounded == IInv => BoundedAhead
<1> SUFFICES ASSUME IInv PROVE BoundedAhead
  OBVIOUS
<1>0. Plain /\ QueueInv
  BY DEF IInv
<1> DEFINE a == Len(q.results)
           b == Len(q.tasks)
           c == Len(Pending(q))
           f == Cardinality(FailedTasks(q))
           r == Cardinality(Running(q))
<1>1. a \in Nat /\ b \in Nat /\ c = a + b
  BY <1>0, PendingParts, LenProperties
<1>2. concurrent \in Nat /\ concurrent >= 1 /\ Prefetch \in Nat /\ errors \in Nat
  BY <1>0, Numbers
<1>3. a <= 1 /\ (a = 0 \/ b = 0)
  BY <1>0 DEF QueueInv
<1>4. b <= concurrent + Prefetch /\ r + f <= concurrent + errors
  BY <1>0 DEF QueueInv
<1>5. f \in Nat /\ r \in Nat
  BY <1>0, PendingParts, FailedFinite, FinishedFinite
<1> HIDE DEF a, b, c, f, r
<1>6. c <= concurrent + Prefetch
  BY <1>1, <1>2, <1>3, <1>4
<1>7. r <= concurrent + errors
  BY <1>2, <1>4, <1>5
<1> QED
  BY <1>6, <1>7 DEF BoundedAhead, c, r

\* The list Ahead of the property, by its parts.
LEMMA AheadParts ==
  ASSUME IInv
  PROVE  /\ Len(Ahead) = Len(Pending(q)) + (IF HasRange THEN 4 ELSE 3)
         /\ Ahead[1] = buf
         /\ \A k \in 1..Len(Pending(q)) : Ahead[k + 1] = Pending(q)[k]
         /\ Ahead[Len(Pending(q)) + 2] = cur
         /\ Ahead[Len(Pending(q)) + 3] = opened
         /\ HasRange => Ahead[Len(Pending(q)) + 4] = [from |-> offset, to |-> End]
<1>0. Plain /\ RangeInv /\ QueueInv
  BY DEF IInv
<1> DEFINE s == Pending(q)
           u == [from |-> offset, to |-> End]
           t == IF HasRange THEN <<u>> ELSE <<>>
           l == Len(s)
<1>1. s \in Seq(Ranges) /\ buf \in Ranges /\ cur \in Ranges /\ opened \in Ranges /\ u \in Ranges
  <2>1. s \in Seq(Parts)
    BY <1>0, PendingParts
  <2>2. Parts \subseteq Ranges
    BY DEF Parts
  <2>3. s \in Seq(Ranges)
    BY <2>1, <2>2
  <2>4. offset \in Nat /\ Start <= offset /\ offset <= End
    BY <1>0, Numbers DEF RangeInv
  <2>5. u \in Slots
    BY <1>0, <2>4, MakeSlot, Numbers
  <2> QED
    BY <1>0, <2>3, <2>5, SlotFacts DEF RangeInv
<1>2. Ahead = <<buf>> \o s \o <<cur, opened>> \o t
  BY DEF Ahead
<1> HIDE DEF s, u
<1>3. t \in Seq(Ranges) /\ Len(t) = (IF HasRange THEN 1 ELSE 0) /\ (HasRange => t[1] = u)
  BY <1>1
<1> HIDE DEF t
<1>4. l \in Nat
  BY <1>1, LenProperties
<1> DEFINE x == <<buf>> \o s
           y == x \o <<cur, opened>>
<1>5. /\ <<buf>> \in Seq(Ranges) /\ Len(<<buf>>) = 1 /\ <<buf>>[1] = buf
      /\ <<cur, opened>> \in Seq(Ranges) /\ Len(<<cur, opened>>) = 2
      /\ <<cur, opened>>[1] = cur /\ <<cur, opened>>[2] = opened
  BY <1>1
<1>6. /\ x \in Seq(Ranges) /\ Len(x) = l + 1 /\ x[1] = buf
      /\ \A k \in 1..l : x[k + 1] = s[k]
  BY <1>1, <1>4, <1>5
<1> HIDE DEF x, l
<1>7. /\ y \in Seq(Ranges) /\ Len(y) = l + 3
      /\ \A k \in 1..(l + 1) : y[k] = x[k]
      /\ y[l + 2] = cur /\ y[l + 3] = opened
  BY <1>4, <1>5, <1>6
<1> HIDE DEF y
<1>8. /\ Len(y \o t) = l + 3 + Len(t)
      /\ \A k \in 1..(l + 3) : (y \o t)[k] = y[k]
      /\ HasRange => (y \o t)[l + 4] = u
  <2>1. y \in Seq(Ranges) /\ t \in Seq(Ranges) /\ Len(y) = l + 3 /\ Len(t) \in Nat
    BY <1>3, <1>7, LenProperties
  <2>2. /\ Len(y \o t) = Len(y) + Len(t)
        /\ \A k \in 1..(Len(y) + Len(t)) :
             (y \o t)[k] = IF k <= Len(y) THEN y[k] ELSE t[k - Len(y)]
    BY <2>1, ConcatProperties
  <2>3. \A k \in 1..(l + 3) : (y \o t)[k] = y[k]
    BY <1>4, <2>1, <2>2
  <2>4. HasRange => (y \o t)[l + 4] = u
    <3> SUFFICES ASSUME HasRange PROVE (y \o t)[l + 4] = u
      OBVIOUS
    <3>1. Len(t) = 1 /\ t[1] = u
      BY <1>3
    <3>2. l + 4 \in 1..(Len(y) + Len(t)) /\ ~(l + 4 <= Len(y)) /\ l + 4 - Len(y) = 1
      BY <1>4, <2>1, <3>1
    <3> QED
      BY <2>2, <3>1, <3>2
  <2> QED
    BY <2>1, <2>2, <2>3, <2>4
<1>9. Ahead = y \o t
  BY <1>2 DEF x, y
<1>10. /\ 1 \in 1..(l + 3) /\ 1 \in 1..(l + 1) /\ l + 2 \in 1..(l + 3) /\ l + 3 \in 1..(l + 3)
       /\ \A k \in 1..l : k + 1 \in 1..(l + 3) /\ k + 1 \in 1..(l + 1)
  BY <1>4
<1>11. /\ Ahead[1] = buf /\ Ahead[l + 2] = cur /\ Ahead[l + 3] = opened
       /\ \A k \in 1..l : Ahead[k + 1] = s[k]
       /\ HasRange => Ahead[l + 4] = u
  BY <1>6, <1>7, <1>8, <1>9, <1>10
<1>12. Len(Ahead) = l + (IF HasRange THEN 4 ELSE 3)
  BY <1>3, <1>4, <1>8, <1>9
<1> QED
  BY <1>11, <1>12 DEF l, s, u

LEMMA AheadHeld == IInv => AheadBytes = Held
<1> SUFFICES ASSUME IInv PROVE AheadBytes = Held
  OBVIOUS
<1>0. Plain /\ RangeInv /\ QueueInv
  BY DEF IInv
<1> DEFINE s == Pending(q)
           l == Len(s)
           u == [from |-> offset, to |-> End]
           A == Ahead
<1>1. l \in Nat
  BY <1>0, PendingParts
<1>2. /\ Len(A) = l + (IF HasRange THEN 4 ELSE 3)
      /\ A[1] = buf
      /\ \A k \in 1..l : A[k + 1] = s[k]
      /\ A[l + 2] = cur /\ A[l + 3] = opened
      /\ HasRange => A[l + 4] = u
  BY AheadParts
<1>3. HasRange => Bytes(u) = Unasked
  BY DEF Bytes, Unasked
<1>4. ~HasRange => Unasked = {}
  BY DEF Unasked
<1>5. AheadBytes = UNION {Bytes(A[k]) : k \in 1..Len(A)}
  BY DEF AheadBytes
<1>6. Held = Bytes(buf) \cup SeqBytes(s) \cup Bytes(cur) \cup Bytes(opened) \cup Unasked
  BY DEF Held
<1> HIDE DEF s, l, u, A
<1>7. ASSUME NEW b \in AheadBytes PROVE b \in Held
  <2>1. PICK k \in 1..Len(A) : b \in Bytes(A[k])
    BY <1>5, <1>7
  <2>2. \/ k = 1 \/ k = l + 2 \/ k = l + 3 \/ (HasRange /\ k = l + 4)
        \/ (k - 1 \in 1..l /\ k = (k - 1) + 1)
    BY <1>1, <1>2
  <2>3. CASE k - 1 \in 1..l /\ k = (k - 1) + 1
    <3>1. A[k] = s[k - 1]
      BY <1>2, <2>3
    <3>2. b \in SeqBytes(s)
      BY <2>1, <2>3, <3>1, <1>1 DEF SeqBytes, l
    <3> QED
      BY <1>6, <3>2
  <2>4. CASE k = 1
    BY <1>2, <1>6, <2>1, <2>4
  <2>5. CASE k = l + 2
    BY <1>2, <1>6, <2>1, <2>5
  <2>6. CASE k = l + 3
    BY <1>2, <1>6, <2>1, <2>6
  <2>7. CASE HasRange /\ k = l + 4
    BY <1>2, <1>3, <1>6, <2>1, <2>7
  <2> QED
    BY <2>2, <2>3, <2>4, <2>5, <2>6, <2>7
<1>8. ASSUME NEW b \in Held PROVE b \in AheadBytes
  <2>1. ASSUME NEW k \in 1..Len(A), b \in Bytes(A[k]) PROVE b \in AheadBytes
    BY <1>5, <2>1
  <2>2. CASE b \in Bytes(buf)
    <3>1. 1 \in 1..Len(A)
      BY <1>1, <1>2
    <3> QED
      BY <1>2, <2>1, <2>2, <3>1
  <2>3. CASE b \in Bytes(cur)
    <3>1. l + 2 \in 1..Len(A)
      BY <1>1, <1>2
    <3> QED
      BY <1>2, <2>1, <2>3, <3>1
  <2>4. CASE b \in Bytes(opened)
    <3>1. l + 3 \in 1..Len(A)
      BY <1>1, <1>2
    <3> QED
      BY <1>2, <2>1, <2>4, <3>1
  <2>5. CASE b \in Unasked
    <3>1. HasRange
      BY <1>4, <2>5
    <3>2. l + 4 \in 1..Len(A)
      BY <1>1, <1>2, <3>1
    <3> QED
      BY <1>2, <1>3, <2>1, <2>5, <3>1, <3>2
  <2>6. CASE b \in SeqBytes(s)
    <3>1. PICK k \in 1..l : b \in Bytes(s[k])
      BY <2>6 DEF SeqBytes, l
    <3>2. k + 1 \in 1..Len(A) /\ A[k + 1] = s[k]
      BY <1>1, <1>2
    <3> QED
      BY <2>1, <3>1, <3>2
  <2> QED
    BY <1>6, <2>2, <2>3, <2>4, <2>5, <2>6
<1> QED
  BY <1>7, <1>8

\* The list is in order.
LEMMA AheadOrdered ==
  ASSUME IInv
  PROVE  \A i, j \in 1..Len(Ahead) :
           (i < j /\ ~IsEmpty(Ahead[i]) /\ ~IsEmpty(Ahead[j])) => Ahead[i].to <= Ahead[j].from
<1>0. Plain /\ RangeInv /\ QueueInv /\ PcInv /\ OrderInv
  BY DEF IInv
<1> DEFINE s == Pending(q)
           l == Len(s)
           u == [from |-> offset, to |-> End]
           A == Ahead
<1>1. l \in Nat
  BY <1>0, PendingParts
<1>2. /\ Len(A) = l + (IF HasRange THEN 4 ELSE 3)
      /\ A[1] = buf
      /\ \A k \in 1..l : A[k + 1] = s[k]
      /\ A[l + 2] = cur /\ A[l + 3] = opened
      /\ HasRange => A[l + 4] = u
  BY AheadParts
<1>3. u.from = offset
  OBVIOUS
<1>4. IsEmpty(Nothing)
  BY <1>0, SlotFacts
<1>5. /\ Ordered(s)
      /\ \A k \in 1..l : s[k].to <= cur.from /\ s[k].to <= opened.from /\ (HasRange => s[k].to <= offset)
      /\ ~IsEmpty(buf) => buf.to <= cur.from /\ buf.to <= opened.from /\ (HasRange => buf.to <= offset)
      /\ ~IsEmpty(buf) => \A k \in 1..l : buf.to <= s[k].from
      /\ HasRange => /\ cur # Nothing => cur.to <= offset
                     /\ opened # Nothing => opened.to <= offset
      /\ cur # Nothing => opened = Nothing
  BY <1>0 DEF OrderInv, Before, PcInv
<1> HIDE DEF s, l, u, A, Nothing
<1> SUFFICES ASSUME NEW i \in 1..Len(A), NEW j \in 1..Len(A), i < j, ~IsEmpty(A[i]), ~IsEmpty(A[j])
             PROVE  A[i].to <= A[j].from
  BY DEF A
<1>6. \A k \in 1..Len(A) : \/ k = 1 \/ k = l + 2 \/ k = l + 3 \/ (HasRange /\ k = l + 4)
                           \/ k - 1 \in 1..l
  BY <1>1, <1>2
<1>7. \A k \in 1..Len(A) : k - 1 \in 1..l => A[k] = s[k - 1]
  <2> SUFFICES ASSUME NEW k \in 1..Len(A), k - 1 \in 1..l PROVE A[k] = s[k - 1]
    OBVIOUS
  <2>1. k = (k - 1) + 1
    BY <1>1, <1>2
  <2>2. A[(k - 1) + 1] = s[k - 1]
    BY <1>2
  <2> QED
    BY <2>1, <2>2
<1>8. i \in Nat /\ j \in Nat
  BY <1>1, <1>2
<1>9. CASE i = 1
  <2>1. A[i] = buf /\ ~IsEmpty(buf)
    BY <1>2, <1>9
  <2>2. j = l + 2 \/ j = l + 3 \/ (HasRange /\ j = l + 4) \/ j - 1 \in 1..l
    BY <1>6, <1>8, <1>9
  <2> QED
    BY <1>2, <1>3, <1>5, <1>7, <2>1, <2>2
<1>10. CASE i - 1 \in 1..l
  <2>1. A[i] = s[i - 1]
    BY <1>7, <1>10
  <2>2. CASE j - 1 \in 1..l
    <3>1. A[j] = s[j - 1] /\ i - 1 < j - 1
      BY <1>7, <1>8, <2>2
    <3> QED
      BY <1>5, <1>10, <2>1, <2>2, <3>1 DEF Ordered, l
  <2>3. j = l + 2 \/ j = l + 3 \/ (HasRange /\ j = l + 4) \/ j - 1 \in 1..l
    BY <1>1, <1>6, <1>8, <1>10
  <2> QED
    BY <1>2, <1>3, <1>5, <1>10, <2>1, <2>2, <2>3
<1>11. CASE i = l + 2
  <2>1. A[i] = cur /\ cur # Nothing /\ opened = Nothing
    BY <1>2, <1>4, <1>5, <1>11
  <2>2. j = l + 3 \/ (HasRange /\ j = l + 4)
    BY <1>1, <1>2, <1>8, <1>11
  <2> QED
    BY <1>2, <1>3, <1>4, <1>5, <2>1, <2>2
<1>12. CASE i = l + 3
  <2>1. A[i] = opened /\ opened # Nothing
    BY <1>2, <1>4, <1>12
  <2>2. HasRange /\ j = l + 4
    BY <1>1, <1>2, <1>8, <1>12
  <2> QED
    BY <1>2, <1>3, <1>5, <2>1, <2>2
<1>13. CASE HasRange /\ i = l + 4
  BY <1>1, <1>2, <1>8, <1>13
<1> QED
  BY <1>6, <1>9, <1>10, <1>11, <1>12, <1>13

\* A set of numbers that is not empty has a least one.
LEMMA LeastNumber ==
  ASSUME NEW T, T \subseteq Nat, T # {}
  PROVE  \E x \in T : \A y \in T : x <= y
<1>1. \E x \in T : \A y \in T : ~(<<y, x>> \in OpToRel(<, Nat))
  BY WFMin, NatLessThanWellFounded
<1>2. PICK x \in T : \A y \in T : ~(<<y, x>> \in OpToRel(<, Nat))
  BY <1>1
<1>3. ASSUME NEW y \in T PROVE x <= y
  <2>1. ~(y < x)
    BY <1>2, <1>3 DEF OpToRel
  <2> QED
    BY <2>1
<1> QED
  BY <1>3

\* The next byte is the least one ahead, the end when there is none.
LEMMA NextByteFacts ==
  ASSUME IInv, ~q.errored
  PROVE  NextByte \in Start..End /\ NextByte \in Held \cup {End} /\ \A p \in Held : NextByte <= p
<1>0. Plain /\ CoverInv
  BY DEF IInv
<1>1. AheadBytes = Held
  BY AheadHeld
<1>2. Start \in Nat /\ End \in Nat /\ Start <= End
  BY <1>0, Numbers
<1>3. Held \subseteq Object
  BY <1>0 DEF CoverInv
<1>4. \E o \in Start..End : o \in Held \cup {End} /\ \A p \in Held : o <= p
  <2>1. CASE Held = {}
    <3>1. End \in Start..End
      BY <1>2
    <3> QED
      BY <2>1, <3>1
  <2>2. CASE Held # {}
    <3>1. Held \subseteq Nat
      BY <1>2, <1>3 DEF Object
    <3>2. PICK x \in Held : \A y \in Held : x <= y
      BY <2>2, <3>1, LeastNumber
    <3>3. x \in Start..End
      BY <1>2, <1>3, <3>2 DEF Object
    <3> QED
      BY <3>2, <3>3
  <2> QED
    BY <2>1, <2>2
<1> QED
  BY <1>1, <1>4 DEF NextByte

\* Two sets without a common member: the sizes add up.
LEMMA DisjointSize ==
  ASSUME NEW S, NEW T, NEW U, IsFiniteSet(U), U = S \cup T, S \cap T = {}
  PROVE  /\ Cardinality(S) \in Nat /\ Cardinality(T) \in Nat
         /\ Cardinality(U) = Cardinality(S) + Cardinality(T)
<1>1. IsFiniteSet(S) /\ IsFiniteSet(T)
  BY FS_Subset
<1>2. Cardinality(S) \in Nat /\ Cardinality(T) \in Nat
  BY <1>1, FS_CardinalityType
<1>3. Cardinality(S \cup T) = Cardinality(S) + Cardinality(T) - Cardinality({})
  BY <1>1, FS_Union
<1> QED
  BY <1>2, <1>3, FS_EmptySet

LEMMA InvSequence == IInv => InSequence
<1> SUFFICES ASSUME IInv, ~q.errored PROVE InSequence
  BY DEF InSequence, Working
<1>0. Plain /\ RangeInv /\ CoverInv
  BY DEF IInv
<1> DEFINE n == NextByte
           Skipped == {m \in missed : m < n}
           Later == {m \in missed : m >= n}
<1>1. n \in Start..End /\ n \in Held \cup {End} /\ \A p \in Held : n <= p
  BY NextByteFacts
<1> HIDE DEF n
<1>2. Start \in Nat /\ End \in Nat /\ Start <= End /\ pos \in Nat /\ n \in Nat
  BY <1>0, <1>1, Numbers
<1>3. /\ Held \subseteq Object /\ Held \cap missed = {} /\ missed \subseteq Object
      /\ \A c \in Consumed, a \in Held : c < a
      /\ Cardinality(Consumed) = pos
  BY <1>0 DEF CoverInv, RangeInv
<1>4. \A b \in Object : b \in Nat /\ Start <= b /\ b < End
  BY <1>2 DEF Object
<1>5. \A c \in Consumed : c < n
  BY <1>1, <1>3, <1>4 DEF Consumed
<1>6. Start..(n - 1) = Consumed \cup Skipped
  <2>1. ASSUME NEW b \in Start..(n - 1) PROVE b \in Consumed \cup Skipped
    <3>1. b \in Object /\ b < n /\ b \in Nat
      BY <1>1, <1>2, <2>1 DEF Object
    <3>2. b \notin Held
      BY <1>1, <1>2, <3>1
    <3> QED
      BY <3>1, <3>2 DEF Consumed
  <2>2. ASSUME NEW b \in Consumed \cup Skipped PROVE b \in Start..(n - 1)
    <3>1. b \in Object /\ b < n
      BY <1>3, <1>5, <2>2 DEF Consumed
    <3> QED
      BY <1>2, <1>4, <3>1
  <2> QED
    BY <2>1, <2>2
<1>7. Consumed \cap Skipped = {}
  BY DEF Consumed
<1>8. IsFiniteSet(Start..(n - 1)) /\ Cardinality(Start..(n - 1)) = n - Start
  BY <1>1, <1>2, IntervalSize
<1> HIDE DEF Skipped
<1>9. Cardinality(Skipped) \in Nat /\ n - Start = Cardinality(Consumed) + Cardinality(Skipped)
  BY <1>6, <1>7, <1>8, DisjointSize
<1>10. Start + pos + Cardinality(Skipped) = n
  BY <1>2, <1>3, <1>9
<1>11. n..(End - 1) = Held \cup Later
  <2>1. ASSUME NEW b \in n..(End - 1) PROVE b \in Held \cup Later
    <3>1. b \in Object /\ b >= n /\ ~(b < n)
      BY <1>1, <1>2, <2>1 DEF Object
    <3>2. b \notin Consumed
      BY <1>5, <3>1
    <3> QED
      BY <3>1, <3>2 DEF Consumed
  <2>2. ASSUME NEW b \in Held \cup Later PROVE b \in n..(End - 1)
    <3>1. b \in Object /\ n <= b
      BY <1>1, <1>2, <1>3, <1>4, <2>2
    <3> QED
      BY <1>2, <1>4, <3>1
  <2> QED
    BY <2>1, <2>2
<1>12. AheadBytes = Held
  BY AheadHeld
<1>13. /\ Start + pos + Cardinality({m \in missed : m < NextByte}) = NextByte
       /\ NextByte..(End - 1) = AheadBytes \cup {m \in missed : m >= NextByte}
       /\ missed \cap AheadBytes = {}
  BY <1>3, <1>10, <1>11, <1>12 DEF n, Skipped
<1> QED
  BY <1>13, AheadOrdered DEF InSequence

LEMMA InvEof == IInv => EofMeansEnd
<1> SUFFICES ASSUME IInv, reply = "eof"
             PROVE  ~q.errored /\ Start + pos + Cardinality(missed) = End
  BY DEF EofMeansEnd
<1>0. Plain /\ RangeInv /\ PcInv /\ CoverInv
  BY DEF IInv
<1>1. ~q.errored /\ Pending(q) = <<>> /\ Exhausted /\ IsEmpty(buf)
  BY <1>0 DEF PcInv
<1>2. Held = {}
  <2>1. SeqBytes(Pending(q)) = {}
    BY <1>1 DEF SeqBytes
  <2>2. Bytes(buf) = {} /\ Bytes(Nothing) = {}
    BY <1>0, <1>1, SlotFacts DEF RangeInv
  <2> QED
    BY <1>1, <2>1, <2>2 DEF Held, Unasked, Exhausted
<1>3. Object = Consumed \cup missed /\ Consumed \cap missed = {}
  BY <1>0, <1>2 DEF Consumed, RangeInv
<1>4. Start \in Nat /\ End \in Nat /\ Start <= End /\ pos \in Nat
  BY <1>0, Numbers
<1>5. IsFiniteSet(Object) /\ Cardinality(Object) = End - Start
  BY <1>4, IntervalSize DEF Object
<1>6. Cardinality(missed) \in Nat /\ End - Start = Cardinality(Consumed) + Cardinality(missed)
  BY <1>3, <1>5, DisjointSize
<1>7. Cardinality(Consumed) = pos
  BY <1>0, <1>1 DEF CoverInv
<1> QED
  BY <1>1, <1>4, <1>6, <1>7

---------------------------------------------------------------------------
(* The theorems. *)

\* Every variable keeps its type; in particular every range, in the buffer,
\* in the queue or under way, stays inside the object.
THEOREM TypeCorrect == Spec => []TypeOK
<1>1. IInv => TypeOK
  BY InvType
<1> QED
  BY <1>1, Inductive, PTL

\* What an owner reads is the object, for any range, chunk size, concurrency,
\* prefetch and seeks: no byte is skipped, repeated or reordered except the
\* ones of a request that failed and was given up, and the end of the stream
\* is the end of the range (buffer_stream.rs:193,242,
\* futures_async_reader.rs:164).
THEOREM ReadsTheObject == Spec => []Accounted
<1>1. IInv => Accounted
  BY InvSequence, InvEof DEF Accounted
<1> QED
  BY <1>1, Inductive, PTL

\* What a ChunkedReader fetches ahead is bounded by concurrent + prefetch, and
\* only a request that failed adds one to the requests under way
\* (futures_util.rs:194,257).
THEOREM AheadIsBounded == Spec => []BoundedAhead
<1>1. IInv => BoundedAhead
  BY InvBounded
<1> QED
  BY <1>1, Inductive, PTL
=============================================================================
