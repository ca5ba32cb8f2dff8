--------------------------- MODULE WritersProofs ---------------------------
(***************************************************************************)
(* The writers that publish an object at its close: for any number of      *)
(* writes, concurrency, temporary errors and dropped calls, an orderly     *)
(* caller gets the object that it was acknowledged, or none, and           *)
(* Writers implements AtomicObject.                                        *)
(*                                                                         *)
(* The argument.  The buffers acknowledged are the ones submitted, in      *)
(* order, and then the one held back; the parts collected and the inputs   *)
(* pending in the queue spell the submitted ones (LogInv).  Whatever was   *)
(* ever sent under a part number is the buffer of that number, so a late   *)
(* or repeated request changes nothing (StoreInv, WireInv), and a list of  *)
(* parts that is on its way names every acknowledged buffer, for which it  *)
(* takes that nothing more is acknowledged once a close was tried, and     *)
(* that a close that found another size is not made again (CallInv).       *)
(***************************************************************************)
EXTENDS Writers, TaskQueueTheorems

WritePcs == {"initiate", "write", "writeInline", "writeWait"}
ClosePcs == {"once", "close", "closeInline", "closeWait", "drain", "flush", "complete"}

\* No abort was tried, no size failed to match, and the writer has not ended.
Open == ended = "open" /\ pc # "abort" /\ "abort" \notin tried /\ "size" \notin tried

ServerType ==
  [upload : {"none", "live", "completed", "aborted"},
   stored : Seq(Buffers \cup {NoData}),
   object : {NoObject} \cup Seq(Buffers \cup {NoData}),
   lost   : Nat]

\* The part number of the k-th buffer acknowledged.
PartNo(k) == IF kind = "block" THEN acked[k] ELSE k - 1

\* A part is the buffer that its number stands for.
Valid(i) ==
  IF kind = "block" THEN i.part = i.bytes
  ELSE i.part < Len(acked) /\ i.bytes = acked[i.part + 1]

Once(body) == IF body = NoData THEN <<>> ELSE <<body>>

\* What a call that is under way may rely on, and what an orderly caller has
\* tried before.
CallInv ==
  /\ inner <=> ended = "open"
  /\ pc # "idle" => ended = "open"
  /\ pc \in WritePcs => /\ arg \in Buffers /\ arg > last /\ cache # NoData
                        /\ "close" \notin tried /\ "abort" \notin tried
  /\ pc \notin WritePcs => arg = NoData
  /\ pc \in ClosePcs => "abort" \notin tried /\ "size" \notin tried
  /\ "size" \in tried => "close" \in tried
  /\ pc \in {"close", "closeInline", "closeWait", "flush"} => cache # NoData
  /\ pc = "drain" => kind = "position" \/ cache = NoData
  /\ pc = "complete" => cache = NoData
  /\ pc = "flush" => kind = "position"
  /\ pc \in {"once", "initiate"} => ~uploadId
  /\ pc \notin {"idle", "once", "initiate"} => uploadId
  /\ pc = "initiate" => kind = "multipart"
  /\ kind = "position" => uploadId
  /\ kind = "oneshot" => ~uploadId
  /\ (Open /\ uploadId /\ kind # "position" /\ cache = NoData)
       => "close" \in tried \/ pc \in ClosePcs
  /\ DropWarningSound

QueueInv ==
  /\ SoundQueue(PartInputs, q)
  /\ ~IsConcurrent(concurrent) => q.tasks = <<>>
  /\ pc \in {"writeInline", "closeInline"} => ~q.errored /\ ~IsConcurrent(concurrent)
  /\ pc \in {"flush", "complete"} => ~q.errored /\ Pending(q) = <<>>
  /\ \A t \in TaskSet(q) : Valid(t.input)

\* The parts collected, then the inputs pending, are the buffers submitted.
Chain ==
  /\ Len(parts) + Len(Pending(q)) = nextPart
  /\ \A k \in 1..Len(parts) : parts[k] = PartNo(k)
  /\ \A j \in 1..Len(Pending(q)) :
       Pending(q)[j] = PartInput(PartNo(Len(parts) + j), acked[Len(parts) + j])

LogInv ==
  /\ acked \in Seq(Buffers) /\ size = Len(acked)
  /\ last \in 0..MaxWrites /\ Len(acked) <= last
  /\ parts \in Seq(0..MaxWrites) /\ nextPart \in Nat
  /\ cache \in Buffers \cup {NoData}
  /\ Open => /\ cache = NoData => nextPart = Len(acked)
             /\ cache # NoData => nextPart + 1 = Len(acked) /\ cache = acked[nextPart + 1]
             /\ ~uploadId => nextPart = 0 /\ parts = <<>> /\ Pending(q) = <<>>
             /\ ~q.errored => Chain

StoredValid ==
  \A n \in 0..MaxWrites :
    Stored(srv, n) # NoData => Valid(PartInput(n, Stored(srv, n)))

StoreInv ==
  /\ srv \in ServerType
  /\ StoredValid
  /\ Open => /\ \A i \in Ready(q) : Stored(srv, i.part) # NoData
             /\ \A k \in 1..Len(parts) : Stored(srv, parts[k]) # NoData

\* A list of parts that makes the acknowledged object.
Full(list) ==
  /\ list \in Seq(0..MaxWrites) /\ Len(list) = Len(acked)
  /\ \A k \in 1..Len(list) : list[k] = PartNo(k) /\ Stored(srv, list[k]) # NoData

SoundRequest(r) ==
  \/ \E i \in PartInputs : r = [op |-> "part", input |-> i] /\ Valid(i)
  \/ \E l \in Seq(0..MaxWrites) :
       r = [op |-> "complete", list |-> l] /\ Full(l) /\ "close" \in tried
  \/ r = [op |-> "abort"]
  \/ \E b \in Buffers \cup {NoData} :
       r = [op |-> "once", body |-> b] /\ acked = Once(b) /\ ~uploadId /\ "close" \in tried
  \/ r = [op |-> "initiate"]

WireInv == \A r \in wire : SoundRequest(r)

ObjectInv ==
  /\ srv.object # NoObject => srv.object = acked /\ ("close" \in tried \/ ended = "closed")
  /\ ended = "closed" => srv.object = acked
  /\ kind = "block" => srv.upload = "none"
  /\ ~uploadId => srv.upload = "none"
  /\ UploadSettled

Plain ==
  /\ kind \in Kinds /\ concurrent \in Concurrents
  /\ uploadId \in BOOLEAN /\ inner \in BOOLEAN
  /\ state \in {"Open", "Written", "Closed", "Error"}
  /\ pc \in Pcs
  /\ ended \in {"open", "closed", "aborted"}
  /\ tried \subseteq {"write", "close", "abort", "size"}
  /\ temps \in 0..MaxTemp /\ drops \in 0..MaxDrops

IInv == Plain /\ CallInv /\ QueueInv /\ LogInv /\ StoreInv /\ WireInv /\ ObjectInv

---------------------------------------------------------------------------
(* The service. *)

\* Uploading a part changes the part of that number and nothing else; an
\* upload that accepts nothing stays as it is.
LEMMA StorePartFacts ==
  ASSUME NEW s \in ServerType, NEW i \in PartInputs
  PROVE  /\ StorePart(s, i) \in ServerType
         /\ StorePart(s, i).upload = s.upload /\ StorePart(s, i).object = s.object
         /\ ~Accepts(s) => StorePart(s, i) = s
         /\ Accepts(s) => \A n \in Nat :
              Stored(StorePart(s, i), n) = IF n = i.part THEN i.bytes ELSE Stored(s, n)
<1>1. CASE ~Accepts(s)
  BY <1>1 DEF StorePart
<1>2. CASE Accepts(s)
  <2> DEFINE len == IF Len(s.stored) > i.part THEN Len(s.stored) ELSE i.part + 1
             grown == [k \in 1..len |-> IF k <= Len(s.stored) THEN s.stored[k] ELSE NoData]
             new == [grown EXCEPT ![i.part + 1] = i.bytes]
             S == Buffers \cup {NoData}
  <2>1. /\ s.stored \in Seq(S) /\ Len(s.stored) \in Nat
        /\ i.part \in Nat /\ i.bytes \in S
        /\ \A k \in 1..Len(s.stored) : s.stored[k] \in S
    BY ElementOfSeq DEF ServerType, PartInputs, Buffers, NoData
  <2>2. len \in Nat /\ i.part + 1 \in 1..len /\ Len(s.stored) <= len
    BY <2>1
  <2> HIDE DEF len
  <2>3. grown \in [1..len -> S]
    BY <2>1, <2>2 DEF NoData
  <2>4. /\ new \in [1..len -> S] /\ new[i.part + 1] = i.bytes
        /\ \A k \in 1..len : k # i.part + 1 => new[k] = grown[k]
    BY <2>1, <2>2, <2>3
  <2>5. new \in Seq(S) /\ Len(new) = len
    <3> HIDE DEF new, S
    <3> QED
      BY <2>2, <2>4, FunctionIsSeq
  <2>6. StorePart(s, i) = [s EXCEPT !.stored = new]
    BY <1>2 DEF StorePart, len
  <2> HIDE DEF new
  <2>7. /\ StorePart(s, i) \in ServerType /\ StorePart(s, i).stored = new
        /\ StorePart(s, i).upload = s.upload /\ StorePart(s, i).object = s.object
    BY <2>5, <2>6 DEF ServerType
  <2>8. ASSUME NEW n \in Nat
        PROVE  Stored(StorePart(s, i), n) = IF n = i.part THEN i.bytes ELSE Stored(s, n)
    <3>1. CASE n = i.part
      BY <2>1, <2>2, <2>4, <2>5, <2>7, <3>1 DEF Stored
    <3>2. CASE n # i.part /\ n < len
      <4>1. n + 1 \in 1..len /\ n + 1 # i.part + 1 /\ (n + 1 <= Len(s.stored) <=> n < Len(s.stored))
        BY <2>1, <2>2, <3>2
      <4> QED
        BY <2>4, <2>5, <2>7, <3>2, <4>1 DEF Stored
    <3>3. CASE n # i.part /\ ~(n < len)
      <4>1. ~(n < Len(s.stored))
        BY <2>1, <2>2, <3>3
      <4> QED
        BY <2>5, <2>7, <3>3, <4>1 DEF Stored
    <3> QED
      BY <3>1, <3>2, <3>3
  <2> QED
    BY <1>2, <2>7, <2>8
<1> QED
  BY <1>1, <1>2

\* The object a full list makes.
LEMMA FullObject ==
  ASSUME LogInv, StoreInv, NEW l, Full(l)
  PROVE  [k \in 1..Len(l) |-> Stored(srv, l[k])] = acked
<1>1. /\ acked \in Seq(Buffers) /\ Len(acked) \in Nat /\ Len(l) = Len(acked)
      /\ DOMAIN acked = 1..Len(acked)
  BY DEF LogInv, Full
<1>2. ASSUME NEW k \in 1..Len(l) PROVE Stored(srv, l[k]) = acked[k]
  <2>0. l[k] \in 0..MaxWrites
    BY ElementOfSeq DEF Full
  <2>1. /\ l[k] = PartNo(k) /\ Stored(srv, l[k]) # NoData /\ l[k] \in 0..MaxWrites
        /\ k \in Nat /\ k - 1 + 1 = k
    BY <1>1, <2>0 DEF Full
  <2>2. Valid(PartInput(l[k], Stored(srv, l[k])))
    BY <2>1 DEF StoreInv, StoredValid
  <2> QED
    BY <2>1, <2>2 DEF Valid, PartNo, PartInput
<1>3. acked = [k \in 1..Len(acked) |-> acked[k]]
  BY <1>1
<1> QED
  BY <1>1, <1>2, <1>3

---------------------------------------------------------------------------
(* What a step leaves alone. *)

\* A step that acknowledges nothing and changes no part number.
LEMMA ValidKept ==
  ASSUME UNCHANGED <<kind, acked>>
  PROVE  /\ \A i : Valid(i)' = Valid(i)
         /\ \A k : PartNo(k)' = PartNo(k)
BY DEF Valid, PartNo

\* The queue moves on without losing anything, or it broke.
LEMMA LogFrame ==
  ASSUME LogInv, Open' => Open,
         UNCHANGED <<kind, acked, size, last, parts, nextPart, cache, uploadId>>,
         \/ Pending(q') = Pending(q) /\ q'.errored = q.errored
         \/ Pending(q') = <<>> /\ q'.errored
  PROVE  LogInv'
BY DEF LogInv, Chain, PartNo

LEMMA StoreFrame ==
  ASSUME StoreInv, Open' => Open, UNCHANGED <<kind, acked, srv, parts>>,
         Ready(q') \subseteq Ready(q)
  PROVE  StoreInv'
BY DEF StoreInv, StoredValid, Valid

\* What is on the wire stays sound as long as no part disappears and nothing
\* is acknowledged.
LEMMA WireFrame ==
  ASSUME UNCHANGED <<kind, acked, uploadId>>, tried \subseteq tried',
         \A n \in 0..MaxWrites : Stored(srv, n) # NoData => Stored(srv', n) # NoData
  PROVE  \A r : SoundRequest(r) => SoundRequest(r)'
<1> SUFFICES ASSUME NEW r, SoundRequest(r) PROVE SoundRequest(r)'
  OBVIOUS
<1>1. ASSUME NEW l \in Seq(0..MaxWrites), Full(l) PROVE Full(l)'
  <2>1. \A k \in 1..Len(l) : l[k] \in 0..MaxWrites
    BY ElementOfSeq
  <2> QED
    BY <1>1, <2>1 DEF Full, PartNo
<1> QED
  BY <1>1 DEF SoundRequest, Valid

---------------------------------------------------------------------------
(* The requests of a call. *)

LEMMA PcsSplit ==
  ASSUME Plain
  PROVE  /\ pc \in WritePcs => Kind = "write"
         /\ pc \in ClosePcs => Kind = "close"
         /\ pc = "abort" => Kind = "abort"
         /\ pc \in {"idle", "abort"} \cup WritePcs \cup ClosePcs
<1>1. pc \in WritePcs => Kind = "write"
  BY DEF WritePcs, Kind
<1>2. pc \in ClosePcs => Kind = "close"
  BY DEF ClosePcs, Kind
<1>3. pc = "abort" => Kind = "abort"
  BY DEF Kind
<1> QED
  BY <1>1, <1>2, <1>3 DEF Plain, Pcs, WritePcs, ClosePcs

\* A call of write or close under way: no abort was tried.
LEMMA CallOpen ==
  ASSUME Plain, CallInv, pc \notin {"idle", "abort"}
  PROVE  Open
BY PcsSplit DEF CallInv, Open

\* The buffer held back is the next one to submit.
LEMMA HeldPart ==
  ASSUME LogInv, Open, cache # NoData
  PROVE  /\ PartInput(PartId, cache) \in PartInputs /\ Valid(PartInput(PartId, cache))
         /\ nextPart + 1 = Len(acked)
         /\ PartInput(PartId, cache)
              = PartInput(PartNo(nextPart + 1), acked[nextPart + 1])
<1>1. /\ acked \in Seq(Buffers) /\ cache \in Buffers /\ nextPart \in Nat
      /\ nextPart + 1 = Len(acked) /\ cache = acked[nextPart + 1]
      /\ Len(acked) <= MaxWrites /\ MaxWrites \in Nat
  BY WriterAssumption DEF LogInv
<1>2. PartId \in 0..MaxWrites
  BY <1>1 DEF PartId, Buffers
<1>3. PartInput(PartId, cache) \in PartInputs
  BY <1>1, <1>2 DEF PartInputs, PartInput
<1>4. Valid(PartInput(PartId, cache))
  BY <1>1 DEF Valid, PartInput, PartId
<1>5. PartId = PartNo(nextPart + 1)
  BY <1>1 DEF PartId, PartNo
<1> QED
  BY <1>1, <1>3, <1>4, <1>5

\* Nothing is pending, nothing is held back: what complete lists is full.
LEMMA ListFull ==
  ASSUME IInv, pc = "complete"
  PROVE  Full(Listed)
<1>1. /\ Open /\ cache = NoData /\ ~q.errored /\ Pending(q) = <<>>
  BY CallOpen DEF IInv, CallInv, QueueInv
<1>2. /\ nextPart = Len(acked) /\ Len(parts) + Len(Pending(q)) = nextPart
      /\ \A k \in 1..Len(parts) : parts[k] = PartNo(k) /\ Stored(srv, parts[k]) # NoData
      /\ parts \in Seq(0..MaxWrites) /\ nextPart \in Nat
  BY <1>1 DEF IInv, LogInv, StoreInv, Chain
<1>3. Len(parts) = nextPart
  BY <1>1, <1>2
<1>4. CASE kind # "position"
  BY <1>2, <1>3, <1>4 DEF Listed, Full
<1>5. CASE kind = "position"
  <2>1. Listed = [k \in 1..Len(parts) |-> parts[k]]
    BY <1>2, <1>3, <1>5 DEF Listed, PartNo
  <2>2. Listed = parts
    BY <1>2, <2>1
  <2> QED
    BY <1>2, <1>3, <2>2 DEF Full
<1> QED
  BY <1>4, <1>5

\* write_once sends what was acknowledged.
LEMMA OnceWhole ==
  ASSUME IInv, pc = "once"
  PROVE  acked = Once(cache)
<1>1. /\ Open /\ ~uploadId /\ acked \in Seq(Buffers)
  BY CallOpen DEF IInv, CallInv, LogInv
<1>2. /\ nextPart = 0
      /\ cache = NoData => Len(acked) = 0
      /\ cache # NoData => Len(acked) = 1 /\ cache = acked[1]
  BY <1>1 DEF IInv, LogInv
<1>3. CASE cache = NoData
  <2>1. acked = <<>>
    BY <1>1, <1>2, <1>3
  <2> QED
    BY <1>3, <2>1 DEF Once
<1>4. CASE cache # NoData
  <2>1. acked = [k \in 1..1 |-> cache]
    BY <1>1, <1>2, <1>4
  <2>2. acked = <<cache>>
    BY <1>1, <1>2, <1>4
  <2> QED
    BY <1>4, <2>2 DEF Once
<1> QED
  BY <1>3, <1>4

\* The request of a call that failed or was dropped may arrive late.
LEMMA RequestSound ==
  ASSUME IInv, pc \in Requesting, tried' = tried \cup {Kind},
         UNCHANGED <<kind, acked, uploadId, srv>>
  PROVE  \A r : r = Request => SoundRequest(r)'
<1> SUFFICES ASSUME NEW r, r = Request PROVE SoundRequest(r)'
  OBVIOUS
<1>0. Plain /\ CallInv /\ LogInv
  BY DEF IInv
<1>1. CASE pc \in {"initiate", "abort"}
  <2>1. r = [op |-> "initiate"] \/ r = [op |-> "abort"]
    BY <1>1 DEF Request
  <2> QED
    BY <2>1 DEF SoundRequest
<1>2. CASE pc = "once"
  <2>1. /\ r = [op |-> "once", body |-> cache] /\ acked = Once(cache)
        /\ ~uploadId /\ "close" \in tried' /\ cache \in Buffers \cup {NoData}
    BY <1>0, <1>2, PcsSplit, OnceWhole DEF Request, ClosePcs, CallInv, LogInv
  <2> QED
    BY <2>1 DEF SoundRequest, Once
<1>3. CASE pc = "complete"
  <2>1. /\ r = [op |-> "complete", list |-> Listed] /\ Full(Listed)
        /\ "close" \in tried'
    BY <1>0, <1>3, PcsSplit, ListFull DEF Request, ClosePcs
  <2>2. Listed \in Seq(0..MaxWrites)
    BY <2>1 DEF Full
  <2>3. \A l : Full(l) => Full(l)'
    BY DEF Full, PartNo
  <2> QED
    BY <2>1, <2>2, <2>3 DEF SoundRequest
<1>4. CASE pc \in {"writeInline", "closeInline", "flush"}
  <2>1. Open /\ cache # NoData
    BY <1>0, <1>4, CallOpen DEF CallInv, WritePcs
  <2>2. r = [op |-> "part", input |-> PartInput(PartId, cache)]
    BY <1>4 DEF Request
  <2>3. PartInput(PartId, cache) \in PartInputs /\ Valid(PartInput(PartId, cache))
    BY <1>0, <2>1, HeldPart
  <2>4. \A i : Valid(i) => Valid(i)'
    BY ValidKept
  <2> QED
    BY <2>2, <2>3, <2>4 DEF SoundRequest
<1> QED
  BY <1>1, <1>2, <1>3, <1>4 DEF Requesting

---------------------------------------------------------------------------
(* Steps, grouped by what they change. *)

\* Requests that join the wire.
LEMMA RunningSound ==
  ASSUME QueueInv
  PROVE  \A r \in RunningRequests(q) : SoundRequest(r)
<1> SUFFICES ASSUME NEW r \in RunningRequests(q) PROVE SoundRequest(r)
  OBVIOUS
<1>1. PICK k \in Running(q) : r = [op |-> "part", input |-> q.tasks[k].input]
  BY DEF RunningRequests
<1>2. q.tasks[k] \in TaskSet(q) /\ q.tasks[k].input \in PartInputs
  <2>1. "ok" \in Outcomes
    BY DEF Outcomes
  <2> QED
    BY <2>1, ResolveSound DEF QueueInv
<1> QED
  BY <1>1, <1>2 DEF QueueInv, SoundRequest

\* The call returns an error or is dropped.  The queue is as it was, lost its
\* failed front task for a new one, or broke; the request may arrive late.
LEMMA ReturnKeeps ==
  ASSUME IInv, pc # "idle", pc' = "idle", arg' = NoData, tried' = tried \cup {Kind},
         state' = state \/ state' = "Error",
         UNCHANGED <<options, uploadId, parts, cache, nextPart, inner, size, acked,
                     last, ended, srv>>,
         temps' \in 0..MaxTemp, drops' \in 0..MaxDrops,
         SoundQueue(PartInputs, q'), ~IsConcurrent(concurrent) => q'.tasks = <<>>,
         \A t \in TaskSet(q') : Valid(t.input), Ready(q') \subseteq Ready(q),
         \/ Pending(q') = Pending(q) /\ q'.errored = q.errored
         \/ Pending(q') = <<>> /\ q'.errored,
         \A r \in wire' : \/ r \in wire \cup RunningRequests(q)
                          \/ r = Request /\ pc \in Requesting
  PROVE  IInv'
<1> USE DEF options
<1>0. Plain /\ CallInv /\ QueueInv /\ LogInv /\ StoreInv /\ WireInv /\ ObjectInv
  BY DEF IInv
<1>1. Kind \in {"write", "close", "abort"} /\ (pc = "abort" => Kind = "abort")
  BY <1>0, PcsSplit
<1>2. Open' => Open
  BY <1>1 DEF Open
<1>3. Plain'
  BY <1>0, <1>1 DEF Plain, Pcs
<1>4. CallInv'
  <2>1. pc \in ClosePcs => "close" \in tried'
    BY <1>0, PcsSplit
  <2>2. ended = "open" /\ inner
    BY <1>0 DEF CallInv
  <2>3. DropWarningSound'
    BY <1>0, <2>2 DEF CallInv, DropWarningSound
  <2> QED
    BY <1>0, <1>1, <1>2, <2>1, <2>2, <2>3 DEF CallInv, WritePcs, ClosePcs
<1>5. QueueInv'
  BY <1>0, ValidKept DEF QueueInv
<1>6. LogInv'
  BY <1>0, <1>2, LogFrame
<1>7. StoreInv'
  BY <1>0, <1>2, StoreFrame
<1>8. WireInv'
  <2>1. \A r : SoundRequest(r) => SoundRequest(r)'
    BY WireFrame
  <2> QED
    BY <1>0, <2>1, RunningSound, RequestSound DEF WireInv
<1>9. ObjectInv'
  BY <1>0 DEF ObjectInv, UploadSettled
<1> QED
  BY <1>3, <1>4, <1>5, <1>6, <1>7, <1>8, <1>9 DEF IInv

\* The call moves on to p and changes nothing else.
LEMMA GoToKeeps ==
  ASSUME IInv, GoTo(pc'), UNCHANGED <<options, client, srv, wire, temps, drops>>,
         pc' \in Pcs, pc # "abort", pc' # "abort", CallInv',
         pc' \in {"writeInline", "closeInline"} => ~q.errored /\ ~IsConcurrent(concurrent),
         pc' \in {"flush", "complete"} => ~q.errored /\ Pending(q) = <<>>
  PROVE  IInv'
<1> USE DEF options, client, front, ghost
<1>0. Plain /\ CallInv /\ QueueInv /\ LogInv /\ StoreInv /\ WireInv /\ ObjectInv
  BY DEF IInv
<1>1. /\ UNCHANGED <<kind, concurrent, q, uploadId, parts, cache, nextPart, inner, size,
                     state, arg, acked, last, ended, tried, srv, wire, temps, drops>>
      /\ Open' = Open
  BY DEF GoTo, Open
<1>2. Plain'
  BY <1>0, <1>1 DEF Plain
<1>3. QueueInv'
  BY <1>0, <1>1, ValidKept DEF QueueInv
<1>4. LogInv' /\ StoreInv'
  BY <1>0, <1>1, LogFrame, StoreFrame
<1>5. WireInv'
  BY <1>0, <1>1, WireFrame DEF WireInv
<1>6. ObjectInv'
  BY <1>0, <1>1 DEF ObjectInv, UploadSettled
<1> QED
  BY <1>2, <1>3, <1>4, <1>5, <1>6 DEF IInv

\* Same queue: the call fails or is dropped.
LEMMA FailKeeps ==
  ASSUME IInv, pc # "idle", ReturnErr \/ Dropped, UNCHANGED <<options, client, srv>>,
         temps' \in 0..MaxTemp, drops' \in 0..MaxDrops,
         \A r \in wire' : r \in wire \/ (r = Request /\ pc \in Requesting)
  PROVE  IInv'
<1>1. /\ pc' = "idle" /\ arg' = NoData /\ tried' = tried \cup {Kind}
      /\ state' = state \/ state' = "Error"
      /\ UNCHANGED <<q, uploadId, parts, cache, nextPart, inner, size, acked, last, ended>>
  BY DEF ReturnErr, Dropped, Transition, front, client
<1>2. /\ SoundQueue(PartInputs, q') /\ (~IsConcurrent(concurrent) => q'.tasks = <<>>)
      /\ \A t \in TaskSet(q') : Valid(t.input)
      /\ Ready(q') \subseteq Ready(q)
      /\ Pending(q') = Pending(q) /\ q'.errored = q.errored
  BY <1>1 DEF IInv, QueueInv
<1> QED
  BY <1>1, <1>2, ReturnKeeps

LEMMA FrontFailedKeeps ==
  ASSUME IInv, pc # "idle", FrontReady(q), FrontFailed,
         UNCHANGED <<options, srv, temps, drops>>
  PROVE  IInv'
<1> DEFINE i == q.tasks[1].input
<1>0. /\ SoundQueue(PartInputs, q) /\ q \in QueueType(PartInputs)
      /\ ~IsConcurrent(concurrent) => q.tasks = <<>>
      /\ \A t \in TaskSet(q) : Valid(t.input)
      /\ temps' \in 0..MaxTemp /\ drops' \in 0..MaxDrops
  BY DEF IInv, QueueInv, SoundQueue, Plain
<1>1. /\ pc' = "idle" /\ arg' = NoData /\ tried' = tried \cup {Kind}
      /\ state' = state \/ state' = "Error"
      /\ q' = FrontError(q)
      /\ wire' \subseteq wire \cup RunningRequests(q)
      /\ UNCHANGED <<uploadId, parts, cache, nextPart, inner, size, acked, last, ended>>
  BY DEF FrontFailed, ReturnErr, Transition
<1>2. IsConcurrent(concurrent)
  BY <1>0 DEF FrontReady
<1>3. SoundQueue(PartInputs, q') /\ Valid(i)
  BY <1>0, <1>1, ErrorSound, FrontInTasks
<1>4. CASE q.tasks[1].st = "temp"
  <2>1. /\ Pending(q') = Pending(q) /\ q'.errored = q.errored
        /\ Ready(q') \subseteq Ready(q)
        /\ TaskSet(q') \subseteq TaskSet(q) \cup {NewTask(i)}
    BY <1>0, <1>1, <1>4, ErrorSound DEF SoundQueue, QueueType
  <2>2. \A t \in TaskSet(q') : Valid(t.input)
    BY <1>0, <1>3, <2>1 DEF NewTask
  <2> QED
    BY <1>0, <1>1, <1>2, <1>3, <2>1, <2>2, ReturnKeeps
<1>5. CASE q.tasks[1].st # "temp"
  <2>1. /\ Pending(q') = <<>> /\ q'.errored /\ Ready(q') = {} /\ TaskSet(q') = {}
    BY <1>0, <1>1, <1>5, ErrorSound
  <2> QED
    BY <1>0, <1>1, <1>2, <1>3, <2>1, ReturnKeeps
<1> QED
  BY <1>4, <1>5

LEMMA RequestsFail == ASSUME IInv, RequestTemp \/ RequestPerm \/ DropCall PROVE IInv'
<1>0. /\ temps \in 0..MaxTemp /\ drops \in 0..MaxDrops /\ MaxTemp \in Nat /\ MaxDrops \in Nat
  BY WriterAssumption DEF IInv, Plain
<1>1. /\ pc # "idle"
      /\ ReturnErr \/ Dropped
      /\ UNCHANGED <<options, client, srv>>
      /\ temps' \in 0..MaxTemp /\ drops' \in 0..MaxDrops
  BY <1>0 DEF RequestTemp, RequestPerm, DropCall, Requesting
<1>2. \A r \in wire' : r \in wire \/ (r = Request /\ pc \in Requesting)
  BY DEF RequestTemp, RequestPerm, DropCall
<1> QED
  BY <1>1, <1>2, FailKeeps

LEMMA CloseCallKeeps == ASSUME Orderly, IInv, CloseCall PROVE IInv'
<1> USE DEF options, client, front, ghost
<1>0. CallInv /\ Plain
  BY DEF IInv
<1>1. /\ pc = "idle" /\ inner /\ ended = "open" /\ "abort" \notin tried /\ "size" \notin tried
      /\ arg = NoData
      /\ pc' = IF ~uploadId THEN "once"
               ELSE IF cache # NoData /\ kind # "position" THEN "close" ELSE "drain"
      /\ GoTo(pc') /\ UNCHANGED <<options, client, srv, wire, temps, drops>>
  BY <1>0 DEF CloseCall, MayCall, CallInv, WritePcs, GoTo
<1>2. pc' \in {"once", "close", "drain"} /\ pc' \in ClosePcs /\ pc' \notin WritePcs
  BY <1>1 DEF ClosePcs, WritePcs
<1>3. CallInv'
  BY <1>0, <1>1, <1>2 DEF CallInv, DropWarningSound, GoTo, Open
<1> QED
  BY <1>1, <1>2, <1>3, GoToKeeps DEF Pcs

\* Submit finds the queue broken, starts the part inline, or waits.
LEMMA SubmitGoes ==
  ASSUME IInv, Submit, ~(IsConcurrent(concurrent) /\ HasRemaining(q, concurrent, Prefetch) /\ ~q.errored)
  PROVE  IInv'
<1> USE DEF options, client, front, ghost
<1>0. CallInv /\ Plain /\ pc \in {"write", "close"} /\ cache # NoData
  BY DEF IInv, Submit
<1>1. CASE q.errored
  BY <1>0, <1>1, FailKeeps DEF Submit, IInv, Plain
<1>2. CASE ~q.errored /\ ~IsConcurrent(concurrent)
  <2>1. /\ pc' = Inline(pc) /\ GoTo(pc')
        /\ UNCHANGED <<options, client, srv, wire, temps, drops>>
    BY <1>2 DEF Submit, GoTo
  <2>2. \/ pc = "write" /\ pc' = "writeInline"
        \/ pc = "close" /\ pc' = "closeInline"
    BY <1>0, <2>1 DEF Inline
  <2>3. CallInv'
    BY <1>0, <2>1, <2>2 DEF CallInv, DropWarningSound, GoTo, WritePcs, ClosePcs, Open
  <2> QED
    BY <1>2, <2>1, <2>2, <2>3, GoToKeeps DEF Pcs
<1>3. CASE ~q.errored /\ IsConcurrent(concurrent)
  <2>1. /\ pc' = Wait(pc) /\ GoTo(pc')
        /\ UNCHANGED <<options, client, srv, wire, temps, drops>>
    BY <1>3 DEF Submit, GoTo
  <2>2. \/ pc = "write" /\ pc' = "writeWait"
        \/ pc = "close" /\ pc' = "closeWait"
    BY <1>0, <2>1 DEF Wait
  <2>3. CallInv'
    BY <1>0, <2>1, <2>2 DEF CallInv, DropWarningSound, GoTo, WritePcs, ClosePcs, Open
  <2> QED
    BY <1>3, <2>1, <2>2, <2>3, GoToKeeps DEF Pcs
<1> QED
  BY <1>1, <1>2, <1>3

---------------------------------------------------------------------------
(* A buffer more is acknowledged, a part more is stored. *)

LEMMA StoredType ==
  ASSUME NEW s \in ServerType, NEW n \in Nat
  PROVE  Stored(s, n) \in Buffers \cup {NoData}
<1>1. s.stored \in Seq(Buffers \cup {NoData}) /\ Len(s.stored) \in Nat
  BY DEF ServerType
<1>2. CASE n < Len(s.stored)
  <2>1. n + 1 \in 1..Len(s.stored)
    BY <1>1, <1>2
  <2> QED
    BY <1>1, <1>2, <2>1, ElementOfSeq DEF Stored
<1>3. CASE ~(n < Len(s.stored))
  BY <1>3 DEF Stored
<1> QED
  BY <1>2, <1>3

\* acked' = acked, or acked with one more buffer.
Grows ==
  /\ kind' = kind
  /\ acked' \in Seq(Buffers) /\ Len(acked) <= Len(acked')
  /\ \A k \in 1..Len(acked) : acked'[k] = acked[k]

LEMMA ValidGrows ==
  ASSUME LogInv, Grows
  PROVE  /\ \A i \in PartInputs : Valid(i) => Valid(i)'
         /\ \A k \in 1..Len(acked) : PartNo(k)' = PartNo(k)
<1>1. Len(acked) \in Nat /\ Len(acked') \in Nat
  BY DEF LogInv, Grows
<1>2. ASSUME NEW i \in PartInputs, Valid(i) PROVE Valid(i)'
  <2>1. i.part \in Nat
    BY DEF PartInputs
  <2>2. kind # "block" => i.part + 1 \in 1..Len(acked) /\ i.part < Len(acked')
    BY <1>1, <1>2, <2>1 DEF Valid, Grows
  <2> QED
    BY <1>2, <2>1, <2>2 DEF Valid, Grows
<1>3. ASSUME NEW k \in 1..Len(acked) PROVE PartNo(k)' = PartNo(k)
  BY DEF PartNo, Grows
<1> QED
  BY <1>2, <1>3

LEMMA StoreGrows ==
  ASSUME LogInv, StoreInv, Grows, NEW i \in PartInputs, Valid(i),
         srv' = srv \/ srv' = StorePart(srv, i)
  PROVE  /\ srv' \in ServerType /\ srv'.object = srv.object /\ srv'.upload = srv.upload
         /\ StoredValid'
         /\ \A n \in 0..MaxWrites : Stored(srv, n) # NoData => Stored(srv', n) # NoData
         /\ (srv' = StorePart(srv, i) /\ Accepts(srv)) => Stored(srv', i.part) # NoData
<1>1. /\ srv \in ServerType /\ i.part \in 0..MaxWrites /\ i.part \in Nat
      /\ i.bytes \in Buffers /\ i.bytes # NoData /\ i = PartInput(i.part, i.bytes)
  BY WriterAssumption DEF StoreInv, PartInputs, PartInput, Buffers, NoData
<1>2. /\ srv' \in ServerType /\ srv'.object = srv.object /\ srv'.upload = srv.upload
  BY <1>1, StorePartFacts
<1>3. /\ (srv' = StorePart(srv, i) /\ Accepts(srv)) => Stored(srv', i.part) = i.bytes
      /\ \A n \in 0..MaxWrites :
           Stored(srv', n) = Stored(srv, n) \/ (n = i.part /\ Stored(srv', n) = i.bytes)
  BY <1>1, StorePartFacts
<1>4. ASSUME NEW n \in 0..MaxWrites, NEW b \in Buffers, b = Stored(srv', n)
      PROVE  Valid(PartInput(n, b))'
  <2>1. PartInput(n, b) \in PartInputs /\ b # NoData
    BY DEF PartInputs, PartInput, Buffers, NoData
  <2>2. Valid(PartInput(n, b))
    BY <1>1, <1>3, <1>4, <2>1 DEF StoreInv, StoredValid
  <2> QED
    BY <2>1, <2>2, ValidGrows
<1>5. StoredValid'
  <2> SUFFICES ASSUME NEW n \in 0..MaxWrites, Stored(srv', n) # NoData
               PROVE  Valid(PartInput(n, Stored(srv, n)))'
    BY DEF StoredValid
  <2>1. PICK b \in Buffers : b = Stored(srv', n)
    BY <1>2, StoredType
  <2>2. Valid(PartInput(n, b))'
    BY <1>4, <2>1
  <2> QED
    BY <2>1, <2>2 DEF Valid, PartInput
<1> QED
  BY <1>1, <1>2, <1>3, <1>5

LEMMA GrowsByOne ==
  ASSUME acked \in Seq(Buffers), NEW b \in Buffers, kind' = kind, acked' = Append(acked, b)
  PROVE  /\ Grows /\ acked' \in Seq(Buffers) /\ Len(acked') = Len(acked) + 1
         /\ acked'[Len(acked) + 1] = b
<1>1. /\ Append(acked, b) \in Seq(Buffers) /\ Len(Append(acked, b)) = Len(acked) + 1
      /\ \A k \in 1..Len(acked) : Append(acked, b)[k] = acked[k]
      /\ Append(acked, b)[Len(acked) + 1] = b /\ Len(acked) \in Nat
  BY AppendProperties
<1> QED
  BY <1>1 DEF Grows

\* The inputs of the queue are parts.
LEMMA InputsTyped ==
  ASSUME QueueInv
  PROVE  /\ \A t \in TaskSet(q) : t.input \in PartInputs
         /\ \A x \in Ready(q) : x \in PartInputs /\ x.part \in 0..MaxWrites
<1>1. q \in QueueType(PartInputs)
  BY DEF QueueInv, SoundQueue
<1>2. \A x \in PartInputs : x.part \in 0..MaxWrites
  BY DEF PartInputs
<1> QED
  BY <1>1, <1>2, ReadyType

\* One buffer more was submitted.
LEMMA ChainGrows ==
  ASSUME LogInv, QueueInv, Chain, Grows, UNCHANGED parts,
         nextPart + 1 <= Len(acked), nextPart' = nextPart + 1,
         Pending(q') = Append(Pending(q), PartInput(PartNo(nextPart + 1), acked[nextPart + 1]))
  PROVE  Chain'
<1> DEFINE i == PartInput(PartNo(nextPart + 1), acked[nextPart + 1])
           n == Len(parts)
           P == Pending(q)
<1>1. /\ P \in Seq(PartInputs) /\ Len(P) \in Nat /\ n \in Nat /\ n + Len(P) = nextPart
      /\ Len(acked) \in Nat
  BY PendingType DEF QueueInv, SoundQueue, LogInv, Chain
<1>2. /\ Len(Append(P, i)) = Len(P) + 1 /\ Append(P, i)[Len(P) + 1] = i
      /\ \A j \in 1..Len(P) : Append(P, i)[j] = P[j]
  BY <1>1
<1>3. \A k \in 1..(nextPart + 1) : PartNo(k)' = PartNo(k) /\ acked'[k] = acked[k]
  BY <1>1, ValidGrows DEF Grows
<1>4. \A k \in 1..n : parts[k] = PartNo(k)'
  BY <1>1, <1>3 DEF Chain
<1>5. ASSUME NEW j \in 1..(Len(P) + 1)
      PROVE  Append(P, i)[j] = PartInput(PartNo(n + j)', acked'[n + j])
  <2>1. n + j \in 1..(nextPart + 1)
    BY <1>1
  <2>2. CASE j \in 1..Len(P)
    BY <1>2, <1>3, <2>1, <2>2 DEF Chain
  <2>3. CASE j = Len(P) + 1
    <3>1. n + j = nextPart + 1
      BY <1>1, <2>3
    <3> QED
      BY <1>2, <1>3, <2>1, <2>3, <3>1
  <2> QED
    BY <1>1, <2>2, <2>3
<1>6. Pending(q') = Append(P, i) /\ Len(Pending(q')) = Len(P) + 1
  BY <1>2
<1> HIDE DEF i, P
<1>7. \A j \in 1..Len(Pending(q')) : Pending(q')[j] = PartInput(PartNo(n + j)', acked'[n + j])
  BY <1>5, <1>6
<1>8. n + Len(Pending(q')) = nextPart'
  BY <1>1, <1>6
<1> QED
  BY <1>4, <1>7, <1>8 DEF Chain, PartNo, PartInput

\* Nothing was submitted.
LEMMA ChainSame ==
  ASSUME LogInv, QueueInv, Chain, Grows, UNCHANGED <<parts, nextPart>>,
         nextPart <= Len(acked), Pending(q') = Pending(q)
  PROVE  Chain'
<1>1. /\ Len(parts) \in Nat /\ Len(Pending(q)) \in Nat /\ nextPart \in Nat
      /\ Len(parts) + Len(Pending(q)) = nextPart /\ Len(acked) \in Nat
  BY PendingType DEF LogInv, QueueInv, SoundQueue, Chain
<1>2. \A k \in 1..nextPart : PartNo(k)' = PartNo(k) /\ acked'[k] = acked[k]
  BY <1>1, ValidGrows DEF Grows
<1>3. \A k \in 1..Len(parts) : parts[k] = PartNo(k)'
  BY <1>1, <1>2 DEF Chain
<1>4. ASSUME NEW j \in 1..Len(Pending(q)), NEW k, k = Len(parts) + j
      PROVE  Pending(q)[j] = PartInput(PartNo(k)', acked'[k])
  <2>1. k \in 1..nextPart
    BY <1>1, <1>4
  <2> QED
    BY <1>2, <1>4, <2>1 DEF Chain
<1> QED
  BY <1>1, <1>3, <1>4 DEF Chain, PartInput, PartNo

\* Before a close was tried, the wire holds nothing that publishes.
LEMMA WireGrows ==
  ASSUME LogInv, WireInv, Grows, wire' \subseteq wire, tried \subseteq tried',
         "close" \notin tried
  PROVE  WireInv'
<1> SUFFICES ASSUME NEW r \in wire PROVE SoundRequest(r)'
  BY DEF WireInv
<1>1. \/ \E i \in PartInputs : r = [op |-> "part", input |-> i] /\ Valid(i)
      \/ r = [op |-> "abort"] \/ r = [op |-> "initiate"]
  BY DEF WireInv, SoundRequest
<1> QED
  BY <1>1, ValidGrows DEF SoundRequest

\* The buffer held back was submitted: write holds back its own, close goes on
\* to drain.
LEMMA SubmittedKeeps ==
  ASSUME IInv, Submitted, UNCHANGED <<options, wire, temps, drops>>,
         pc \in {"write", "writeWait", "writeInline", "close", "closeWait", "closeInline"},
         ~q.errored, ~q'.errored, SoundQueue(PartInputs, q'),
         ~IsConcurrent(concurrent) => q'.tasks = <<>>,
         Pending(q') = Append(Pending(q), PartInput(PartId, cache)),
         TaskSet(q') \subseteq TaskSet(q) \cup {NewTask(PartInput(PartId, cache))},
         \/ srv' = srv /\ Ready(q') \subseteq Ready(q)
         \/ /\ Accepts(srv) /\ srv' = StorePart(srv, PartInput(PartId, cache))
            /\ Ready(q') \subseteq Ready(q) \cup {PartInput(PartId, cache)}
  PROVE  IInv'
<1> DEFINE i == PartInput(PartId, cache)
<1>0. Plain /\ CallInv /\ QueueInv /\ LogInv /\ StoreInv /\ WireInv /\ ObjectInv
  BY DEF IInv
<1>1. /\ Open /\ cache # NoData /\ uploadId /\ ended = "open" /\ inner
      /\ UNCHANGED <<kind, concurrent, uploadId, parts, inner, ended, tried, wire, temps, drops>>
      /\ nextPart' = nextPart + 1 /\ cache' = arg
  BY <1>0, CallOpen
  DEF CallInv, WritePcs, Submitted, ReturnWritten, GoTo, front, ghost, options
<1>2. /\ i \in PartInputs /\ Valid(i) /\ nextPart + 1 = Len(acked)
      /\ i = PartInput(PartNo(nextPart + 1), acked[nextPart + 1])
  BY <1>0, <1>1, HeldPart
<1> HIDE DEF i
<1>3. /\ acked \in Seq(Buffers) /\ Len(acked) \in Nat /\ nextPart \in Nat /\ Chain
      /\ last \in 0..MaxWrites /\ MaxWrites \in Nat /\ Len(acked) <= last
      /\ parts \in Seq(0..MaxWrites) /\ size = Len(acked)
  BY <1>0, <1>1, WriterAssumption DEF LogInv
<1>4. \/ /\ pc \in WritePcs /\ pc' = "idle" /\ arg' = NoData /\ size' = size + 1
         /\ acked' = Append(acked, arg) /\ last' = arg
         /\ state' = IF state = "Error" THEN state ELSE "Written"
         /\ arg \in Buffers /\ arg > last /\ "close" \notin tried
      \/ /\ pc \in ClosePcs /\ pc' = "drain" /\ arg' = NoData /\ arg = NoData
         /\ UNCHANGED <<size, state, acked, last>>
  <2>1. CASE pc \in {"write", "writeWait", "writeInline"}
    <3>1. pc \in WritePcs /\ Kind = "write"
      BY <1>0, <2>1, PcsSplit DEF WritePcs
    <3> QED
      BY <1>0, <3>1 DEF Submitted, ReturnWritten, Transition, CallInv
  <2>2. CASE pc \in {"close", "closeWait", "closeInline"}
    <3>1. pc \in ClosePcs /\ Kind = "close" /\ pc \notin WritePcs
      BY <1>0, <2>2, PcsSplit DEF WritePcs, ClosePcs
    <3> QED
      BY <1>0, <3>1 DEF Submitted, GoTo, CallInv, front, ghost
  <2> QED
    BY <2>1, <2>2
<1>5. Grows /\ acked' \in Seq(Buffers)
      /\ (acked' = acked \/ (Len(acked') = Len(acked) + 1 /\ acked'[Len(acked) + 1] = arg))
  <2>1. CASE acked' = acked
    BY <1>1, <1>3, <2>1 DEF Grows
  <2>2. CASE arg \in Buffers /\ acked' = Append(acked, arg)
    BY <1>1, <1>3, <2>2, GrowsByOne
  <2> QED
    BY <1>4, <2>1, <2>2
<1>6. Open'
  BY <1>1, <1>4 DEF Open
<1>7. Plain'
  BY <1>0, <1>1, <1>4 DEF Plain, Pcs
<1>8. CallInv'
  <2>1. acked' # <<>>
    BY <1>3, <1>4, <1>2, <1>5
  <2>2. cache' = NoData => pc' \in ClosePcs
    BY <1>1, <1>4 DEF Buffers, NoData, ClosePcs
  <2>3. DropWarningSound'
    BY <1>0, <1>1, <1>4, <2>1 DEF CallInv, DropWarningSound
  <2>4. pc' \notin WritePcs
    BY <1>4 DEF WritePcs
  <2> QED
    BY <1>0, <1>1, <1>4, <2>2, <2>3, <2>4 DEF CallInv, ClosePcs
<1>9. QueueInv'
  <2>1. \A t \in TaskSet(q') : t.input \in PartInputs /\ Valid(t.input)
    <3>1. \A t \in TaskSet(q) : t.input \in PartInputs
      BY <1>0, InputsTyped
    <3> QED
      BY <1>0, <1>2, <3>1 DEF QueueInv, NewTask, i
  <2>2. \A t \in TaskSet(q') : Valid(t.input)'
    BY <1>0, <1>5, <2>1, ValidGrows
  <2> QED
    BY <1>1, <1>4, <2>2 DEF QueueInv
<1>10. LogInv'
  <2>1. Chain'
    BY <1>0, <1>1, <1>2, <1>3, <1>5, ChainGrows DEF i
  <2>2. /\ size' = Len(acked') /\ last' \in 0..MaxWrites /\ Len(acked') <= last'
        /\ cache' \in Buffers \cup {NoData}
    BY <1>1, <1>3, <1>4, <1>5 DEF Buffers
  <2>3. /\ cache' = NoData => nextPart' = Len(acked')
        /\ cache' # NoData => nextPart' + 1 = Len(acked') /\ cache' = acked'[nextPart' + 1]
    BY <1>1, <1>2, <1>3, <1>4, <1>5 DEF Buffers, NoData
  <2> QED
    BY <1>1, <1>3, <1>5, <2>1, <2>2, <2>3 DEF LogInv
<1>11. StoreInv' /\ srv'.object = srv.object /\ srv'.upload = srv.upload
  <2>1. /\ srv' \in ServerType /\ srv'.object = srv.object /\ srv'.upload = srv.upload
        /\ StoredValid'
        /\ \A n \in 0..MaxWrites : Stored(srv, n) # NoData => Stored(srv', n) # NoData
        /\ (srv' = StorePart(srv, i) /\ Accepts(srv)) => Stored(srv', i.part) # NoData
    BY <1>0, <1>2, <1>5, StoreGrows DEF i
  <2>2. \A x \in Ready(q) : x.part \in 0..MaxWrites
    BY <1>0, InputsTyped
  <2>3. \A x \in Ready(q') : Stored(srv', x.part) # NoData
    BY <1>0, <1>1, <2>1, <2>2 DEF StoreInv, i
  <2>4. \A k \in 1..Len(parts) : Stored(srv', parts[k]) # NoData
    <3>1. \A k \in 1..Len(parts) : parts[k] \in 0..MaxWrites
      BY <1>3, ElementOfSeq
    <3> QED
      BY <1>0, <1>1, <2>1, <3>1 DEF StoreInv
  <2> QED
    BY <1>1, <2>1, <2>3, <2>4 DEF StoreInv
<1>12. WireInv'
  <2>1. CASE "close" \notin tried
    BY <1>0, <1>1, <1>5, <2>1, WireGrows
  <2>2. CASE "close" \in tried
    <3>1. acked' = acked
      BY <1>4, <2>2
    <3>2. \A n \in 0..MaxWrites : Stored(srv, n) # NoData => Stored(srv', n) # NoData
      BY <1>0, <1>2, <1>5, StoreGrows DEF i
    <3>3. \A r : SoundRequest(r) => SoundRequest(r)'
      BY <1>1, <3>1, <3>2, WireFrame
    <3> QED
      BY <1>0, <1>1, <3>3 DEF WireInv
  <2> QED
    BY <2>1, <2>2
<1>13. ObjectInv'
  BY <1>0, <1>1, <1>4, <1>11 DEF ObjectInv, UploadSettled
<1> QED
  BY <1>7, <1>8, <1>9, <1>10, <1>11, <1>12, <1>13 DEF IInv

LEMMA SubmitKeeps == ASSUME IInv, Submit PROVE IInv'
<1>1. CASE ~(IsConcurrent(concurrent) /\ HasRemaining(q, concurrent, Prefetch) /\ ~q.errored)
  BY <1>1, SubmitGoes
<1>2. CASE IsConcurrent(concurrent) /\ HasRemaining(q, concurrent, Prefetch) /\ ~q.errored
  <2> DEFINE i == PartInput(PartId, cache)
  <2>1. /\ pc \in {"write", "close"} /\ cache # NoData /\ q' = PushTask(q, i) /\ Submitted
        /\ UNCHANGED <<options, srv, wire, temps, drops>>
    BY <1>2 DEF Submit
  <2>2. Open
    BY <2>1, CallOpen DEF IInv
  <2>3. SoundQueue(PartInputs, q) /\ i \in PartInputs
    BY <2>1, <2>2, HeldPart DEF IInv, QueueInv
  <2> HIDE DEF i
  <2>4. /\ SoundQueue(PartInputs, q') /\ ~q'.errored /\ Pending(q') = Append(Pending(q), i)
        /\ TaskSet(q') = TaskSet(q) \cup {NewTask(i)} /\ Ready(q') = Ready(q)
    BY <1>2, <2>1, <2>3, PushSound
  <2> QED
    BY <1>2, <2>1, <2>4, SubmittedKeeps DEF i
<1> QED
  BY <1>1, <1>2

LEMMA SubmitResumeKeeps == ASSUME IInv, SubmitResume PROVE IInv'
<1>0. /\ pc \in {"writeWait", "closeWait"} /\ FrontReady(q)
      /\ UNCHANGED <<options, srv, temps, drops>>
  BY DEF SubmitResume
<1>1. CASE FrontFailed
  BY <1>0, <1>1, FrontFailedKeeps
<1>2. CASE ~FrontFailed
  <2> DEFINE i == PartInput(PartId, cache)
             p == FrontToResults(q)
  <2>1. /\ q.tasks[1].st = "ok" /\ q' = PushTask(p, i) /\ Submitted
        /\ UNCHANGED wire
    BY <1>2 DEF SubmitResume
  <2>2. Open /\ cache # NoData
    BY <1>0, CallOpen DEF IInv, CallInv, WritePcs
  <2>3. SoundQueue(PartInputs, q) /\ i \in PartInputs /\ IsConcurrent(concurrent)
    BY <1>0, <2>2, HeldPart DEF IInv, QueueInv, FrontReady
  <2> HIDE DEF i
  <2>4. /\ SoundQueue(PartInputs, p) /\ ~p.errored /\ ~q.errored /\ Pending(p) = Pending(q)
        /\ TaskSet(p) \subseteq TaskSet(q) /\ Ready(p) \subseteq Ready(q)
    BY <1>0, <2>1, <2>3, MoveSound
  <2> HIDE DEF p
  <2>5. /\ SoundQueue(PartInputs, q') /\ ~q'.errored /\ Pending(q') = Append(Pending(q), i)
        /\ TaskSet(q') \subseteq TaskSet(q) \cup {NewTask(i)} /\ Ready(q') \subseteq Ready(q)
    BY <2>1, <2>3, <2>4, PushSound
  <2> QED
    BY <1>0, <2>1, <2>3, <2>4, <2>5, SubmittedKeeps DEF i
<1> QED
  BY <1>1, <1>2

LEMMA InlineOkKeeps == ASSUME IInv, InlineOk PROVE IInv'
<1> DEFINE i == PartInput(PartId, cache)
<1>1. /\ pc \in {"writeInline", "closeInline"} /\ Accepts(srv) /\ srv' = StorePart(srv, i)
      /\ q' = [q EXCEPT !.results = Append(q.results, i)] /\ Submitted
      /\ UNCHANGED <<options, wire, temps, drops>>
  BY DEF InlineOk
<1>2. Open /\ cache # NoData
  BY <1>1, CallOpen DEF IInv, CallInv, WritePcs
<1>3. SoundQueue(PartInputs, q) /\ i \in PartInputs /\ ~q.errored /\ q.tasks = <<>>
  BY <1>1, <1>2, HeldPart DEF IInv, QueueInv
<1> HIDE DEF i
<1>4. /\ SoundQueue(PartInputs, q') /\ ~q'.errored /\ Pending(q') = Append(Pending(q), i)
      /\ q'.tasks = <<>>
      /\ TaskSet(q') = TaskSet(q) /\ Ready(q') \subseteq Ready(q) \cup {i}
  BY <1>1, <1>3, InlineSound
<1> QED
  BY <1>1, <1>3, <1>4, SubmittedKeeps DEF i

---------------------------------------------------------------------------
(* write *)

LEMMA WriteFirstKeeps ==
  ASSUME Orderly, IInv, NEW b \in Buffers, WriteCall(b), WriteFirst(b)
  PROVE  IInv'
<1>0. Plain /\ CallInv /\ QueueInv /\ LogInv /\ StoreInv /\ WireInv /\ ObjectInv
  BY DEF IInv
<1>1. /\ pc = "idle" /\ inner /\ b > last /\ "close" \notin tried /\ "abort" \notin tried
      /\ cache = NoData /\ (~uploadId \/ kind = "position") /\ cache' = b
      /\ pc' = "idle" /\ arg' = NoData /\ size' = size + 1
      /\ state' = IF state = "Error" THEN state ELSE "Written"
      /\ acked' = Append(acked, b) /\ last' = b
      /\ UNCHANGED <<kind, concurrent, q, uploadId, parts, nextPart, inner, ended, tried,
                     srv, wire, temps, drops>>
  BY DEF WriteCall, WriteFirst, HoldsBack, MayCall, ReturnWritten, Transition, options
<1>2. /\ acked \in Seq(Buffers) /\ Len(acked) \in Nat /\ nextPart \in Nat
      /\ last \in 0..MaxWrites /\ MaxWrites \in Nat /\ Len(acked) <= last
      /\ parts \in Seq(0..MaxWrites) /\ size = Len(acked)
      /\ Open /\ ended = "open" /\ nextPart = Len(acked)
      /\ b # NoData
  BY <1>0, <1>1, WriterAssumption DEF LogInv, Open, CallInv, Buffers, NoData
<1>3. /\ Grows /\ acked' \in Seq(Buffers) /\ Len(acked') = Len(acked) + 1
      /\ acked'[Len(acked) + 1] = b
  BY <1>1, <1>2, GrowsByOne
<1>4. Plain'
  BY <1>0, <1>1 DEF Plain
<1>5. CallInv'
  <2>1. acked' # <<>>
    BY <1>2, <1>3
  <2>2. DropWarningSound'
    BY <1>0, <1>1, <1>2, <2>1 DEF CallInv, DropWarningSound
  <2> QED
    BY <1>0, <1>1, <1>2, <2>2 DEF CallInv, WritePcs, ClosePcs
<1>6. QueueInv'
  <2>1. \A t \in TaskSet(q) : Valid(t.input)'
    BY <1>0, <1>3, InputsTyped, ValidGrows DEF QueueInv
  <2> QED
    BY <1>0, <1>1, <2>1 DEF QueueInv
<1>7. LogInv'
  <2>1. ~q.errored => Chain'
    <3> SUFFICES ASSUME ~q.errored PROVE Chain'
      OBVIOUS
    <3>1. Chain
      BY <1>0, <1>2 DEF LogInv
    <3> QED
      BY <1>0, <1>1, <1>2, <1>3, <3>1, ChainSame
  <2>2. /\ size' = Len(acked') /\ last' \in 0..MaxWrites /\ Len(acked') <= last'
    BY <1>1, <1>2, <1>3 DEF Buffers
  <2>3. nextPart' + 1 = Len(acked') /\ cache' = acked'[nextPart' + 1] /\ cache' # NoData
    BY <1>1, <1>2, <1>3
  <2>4. ~uploadId => nextPart = 0 /\ parts = <<>> /\ Pending(q) = <<>>
    BY <1>0, <1>2 DEF LogInv
  <2> QED
    BY <1>1, <1>2, <1>3, <2>1, <2>2, <2>3, <2>4 DEF LogInv
<1>8. StoreInv'
  <2>1. StoredValid'
    <3> SUFFICES ASSUME NEW n \in 0..MaxWrites, Stored(srv, n) # NoData
                 PROVE  Valid(PartInput(n, Stored(srv, n)))'
      BY <1>1 DEF StoredValid
    <3>1. PICK x \in Buffers : x = Stored(srv, n)
      BY <1>0, StoredType DEF StoreInv
    <3>2. PartInput(n, x) \in PartInputs /\ Valid(PartInput(n, x))
      BY <1>0, <3>1 DEF StoreInv, StoredValid, PartInputs, PartInput
    <3>3. Valid(PartInput(n, x))'
      BY <1>0, <1>3, <3>2, ValidGrows
    <3> QED
      BY <1>1, <3>1, <3>3 DEF Valid, PartInput
  <2> QED
    BY <1>0, <1>1, <1>2, <2>1 DEF StoreInv
<1>9. WireInv'
  BY <1>0, <1>1, <1>3, WireGrows
<1>10. ObjectInv'
  BY <1>0, <1>1, <1>2 DEF ObjectInv, UploadSettled
<1> QED
  BY <1>4, <1>5, <1>6, <1>7, <1>8, <1>9, <1>10 DEF IInv

LEMMA SameGrows == ASSUME LogInv, UNCHANGED <<kind, acked>> PROVE Grows
BY DEF LogInv, Grows

LEMMA WriteNextKeeps ==
  ASSUME Orderly, IInv, NEW b \in Buffers, WriteCall(b), WriteNext(b)
  PROVE  IInv'
<1> USE DEF options, front, ghost
<1>0. Plain /\ CallInv /\ QueueInv /\ LogInv /\ StoreInv /\ WireInv /\ ObjectInv
  BY DEF IInv
<1>1. /\ pc = "idle" /\ inner /\ b > last /\ "close" \notin tried /\ "abort" \notin tried
      /\ kind # "oneshot" /\ ~(cache = NoData /\ (~uploadId \/ kind = "position"))
      /\ uploadId' = (uploadId \/ kind = "block")
      /\ pc' = IF uploadId' THEN "write" ELSE "initiate"
      /\ arg' = b
      /\ UNCHANGED <<kind, concurrent, q, parts, cache, nextPart, inner, size, state,
                     acked, last, ended, tried, srv, wire, temps, drops>>
  BY DEF WriteCall, WriteNext, HoldsBack, MayCall
<1>2. Open /\ ended = "open" /\ pc' # "abort" /\ Open'
  BY <1>0, <1>1 DEF CallInv, Open
<1>3. cache # NoData
  BY <1>0, <1>1, <1>2 DEF CallInv, ClosePcs
<1>4. pc' \in WritePcs /\ pc' \in {"initiate", "write"}
  BY <1>1 DEF WritePcs
<1>5. Plain'
  BY <1>0, <1>1, <1>4 DEF Plain, Pcs
<1>6. CallInv'
  <2>1. ~uploadId' => kind = "multipart"
    BY <1>0, <1>1, WriterAssumption DEF Plain, CallInv
  <2>2. DropWarningSound'
    BY <1>0, <1>1 DEF CallInv, DropWarningSound
  <2>3. pc' \notin ClosePcs
    BY <1>4 DEF ClosePcs
  <2> QED
    BY <1>0, <1>1, <1>2, <1>3, <1>4, <2>1, <2>2, <2>3 DEF CallInv
<1>7. QueueInv'
  BY <1>0, <1>1, <1>4, ValidKept DEF QueueInv
<1>8. LogInv'
  BY <1>0, <1>1, <1>2 DEF LogInv, Chain, PartNo
<1>9. StoreInv'
  BY <1>0, <1>1, <1>2, StoreFrame
<1>10. WireInv'
  BY <1>0, <1>1, SameGrows, WireGrows
<1>11. ObjectInv'
  BY <1>0, <1>1 DEF ObjectInv, UploadSettled
<1> QED
  BY <1>5, <1>6, <1>7, <1>8, <1>9, <1>10, <1>11 DEF IInv

LEMMA WriteRefusedKeeps ==
  ASSUME Orderly, IInv, NEW b \in Buffers, WriteCall(b), WriteRefused
  PROVE  IInv'
<1> USE DEF options, client
<1>0. Plain /\ CallInv /\ QueueInv /\ LogInv /\ StoreInv /\ WireInv /\ ObjectInv
  BY DEF IInv
<1>1. /\ pc = "idle" /\ inner
      /\ tried' = tried \cup {"write"} /\ state' = "Error"
      /\ UNCHANGED <<kind, concurrent, q, uploadId, parts, cache, nextPart, inner, size, pc,
                     arg, acked, last, ended, srv, wire, temps, drops>>
  BY DEF WriteCall, WriteRefused, Transition
<1>2. Open' = Open
  BY <1>1 DEF Open
<1>3. Plain'
  BY <1>0, <1>1 DEF Plain
<1>4. CallInv'
  BY <1>0, <1>1, <1>2 DEF CallInv, DropWarningSound, WritePcs, ClosePcs
<1>5. QueueInv'
  BY <1>0, <1>1, ValidKept DEF QueueInv
<1>6. LogInv' /\ StoreInv'
  BY <1>0, <1>1, <1>2, LogFrame, StoreFrame
<1>7. WireInv'
  <2>1. \A r : SoundRequest(r) => SoundRequest(r)'
    BY <1>1, WireFrame
  <2> QED
    BY <1>0, <1>1, <2>1 DEF WireInv
<1>8. ObjectInv'
  BY <1>0, <1>1 DEF ObjectInv, UploadSettled
<1> QED
  BY <1>3, <1>4, <1>5, <1>6, <1>7, <1>8 DEF IInv

LEMMA WriteKeeps ==
  ASSUME Orderly, IInv, NEW b \in Buffers, WriteCall(b)
  PROVE  IInv'
BY WriteFirstKeeps, WriteNextKeeps, WriteRefusedKeeps DEF WriteCall

\* The service changes, but not its parts.
LEMMA StoreSame ==
  ASSUME StoreInv, Open' => Open, UNCHANGED <<kind, acked, parts>>,
         Ready(q') \subseteq Ready(q), srv' \in ServerType, srv'.stored = srv.stored
  PROVE  StoreInv' /\ \A n : Stored(srv', n) = Stored(srv, n)
<1>1. \A n : Stored(srv', n) = Stored(srv, n)
  BY DEF Stored
<1> QED
  BY <1>1 DEF StoreInv, StoredValid, Valid

LEMMA InitiateKeeps == ASSUME IInv, InitiateOk PROVE IInv'
<1> USE DEF options, front, ghost
<1>0. Plain /\ CallInv /\ QueueInv /\ LogInv /\ StoreInv /\ WireInv /\ ObjectInv
  BY DEF IInv
<1>1. /\ pc = "initiate" /\ pc' = "write" /\ uploadId' = TRUE /\ kind = "multipart"
      /\ srv' = [srv EXCEPT !.upload = "live"] /\ ~uploadId
      /\ UNCHANGED <<kind, concurrent, q, parts, cache, nextPart, inner, size, state, arg,
                     acked, last, ended, tried, wire, temps, drops>>
  BY <1>0 DEF InitiateOk, GoTo, CallInv, Initiate
<1>2. /\ Open /\ Open' /\ ended = "open" /\ cache # NoData /\ "close" \notin tried
  BY <1>0, <1>1, CallOpen DEF CallInv, WritePcs, Open
<1>3. /\ srv' \in ServerType /\ srv'.stored = srv.stored /\ srv'.object = srv.object
  BY <1>0, <1>1 DEF StoreInv, ServerType
<1>4. Plain'
  BY <1>0, <1>1 DEF Plain, Pcs
<1>5. CallInv'
  BY <1>0, <1>1, <1>2 DEF CallInv, DropWarningSound, WritePcs, ClosePcs
<1>6. QueueInv'
  BY <1>0, <1>1, ValidKept DEF QueueInv
<1>7. LogInv'
  BY <1>0, <1>1, <1>2 DEF LogInv, Chain, PartNo
<1>8. StoreInv'
  BY <1>0, <1>1, <1>2, <1>3, StoreSame
<1>9. WireInv'
  BY <1>0, <1>1, <1>2, SameGrows, WireGrows
<1>10. ObjectInv'
  BY <1>0, <1>1, <1>2, <1>3 DEF ObjectInv, UploadSettled
<1> QED
  BY <1>4, <1>5, <1>6, <1>7, <1>8, <1>9, <1>10 DEF IInv

---------------------------------------------------------------------------
(* close *)

\* next gave an output: its part is collected.
LEMMA CollectKeeps ==
  ASSUME IInv, pc = "drain", GoTo("drain"), ~q.errored, ~q'.errored,
         UNCHANGED <<options, uploadId, cache, nextPart, wire, srv, temps, drops>>,
         SoundQueue(PartInputs, q'), ~IsConcurrent(concurrent) => q'.tasks = <<>>,
         TaskSet(q') \subseteq TaskSet(q), Ready(q') \subseteq Ready(q),
         NEW i \in Ready(q), Pending(q) # <<>>, i = Head(Pending(q)),
         Pending(q') = Tail(Pending(q)), parts' = Append(parts, i.part)
  PROVE  IInv'
<1> USE DEF options, front, ghost
<1>0. Plain /\ CallInv /\ QueueInv /\ LogInv /\ StoreInv /\ WireInv /\ ObjectInv
  BY DEF IInv
<1>1. /\ pc' = "drain" /\ uploadId /\ Open /\ Open'
      /\ UNCHANGED <<kind, concurrent, uploadId, cache, nextPart, inner, size, state, arg,
                     acked, last, ended, tried, srv, wire, temps, drops>>
  BY <1>0, CallOpen DEF GoTo, Open, CallInv
<1> DEFINE P == Pending(q)
           n == Len(parts)
<1>2. /\ P \in Seq(PartInputs) /\ Len(P) \in Nat /\ Len(P) >= 1 /\ P[1] = i
      /\ Len(Tail(P)) = Len(P) - 1 /\ \A j \in 1..(Len(P) - 1) : Tail(P)[j] = P[j + 1]
  <2>1. P \in Seq(PartInputs)
    BY <1>0, PendingType DEF QueueInv, SoundQueue
  <2> HIDE DEF P
  <2>2. P # <<>> /\ i = Head(P)
    BY DEF P
  <2> QED
    BY <2>1, <2>2, HeadTailProperties
<1>3. /\ parts \in Seq(0..MaxWrites) /\ n \in Nat /\ i.part \in 0..MaxWrites
      /\ Chain /\ nextPart \in Nat /\ n + Len(P) = nextPart
  BY <1>0, <1>1, InputsTyped DEF LogInv, Chain
<1>4. /\ parts' \in Seq(0..MaxWrites) /\ Len(parts') = n + 1 /\ parts'[n + 1] = i.part
      /\ \A k \in 1..n : parts'[k] = parts[k]
  BY <1>3
<1>5. i.part = PartNo(n + 1)
  BY <1>2, <1>3 DEF Chain, PartInput
<1>6. Chain'
  <2>0. /\ \A a, b, c \in Nat : a + b = c => (a + 1) + (b - 1) = c
        /\ \A a, b \in Nat : \A j \in 1..(b - 1) : j + 1 \in 1..b /\ a + (j + 1) = (a + 1) + j
    OBVIOUS
  <2>1. (n + 1) + Len(Pending(q')) = nextPart
    <3>1. Len(Pending(q')) = Len(P) - 1
      BY <1>2
    <3>2. n \in Nat /\ Len(P) \in Nat /\ n + Len(P) = nextPart
      BY <1>2, <1>3
    <3> HIDE DEF n, P
    <3>3. (n + 1) + (Len(P) - 1) = nextPart
      BY <3>2
    <3> QED
      BY <3>1, <3>3
  <2>2. \A k \in 1..(n + 1) : parts'[k] = PartNo(k)
    BY <1>3, <1>4, <1>5 DEF Chain
  <2>3. ASSUME NEW j \in 1..(Len(P) - 1)
        PROVE  Tail(P)[j] = PartInput(PartNo((n + 1) + j), acked[(n + 1) + j])
    <3>1. j + 1 \in 1..Len(P) /\ n + (j + 1) = (n + 1) + j
      BY <1>2, <1>3, <2>0
    <3> QED
      BY <1>2, <1>3, <3>1 DEF Chain
  <2>4. \A j \in 1..Len(Pending(q')) :
          Pending(q')[j] = PartInput(PartNo((n + 1) + j), acked[(n + 1) + j])
    BY <1>2, <2>3
  <2>5. \A k : PartNo(k)' = PartNo(k)
    BY <1>1, ValidKept
  <2> QED
    BY <1>1, <1>4, <2>1, <2>2, <2>4, <2>5 DEF Chain, PartNo, PartInput
<1>7. Plain'
  BY <1>0, <1>1 DEF Plain, Pcs
<1>8. CallInv'
  BY <1>0, <1>1 DEF CallInv, DropWarningSound, WritePcs, ClosePcs
<1>9. QueueInv'
  BY <1>0, <1>1, ValidKept DEF QueueInv
<1>10. LogInv'
  BY <1>0, <1>1, <1>4, <1>6 DEF LogInv
<1>11. StoreInv'
  <2>1. Stored(srv, i.part) # NoData
    BY <1>0, <1>1 DEF StoreInv
  <2>2. \A k \in 1..Len(parts') : Stored(srv, parts'[k]) # NoData
    BY <1>0, <1>1, <1>3, <1>4, <2>1 DEF StoreInv
  <2> QED
    BY <1>0, <1>1, <2>2 DEF StoreInv, StoredValid, Valid
<1>12. WireInv'
  <2>1. \A r : SoundRequest(r) => SoundRequest(r)'
    BY <1>1, WireFrame
  <2> QED
    BY <1>0, <1>1, <2>1 DEF WireInv
<1>13. ObjectInv'
  BY <1>0, <1>1 DEF ObjectInv, UploadSettled
<1> QED
  BY <1>7, <1>8, <1>9, <1>10, <1>11, <1>12, <1>13 DEF IInv

LEMMA DrainKeeps == ASSUME IInv, Drain PROVE IInv'
<1>0. /\ pc = "drain" /\ UNCHANGED <<options, srv, temps, drops>> /\ SoundQueue(PartInputs, q)
      /\ Plain /\ CallInv /\ (~IsConcurrent(concurrent) => q.tasks = <<>>)
      /\ temps' \in 0..MaxTemp /\ drops' \in 0..MaxDrops
  BY DEF Drain, IInv, QueueInv, Plain
<1>1. CASE ReturnErr /\ UNCHANGED <<client, wire>>
  BY <1>0, <1>1, FailKeeps
<1>2. CASE /\ ~q.errored /\ HasResult(q) /\ q' = [q EXCEPT !.results = Tail(@)]
           /\ Collect(Head(q.results)) /\ GoTo("drain")
           /\ UNCHANGED <<uploadId, cache, nextPart, wire>>
  <2> DEFINE i == Head(q.results)
  <2>1. /\ SoundQueue(PartInputs, q') /\ q'.errored = q.errored /\ q'.tasks = q.tasks
        /\ Pending(q) # <<>> /\ Head(Pending(q)) = i /\ i \in Ready(q)
        /\ Pending(q') = Tail(Pending(q))
        /\ TaskSet(q') = TaskSet(q) /\ Ready(q') \subseteq Ready(q)
    BY <1>0, <1>2, BufferedSound
  <2>2. parts' = Append(parts, i.part)
    BY <1>2 DEF Collect
  <2> HIDE DEF i
  <2> QED
    BY <1>0, <1>2, <2>1, <2>2, CollectKeeps
<1>3. CASE /\ ~q.errored /\ ~HasResult(q) /\ FrontReady(q) /\ q.tasks[1].st = "ok"
           /\ q' = FrontToOwner(q) /\ Collect(q.tasks[1].input) /\ GoTo("drain")
           /\ UNCHANGED <<uploadId, cache, nextPart, wire>>
  <2> DEFINE i == q.tasks[1].input
  <2>1. q \in QueueType(PartInputs) /\ q.results = <<>> /\ IsConcurrent(concurrent)
    BY <1>0, <1>3 DEF SoundQueue, HasResult, FrontReady
  <2>2. i \in Ready(q)
    BY <1>3, <2>1, FrontInTasks
  <2>3. /\ SoundQueue(PartInputs, q') /\ q'.errored = q.errored
        /\ Pending(q) # <<>> /\ Head(Pending(q)) = i
        /\ Pending(q') = Tail(Pending(q))
        /\ TaskSet(q') \subseteq TaskSet(q) /\ Ready(q') \subseteq Ready(q)
    BY <1>0, <1>3, <2>1, TakeSound
  <2>4. parts' = Append(parts, i.part)
    BY <1>3 DEF Collect
  <2> HIDE DEF i
  <2> QED
    BY <1>0, <1>3, <2>1, <2>2, <2>3, <2>4, CollectKeeps
<1>4. CASE FrontReady(q) /\ FrontFailed
  BY <1>0, <1>4, FrontFailedKeeps
<1>5. CASE ~q.errored /\ ~HasResult(q) /\ DrainDone /\ ~ReturnErr
  <2>1. /\ q.tasks = <<>> /\ q.results = <<>> /\ UNCHANGED <<client, wire>>
        /\ pc' = IF kind = "position" /\ cache # NoData THEN "flush" ELSE "complete"
        /\ GoTo(pc')
    BY <1>5 DEF DrainDone, HasResult, GoTo
  <2>2. Pending(q) = <<>>
    BY <2>1 DEF Pending, TaskInputs
  <2>3. pc' \in ClosePcs /\ pc' \notin WritePcs /\ pc' \in {"flush", "complete"}
    BY <2>1 DEF ClosePcs, WritePcs
  <2>4. CallInv'
    BY <1>0, <2>1, <2>3
    DEF CallInv, DropWarningSound, GoTo, client, front, ghost, options, Open, WritePcs, ClosePcs
  <2> QED
    BY <1>0, <1>5, <2>1, <2>2, <2>3, <2>4, GoToKeeps DEF Pcs
<1> QED
  BY <1>1, <1>2, <1>3, <1>4, <1>5 DEF Drain, DrainDone

LEMMA FlushKeeps == ASSUME IInv, FlushOk PROVE IInv'
<1> USE DEF options, front, ghost
<1> DEFINE i == PartInput(PartId, cache)
           n == Len(parts)
<1>0. Plain /\ CallInv /\ QueueInv /\ LogInv /\ StoreInv /\ WireInv /\ ObjectInv
  BY DEF IInv
<1>1. /\ pc = "flush" /\ pc' = "complete" /\ Accepts(srv) /\ srv' = StorePart(srv, i)
      /\ parts' = Append(parts, nextPart) /\ cache' = NoData /\ nextPart' = nextPart + 1
      /\ UNCHANGED <<kind, concurrent, q, uploadId, inner, size, state, arg,
                     acked, last, ended, tried, wire, temps, drops>>
  BY DEF FlushOk, GoTo
<1>2. /\ Open /\ Open' /\ cache # NoData /\ kind = "position" /\ uploadId
      /\ ~q.errored /\ Pending(q) = <<>>
  BY <1>0, <1>1, CallOpen DEF CallInv, QueueInv, Open
<1>3. i \in PartInputs /\ Valid(i) /\ i.part = nextPart /\ nextPart + 1 = Len(acked)
  BY <1>0, <1>2, HeldPart DEF PartInput, PartId
<1> HIDE DEF i
<1>4. /\ Chain /\ n \in Nat /\ n = nextPart /\ parts \in Seq(0..MaxWrites)
      /\ nextPart \in 0..MaxWrites
  BY <1>0, <1>2, <1>3 DEF LogInv, Chain, PartInputs
<1>5. /\ parts' \in Seq(0..MaxWrites) /\ Len(parts') = n + 1 /\ parts'[n + 1] = nextPart
      /\ \A k \in 1..n : parts'[k] = parts[k]
  BY <1>1, <1>4
<1>6. Chain'
  <2>1. \A k \in 1..(n + 1) : parts'[k] = PartNo(k)
    BY <1>2, <1>4, <1>5 DEF Chain, PartNo
  <2>2. Len(parts') + Len(Pending(q')) = nextPart' /\ Pending(q') = <<>>
    BY <1>1, <1>2, <1>4, <1>5
  <2> QED
    BY <1>1, <1>5, <2>1, <2>2 DEF Chain, PartNo
<1>7. Plain'
  BY <1>0, <1>1 DEF Plain, Pcs
<1>8. CallInv'
  BY <1>0, <1>1, <1>2 DEF CallInv, DropWarningSound, WritePcs, ClosePcs
<1>9. QueueInv'
  BY <1>0, <1>1, <1>2, ValidKept DEF QueueInv
<1>10. LogInv'
  BY <1>0, <1>1, <1>2, <1>3, <1>4, <1>5, <1>6 DEF LogInv
<1>11. /\ srv' \in ServerType /\ srv'.object = srv.object /\ srv'.upload = srv.upload
       /\ StoredValid' /\ Stored(srv', i.part) # NoData
       /\ \A k \in 0..MaxWrites : Stored(srv, k) # NoData => Stored(srv', k) # NoData
  BY <1>0, <1>1, <1>3, SameGrows, StoreGrows
<1>12. StoreInv'
  <2>1. \A x \in Ready(q) : Stored(srv', x.part) # NoData
    BY <1>0, <1>2, <1>11, InputsTyped DEF StoreInv
  <2>2. \A k \in 1..n : parts[k] \in 0..MaxWrites
    BY <1>4, ElementOfSeq
  <2>3. \A k \in 1..Len(parts') : Stored(srv', parts'[k]) # NoData
    BY <1>0, <1>2, <1>3, <1>4, <1>5, <1>11, <2>2 DEF StoreInv
  <2> QED
    BY <1>1, <1>11, <2>1, <2>3 DEF StoreInv
<1>13. WireInv'
  <2>1. \A r : SoundRequest(r) => SoundRequest(r)'
    BY <1>1, <1>11, WireFrame
  <2> QED
    BY <1>0, <1>1, <2>1 DEF WireInv
<1>14. ObjectInv'
  BY <1>0, <1>1, <1>11 DEF ObjectInv, UploadSettled
<1> QED
  BY <1>7, <1>8, <1>9, <1>10, <1>12, <1>13, <1>14 DEF IInv

---------------------------------------------------------------------------
(* The end of a writer. *)

\* close or abort returns Ok.
LEMMA EndKeeps ==
  ASSUME IInv, arg = NoData, pc' = "idle", inner' = FALSE, ended' \in {"closed", "aborted"},
         state' = IF state = "Error" THEN state ELSE "Closed",
         cache' = cache \/ cache' = NoData,
         UNCHANGED <<options, q, uploadId, parts, nextPart, size, arg, acked, last, tried,
                     wire, temps, drops>>,
         srv' \in ServerType, srv'.stored = srv.stored, srv'.upload # "live",
         kind = "block" \/ ~uploadId => srv'.upload = "none",
         ended' = "closed" => srv'.object = acked,
         ended' = "aborted" => srv'.object = srv.object /\ ended = "open"
  PROVE  IInv'
<1> USE DEF options
<1>0. Plain /\ CallInv /\ QueueInv /\ LogInv /\ StoreInv /\ WireInv /\ ObjectInv
  BY DEF IInv
<1>1. ~Open' /\ ended' # "open"
  BY DEF Open
<1>2. Plain'
  BY <1>0 DEF Plain, Pcs
<1>3. CallInv'
  BY <1>0, <1>1 DEF CallInv, DropWarningSound, WritePcs, ClosePcs
<1>4. QueueInv'
  BY <1>0, ValidKept DEF QueueInv
<1>5. LogInv'
  BY <1>0, <1>1 DEF LogInv
<1>6. StoreInv' /\ \A n : Stored(srv', n) = Stored(srv, n)
  BY <1>0, <1>1, StoreSame
<1>7. WireInv'
  <2>1. \A r : SoundRequest(r) => SoundRequest(r)'
    BY <1>6, WireFrame
  <2> QED
    BY <1>0, <2>1 DEF WireInv
<1>8. ObjectInv'
  BY <1>0 DEF ObjectInv, UploadSettled
<1> QED
  BY <1>2, <1>3, <1>4, <1>5, <1>6, <1>7, <1>8 DEF IInv

\* close found a size that does not match: the object is there all the same.
LEMMA MismatchKeeps ==
  ASSUME IInv, pc \in ClosePcs, ReturnMismatch,
         cache' = cache \/ cache' = NoData,
         UNCHANGED <<options, q, uploadId, parts, nextPart, wire, temps, drops>>,
         srv' \in ServerType, srv'.stored = srv.stored, srv'.upload # "live",
         kind = "block" \/ ~uploadId => srv'.upload = "none",
         srv'.object = acked
  PROVE  IInv'
<1> USE DEF options
<1>0. Plain /\ CallInv /\ QueueInv /\ LogInv /\ StoreInv /\ WireInv /\ ObjectInv
  BY DEF IInv
<1>1. /\ pc' = "idle" /\ arg' = NoData /\ tried' = tried \cup {"close", "size"}
      /\ state' = "Error" /\ UNCHANGED <<inner, size, acked, last, ended>>
      /\ ended = "open" /\ ~Open'
  BY <1>0 DEF ReturnMismatch, Transition, CallInv, ClosePcs, Open
<1>2. Plain'
  BY <1>0, <1>1 DEF Plain, Pcs
<1>3. CallInv'
  BY <1>0, <1>1 DEF CallInv, DropWarningSound, WritePcs, ClosePcs
<1>4. QueueInv'
  BY <1>0, <1>1, ValidKept DEF QueueInv
<1>5. LogInv'
  BY <1>0, <1>1 DEF LogInv
<1>6. StoreInv' /\ \A n : Stored(srv', n) = Stored(srv, n)
  BY <1>0, <1>1, StoreSame
<1>7. WireInv'
  <2>1. \A r : SoundRequest(r) => SoundRequest(r)'
    BY <1>1, <1>6, WireFrame
  <2> QED
    BY <1>0, <2>1 DEF WireInv
<1>8. ObjectInv'
  BY <1>0, <1>1 DEF ObjectInv, UploadSettled
<1> QED
  BY <1>2, <1>3, <1>4, <1>5, <1>6, <1>7, <1>8 DEF IInv

\* The object published by write_once, and by complete.
LEMMA OnceSteps ==
  ASSUME IInv, NEW reported \in ReportedSizes, OnceOk(reported)
  PROVE  /\ IInv' /\ ended = "open" /\ ended' \in {"open", "closed"}
         /\ srv'.object = acked /\ UNCHANGED acked
<1>0. Plain /\ CallInv /\ QueueInv /\ LogInv /\ StoreInv /\ WireInv /\ ObjectInv
  BY DEF IInv
<1>1. /\ pc = "once" /\ acked = Once(cache) /\ ~uploadId /\ ended = "open" /\ arg = NoData
      /\ acked \in Seq(Buffers) /\ size = Len(acked) /\ srv \in ServerType
      /\ srv.upload = "none" /\ cache \in Buffers \cup {NoData}
  BY <1>0, OnceWhole DEF OnceOk, CallInv, WritePcs, LogInv, StoreInv, ObjectInv
<1>2. /\ srv' = [srv EXCEPT !.object = Once(cache)]
      /\ cache' = cache \/ cache' = NoData
      /\ IF CheckSize(reported) THEN ReturnEnded("closed") ELSE ReturnMismatch
      /\ UNCHANGED <<options, q, uploadId, parts, nextPart, wire, temps, drops>>
  BY DEF OnceOk, PutOnce, Once
<1>3. Once(cache) \in Seq(Buffers \cup {NoData})
  <2>1. CASE cache = NoData
    BY <2>1 DEF Once
  <2>2. CASE cache # NoData
    BY <1>1, <2>2 DEF Once
  <2> QED
    BY <2>1, <2>2
<1>4. /\ srv' \in ServerType /\ srv'.object = acked /\ srv'.stored = srv.stored
      /\ srv'.upload = "none"
  BY <1>1, <1>2, <1>3 DEF ServerType
<1>5. CASE ReturnEnded("closed")
  <2>1. /\ pc' = "idle" /\ inner' = FALSE /\ ended' = "closed"
        /\ state' = IF state = "Error" THEN state ELSE "Closed"
        /\ UNCHANGED <<size, arg, acked, last, tried>>
    BY <1>5 DEF ReturnEnded, Transition
  <2> QED
    BY <1>1, <1>2, <1>4, <2>1, EndKeeps
<1>6. CASE ReturnMismatch
  <2>1. UNCHANGED <<acked, ended>>
    BY <1>6 DEF ReturnMismatch
  <2> QED
    BY <1>1, <1>2, <1>4, <1>6, <2>1, MismatchKeeps DEF ClosePcs
<1> QED
  BY <1>2, <1>5, <1>6

LEMMA CompleteSteps ==
  ASSUME IInv, NEW reported \in ReportedSizes, CompleteOk(reported)
  PROVE  /\ IInv' /\ ended = "open" /\ ended' \in {"open", "closed"}
         /\ srv'.object = acked /\ UNCHANGED acked
<1> DEFINE o == [k \in 1..Len(Listed) |-> Stored(srv, Listed[k])]
<1>0. Plain /\ CallInv /\ QueueInv /\ LogInv /\ StoreInv /\ WireInv /\ ObjectInv
  BY DEF IInv
<1>1. /\ pc = "complete" /\ uploadId /\ ended = "open" /\ arg = NoData
      /\ acked \in Seq(Buffers) /\ size = Len(acked) /\ srv \in ServerType
  BY <1>0 DEF CompleteOk, CallInv, WritePcs, LogInv, StoreInv
<1>2. Full(Listed)
  BY <1>1, ListFull
<1>3. o = acked
  BY <1>0, <1>2, FullObject
<1>4. /\ srv' = [srv EXCEPT !.upload = IF kind = "block" THEN @ ELSE "completed", !.object = o]
      /\ IF CheckSize(reported) THEN ReturnEnded("closed") ELSE ReturnMismatch
      /\ UNCHANGED <<options, client, wire, temps, drops>>
  BY DEF CompleteOk, Complete
<1> HIDE DEF o
<1>5. acked \in Seq(Buffers \cup {NoData})
  <2>1. \A k \in 1..Len(acked) : acked[k] \in Buffers \cup {NoData}
    BY <1>1, ElementOfSeq
  <2>2. Len(acked) \in Nat /\ acked \in [1..Len(acked) -> Buffers \cup {NoData}]
    BY <1>1, <2>1
  <2> QED
    BY <2>2, FunctionIsSeq
<1>6. /\ srv' \in ServerType /\ srv'.object = acked /\ srv'.stored = srv.stored
      /\ srv'.upload = IF kind = "block" THEN srv.upload ELSE "completed"
  BY <1>1, <1>3, <1>4, <1>5 DEF ServerType
<1>7. srv'.upload # "live" /\ (kind = "block" \/ ~uploadId => srv'.upload = "none")
  BY <1>0, <1>1, <1>6 DEF ObjectInv
<1>8. CASE ReturnEnded("closed")
  <2>1. /\ pc' = "idle" /\ inner' = FALSE /\ ended' = "closed"
        /\ state' = IF state = "Error" THEN state ELSE "Closed"
        /\ UNCHANGED <<size, arg, acked, last, tried>>
    BY <1>8 DEF ReturnEnded, Transition
  <2> QED
    BY <1>1, <1>4, <1>6, <1>7, <2>1, EndKeeps DEF client
<1>9. CASE ReturnMismatch
  <2>1. UNCHANGED <<acked, ended>>
    BY <1>9 DEF ReturnMismatch
  <2> QED
    BY <1>1, <1>4, <1>6, <1>7, <1>9, <2>1, MismatchKeeps DEF ClosePcs, client
<1> QED
  BY <1>4, <1>8, <1>9

LEMMA AbortCallKeeps == ASSUME IInv, AbortCall PROVE IInv'
<1> USE DEF options, client, front, ghost
<1>0. Plain /\ CallInv /\ QueueInv /\ LogInv /\ StoreInv /\ WireInv /\ ObjectInv
  BY DEF IInv
<1>1. /\ pc = "idle" /\ inner /\ ended = "open" /\ arg = NoData /\ srv \in ServerType
      /\ UNCHANGED <<options, srv, temps, drops>>
  BY <1>0 DEF AbortCall, CallInv, WritePcs, StoreInv
<1>2. CASE ~uploadId
  <2>1. /\ pc' = "idle" /\ inner' = FALSE /\ ended' = "aborted"
        /\ state' = IF state = "Error" THEN state ELSE "Closed"
        /\ cache' = cache \/ cache' = NoData
        /\ UNCHANGED <<options, q, uploadId, parts, nextPart, size, arg, acked, last, tried,
                       wire, temps, drops>>
    BY <1>2 DEF AbortCall, ReturnEnded, Transition
  <2>2. srv'.upload = "none"
    BY <1>0, <1>1, <1>2 DEF ObjectInv
  <2> QED
    BY <1>1, <2>1, <2>2, EndKeeps
<1>3. CASE uploadId
  <2>1. /\ pc' = "abort" /\ q' = Clear(q) /\ cache' = NoData
        /\ wire' = wire \cup RunningRequests(q)
        /\ UNCHANGED <<kind, concurrent, uploadId, parts, nextPart, inner, size, state, arg,
                       acked, last, ended, tried>>
    BY <1>3 DEF AbortCall, GoTo
  <2>2. ~Open'
    BY <2>1 DEF Open
  <2>3. /\ SoundQueue(PartInputs, q') /\ q'.tasks = <<>> /\ TaskSet(q') = {}
        /\ Ready(q') = {}
    BY <1>0, <2>1, ClearSound DEF QueueInv
  <2>4. Plain'
    BY <1>0, <1>1, <2>1 DEF Plain, Pcs
  <2>5. CallInv'
    BY <1>0, <1>1, <1>3, <2>1, <2>2 DEF CallInv, DropWarningSound, WritePcs, ClosePcs
  <2>6. QueueInv'
    BY <2>1, <2>3 DEF QueueInv
  <2>7. LogInv'
    BY <1>0, <2>1, <2>2 DEF LogInv
  <2>8. StoreInv'
    BY <1>0, <1>1, <2>1, <2>2, <2>3, StoreFrame
  <2>9. WireInv'
    <3>1. \A r : SoundRequest(r) => SoundRequest(r)'
      BY <1>1, <2>1, WireFrame
    <3> QED
      BY <1>0, <2>1, <3>1, RunningSound DEF WireInv
  <2>10. ObjectInv'
    BY <1>0, <1>1, <2>1 DEF ObjectInv, UploadSettled
  <2> QED
    BY <2>4, <2>5, <2>6, <2>7, <2>8, <2>9, <2>10 DEF IInv
<1> QED
  BY <1>2, <1>3 DEF IInv, Plain

LEMMA AbortOkKeeps ==
  ASSUME IInv, AbortOk
  PROVE  IInv' /\ ended = "open" /\ UNCHANGED acked /\ srv'.object = srv.object
<1>0. Plain /\ CallInv /\ QueueInv /\ LogInv /\ StoreInv /\ WireInv /\ ObjectInv
  BY DEF IInv
<1>1. /\ pc = "abort" /\ uploadId /\ ended = "open" /\ arg = NoData /\ srv \in ServerType
      /\ kind = "block" => srv.upload = "none"
  BY <1>0 DEF AbortOk, CallInv, WritePcs, StoreInv, ObjectInv
<1>2. /\ pc' = "idle" /\ inner' = FALSE /\ ended' = "aborted"
      /\ state' = IF state = "Error" THEN state ELSE "Closed"
      /\ UNCHANGED <<size, arg, acked, last, tried>>
      /\ UNCHANGED <<options, q, uploadId, parts, cache, nextPart, wire, temps, drops>>
  BY DEF AbortOk, ReturnEnded, Transition, client
<1>3. /\ srv' \in ServerType /\ srv'.stored = srv.stored /\ srv'.object = srv.object
      /\ srv'.upload # "live" /\ (srv.upload = "none" => srv'.upload = "none")
  BY <1>1 DEF AbortOk, AbortUpload, ServerType
<1> QED
  BY <1>1, <1>2, <1>3, EndKeeps

---------------------------------------------------------------------------
(* What happens behind the caller's back. *)

\* A step of the executor or the service that adds parts: the calls see only
\* the queue, and every part that was stored still is.
LEMMA BehindKeeps ==
  ASSUME IInv, UNCHANGED <<options, uploadId, parts, cache, nextPart, front, pc, arg, ghost>>,
         temps' \in 0..MaxTemp, drops' \in 0..MaxDrops,
         SoundQueue(PartInputs, q'), ~IsConcurrent(concurrent) => q'.tasks = <<>>,
         q'.errored = q.errored, Pending(q') = Pending(q),
         \A t \in TaskSet(q') : Valid(t.input),
         \A r \in wire' : SoundRequest(r),
         NEW i \in PartInputs, Valid(i),
         \/ srv' = srv /\ Ready(q') \subseteq Ready(q)
         \/ srv' = StorePart(srv, i) /\ Ready(q') \subseteq Ready(q)
         \/ /\ srv' = StorePart(srv, i) /\ Accepts(srv)
            /\ Ready(q') \subseteq Ready(q) \cup {i}
  PROVE  IInv'
<1> USE DEF options, front, ghost
<1>0. Plain /\ CallInv /\ QueueInv /\ LogInv /\ StoreInv /\ WireInv /\ ObjectInv
  BY DEF IInv
<1>1. Open' = Open /\ Grows
  BY <1>0, SameGrows DEF Open
<1>2. Plain'
  BY <1>0 DEF Plain, Pcs
<1>3. CallInv'
  BY <1>0, <1>1 DEF CallInv, DropWarningSound, WritePcs, ClosePcs
<1>4. QueueInv'
  BY <1>0, ValidKept DEF QueueInv
<1>5. LogInv'
  BY <1>0, <1>1, LogFrame
<1>6. /\ srv' \in ServerType /\ srv'.object = srv.object /\ srv'.upload = srv.upload
      /\ StoredValid'
      /\ \A n \in 0..MaxWrites : Stored(srv, n) # NoData => Stored(srv', n) # NoData
      /\ (srv' = StorePart(srv, i) /\ Accepts(srv)) => Stored(srv', i.part) # NoData
  BY <1>0, <1>1, StoreGrows
<1>7. StoreInv'
  <2>1. ASSUME Open, NEW x \in Ready(q') PROVE Stored(srv', x.part) # NoData
    <3>1. CASE x \in Ready(q)
      BY <1>0, <1>6, <2>1, <3>1, InputsTyped DEF StoreInv
    <3>2. CASE x \notin Ready(q)
      BY <1>6, <3>2
    <3> QED
      BY <3>1, <3>2
  <2>2. parts \in Seq(0..MaxWrites)
    BY <1>0 DEF LogInv
  <2>3. \A k \in 1..Len(parts) : parts[k] \in 0..MaxWrites
    BY <2>2, ElementOfSeq
  <2> QED
    BY <1>0, <1>1, <1>6, <2>1, <2>3 DEF StoreInv
<1>8. WireInv'
  <2>1. \A r : SoundRequest(r) => SoundRequest(r)'
    BY <1>6, WireFrame
  <2> QED
    BY <2>1 DEF WireInv
<1>9. ObjectInv'
  BY <1>0, <1>6 DEF ObjectInv, UploadSettled
<1> QED
  BY <1>2, <1>3, <1>4, <1>5, <1>7, <1>8, <1>9 DEF IInv

LEMMA TaskResolveKeeps ==
  ASSUME IInv, TaskResolve
  PROVE  IInv' /\ UNCHANGED <<acked, ended>> /\ srv'.object = srv.object
<1>0. Plain /\ QueueInv /\ LogInv /\ StoreInv /\ WireInv
  BY DEF IInv
<1>1. PICK k \in Running(q) : TaskOk(k) \/ TaskTemp(k) \/ TaskPerm(k)
  BY DEF TaskResolve
<1>2. PICK o \in Outcomes : /\ q' = Resolve(q, k, o)
                            /\ TaskOk(k) => o = "ok"
                            /\ ~TaskOk(k) => o # "ok"
  <2>1. CASE TaskOk(k)
    BY <2>1 DEF TaskOk, Outcomes
  <2>2. CASE TaskTemp(k) /\ ~TaskOk(k)
    BY <2>2 DEF TaskTemp, Outcomes
  <2>3. CASE TaskPerm(k) /\ ~TaskOk(k)
    BY <2>3 DEF TaskPerm, Outcomes
  <2> QED
    BY <1>1, <2>1, <2>2, <2>3
<1> DEFINE i == q.tasks[k].input
<1>3. /\ SoundQueue(PartInputs, q') /\ q'.errored = q.errored /\ q.tasks # <<>>
      /\ Pending(q') = Pending(q) /\ q.tasks[k] \in TaskSet(q) /\ i \in PartInputs
      /\ TaskSet(q') \subseteq TaskSet(q) \cup {[input |-> i, st |-> o]}
      /\ Ready(q') \subseteq Ready(q) \cup (IF o = "ok" THEN {i} ELSE {})
  BY <1>0, <1>2, ResolveSound DEF QueueInv
<1>4. Valid(i)
  BY <1>0, <1>3 DEF QueueInv
<1>5. /\ UNCHANGED <<options, uploadId, parts, cache, nextPart, front, pc, arg, ghost>>
      /\ drops' = drops
  BY DEF TaskResolve
<1>6. temps' \in 0..MaxTemp /\ drops' \in 0..MaxDrops
  <2>1. temps' = temps \/ (temps < MaxTemp /\ temps' = temps + 1)
    BY <1>1 DEF TaskOk, TaskTemp, TaskPerm
  <2>2. temps \in 0..MaxTemp /\ drops \in 0..MaxDrops /\ MaxTemp \in Nat
    BY <1>0, WriterAssumption DEF Plain
  <2> QED
    BY <1>5, <2>1, <2>2
<1>7. \A t \in TaskSet(q') : Valid(t.input)
  BY <1>0, <1>3, <1>4 DEF QueueInv
<1>8. \A r \in wire' : SoundRequest(r)
  <2>1. SoundRequest([op |-> "part", input |-> i])
    BY <1>3, <1>4 DEF SoundRequest
  <2>2. wire' \subseteq wire \cup {[op |-> "part", input |-> i]}
    BY <1>1 DEF TaskOk, TaskTemp, TaskPerm
  <2> QED
    BY <1>0, <2>1, <2>2 DEF WireInv
<1>9. IsConcurrent(concurrent)
  BY <1>0, <1>3 DEF QueueInv
<1> HIDE DEF i
<1>10. \/ srv' = srv /\ Ready(q') \subseteq Ready(q)
       \/ /\ srv' = StorePart(srv, i) /\ Accepts(srv)
          /\ Ready(q') \subseteq Ready(q) \cup {i}
  BY <1>1, <1>2, <1>3 DEF TaskOk, TaskTemp, TaskPerm, i
<1>11. IInv'
  BY <1>3, <1>4, <1>5, <1>6, <1>7, <1>8, <1>9, <1>10, BehindKeeps
<1>12. srv'.object = srv.object
  BY <1>0, <1>3, <1>10, StorePartFacts DEF StoreInv
<1> QED
  BY <1>5, <1>11, <1>12 DEF ghost

\* What a late request does to the service: it stores a part again, or leaves
\* the parts alone; if it makes the object visible, that is the whole object,
\* and the upload was not purged.
LEMMA ArriveFacts ==
  ASSUME IInv, NEW r \in wire, NEW s, s = Arrive(srv, r)
  PROVE  \/ \E i \in PartInputs : Valid(i) /\ s = StorePart(srv, i)
         \/ /\ s \in ServerType /\ s.stored = srv.stored
            /\ srv.upload # "live" => s.upload = srv.upload
            /\ \/ s.object = srv.object
               \/ /\ s.object = acked /\ "close" \in tried
                  /\ uploadId => kind = "block" \/ srv.upload = "live"
<1>0. LogInv /\ StoreInv /\ SoundRequest(r) /\ srv \in ServerType /\ acked \in Seq(Buffers)
  BY DEF IInv, WireInv, StoreInv, LogInv
<1>1. CASE \E i \in PartInputs : r = [op |-> "part", input |-> i] /\ Valid(i)
  <2>1. PICK i \in PartInputs : r = [op |-> "part", input |-> i] /\ Valid(i)
    BY <1>1
  <2>2. s = StorePart(srv, i)
    BY <2>1 DEF Arrive
  <2> QED
    BY <2>1, <2>2
<1>a. acked \in Seq(Buffers \cup {NoData})
  <2>1. \A k \in 1..Len(acked) : acked[k] \in Buffers \cup {NoData}
    BY <1>0, ElementOfSeq
  <2>2. Len(acked) \in Nat /\ acked \in [1..Len(acked) -> Buffers \cup {NoData}]
    BY <1>0, <2>1
  <2> QED
    BY <2>2, FunctionIsSeq
<1>2. CASE \E l \in Seq(0..MaxWrites) :
             r = [op |-> "complete", list |-> l] /\ Full(l) /\ "close" \in tried
  <2>1. PICK l \in Seq(0..MaxWrites) :
             r = [op |-> "complete", list |-> l] /\ Full(l) /\ "close" \in tried
    BY <1>2
  <2>2. s = Complete(srv, l)
    BY <2>1 DEF Arrive
  <2>3. CASE ~CanComplete(srv, l)
    BY <1>0, <2>2, <2>3 DEF Complete
  <2>4. CASE CanComplete(srv, l)
    <3> DEFINE o == [k \in 1..Len(l) |-> Stored(srv, l[k])]
    <3>1. o = acked
      BY <1>0, <2>1, FullObject
    <3>2. s = [srv EXCEPT !.upload = IF kind = "block" THEN @ ELSE "completed", !.object = o]
      BY <2>2, <2>4 DEF Complete
    <3>3. kind = "block" \/ srv.upload = "live"
      BY <2>4 DEF CanComplete, Accepts
    <3> HIDE DEF o
    <3> QED
      BY <1>0, <1>a, <2>1, <3>1, <3>2, <3>3 DEF ServerType
  <2> QED
    BY <2>3, <2>4
<1>3. CASE r = [op |-> "abort"]
  <2>1. s = AbortUpload(srv)
    BY <1>3 DEF Arrive
  <2> QED
    BY <1>0, <2>1 DEF AbortUpload, ServerType
<1>4. CASE \E b \in Buffers \cup {NoData} :
             r = [op |-> "once", body |-> b] /\ acked = Once(b) /\ ~uploadId /\ "close" \in tried
  <2>1. PICK b \in Buffers \cup {NoData} :
             r = [op |-> "once", body |-> b] /\ acked = Once(b) /\ ~uploadId /\ "close" \in tried
    BY <1>4
  <2>2. s = PutOnce(srv, b)
    BY <2>1 DEF Arrive
  <2>3. s = [srv EXCEPT !.object = acked]
    BY <2>1, <2>2 DEF PutOnce, Once
  <2> QED
    BY <1>0, <1>a, <2>1, <2>3 DEF ServerType
<1>5. CASE r = [op |-> "initiate"]
  <2>1. s = [srv EXCEPT !.lost = @ + 1]
    BY <1>5 DEF Arrive
  <2> QED
    BY <1>0, <2>1 DEF ServerType
<1> QED
  BY <1>0, <1>1, <1>2, <1>3, <1>4, <1>5 DEF SoundRequest

LEMMA WireArriveKeeps ==
  ASSUME IInv, WireArrive
  PROVE  /\ IInv' /\ UNCHANGED <<acked, ended>>
         /\ srv'.object = srv.object \/ srv'.object = acked
         /\ (ended = "aborted" /\ uploadId /\ kind # "block") => srv'.object = srv.object
<1> USE DEF options, client, front, ghost
<1>0. Plain /\ CallInv /\ QueueInv /\ LogInv /\ StoreInv /\ WireInv /\ ObjectInv
  BY DEF IInv
<1>1. PICK r \in wire : srv' = Arrive(srv, r) /\ wire' = wire \ {r}
  BY DEF WireArrive
<1>2. UNCHANGED <<options, client, front, pc, arg, ghost, temps, drops>>
  BY DEF WireArrive
<1>3. CASE \E i \in PartInputs : Valid(i) /\ srv' = StorePart(srv, i)
  <2>1. PICK i \in PartInputs : Valid(i) /\ srv' = StorePart(srv, i)
    BY <1>3
  <2>2. /\ temps' \in 0..MaxTemp /\ drops' \in 0..MaxDrops
        /\ SoundQueue(PartInputs, q') /\ (~IsConcurrent(concurrent) => q'.tasks = <<>>)
        /\ \A t \in TaskSet(q') : Valid(t.input)
        /\ \A x \in wire' : SoundRequest(x)
    BY <1>0, <1>1, <1>2 DEF Plain, QueueInv, WireInv
  <2>3. IInv'
    BY <1>2, <2>1, <2>2, BehindKeeps
  <2>4. srv'.object = srv.object
    BY <1>0, <2>1, StorePartFacts DEF StoreInv
  <2> QED
    BY <1>2, <2>3, <2>4
<1>4. CASE /\ srv' \in ServerType /\ srv'.stored = srv.stored
           /\ srv.upload # "live" => srv'.upload = srv.upload
           /\ \/ srv'.object = srv.object
              \/ /\ srv'.object = acked /\ "close" \in tried
                 /\ uploadId => kind = "block" \/ srv.upload = "live"
  <2>1. Open' = Open
    BY <1>2 DEF Open
  <2>2. Plain'
    BY <1>0, <1>2 DEF Plain
  <2>3. CallInv'
    BY <1>0, <1>2, <2>1 DEF CallInv, DropWarningSound, WritePcs, ClosePcs
  <2>4. QueueInv'
    BY <1>0, <1>2, ValidKept DEF QueueInv
  <2>5. LogInv'
    BY <1>0, <1>2, <2>1, LogFrame
  <2>6. StoreInv' /\ \A n : Stored(srv', n) = Stored(srv, n)
    BY <1>0, <1>2, <1>4, <2>1, StoreSame
  <2>7. WireInv'
    <3>1. \A x : SoundRequest(x) => SoundRequest(x)'
      BY <1>2, <2>6, WireFrame
    <3> QED
      BY <1>0, <1>1, <3>1 DEF WireInv
  <2>8. ObjectInv'
    BY <1>0, <1>2, <1>4 DEF ObjectInv, UploadSettled
  <2>9. (ended = "aborted" /\ uploadId /\ kind # "block") => srv'.object = srv.object
    BY <1>0, <1>4 DEF ObjectInv, UploadSettled
  <2> QED
    BY <1>2, <1>4, <2>2, <2>3, <2>4, <2>5, <2>6, <2>7, <2>8, <2>9 DEF IInv
<1> QED
  BY <1>1, <1>3, <1>4, ArriveFacts

---------------------------------------------------------------------------
(* The invariant holds. *)

LEMMA InitIInv == Init => IInv
<1> SUFFICES ASSUME Init PROVE IInv
  OBVIOUS
<1> USE DEF NoData
<1>1. /\ SoundQueue(PartInputs, q) /\ Pending(q) = <<>> /\ Ready(q) = {} /\ TaskSet(q) = {}
      /\ q.tasks = <<>> /\ ~q.errored
  BY NewSound DEF Init
<1>2. /\ kind \in Kinds /\ concurrent \in Concurrents /\ uploadId = (kind = "position")
      /\ parts = <<>> /\ cache = 0 /\ nextPart = 0 /\ inner = TRUE /\ size = 0
      /\ state = "Open" /\ pc = "idle" /\ arg = 0 /\ wire = {} /\ acked = <<>> /\ last = 0
      /\ ended = "open" /\ tried = {} /\ temps = 0 /\ drops = 0
      /\ srv = [upload |-> IF kind = "position" THEN "live" ELSE "none", stored |-> <<>>,
                object |-> NoObject, lost |-> 0]
  BY DEF Init
<1>3. MaxWrites \in Nat /\ MaxTemp \in Nat /\ MaxDrops \in Nat
  BY WriterAssumption
<1>4. Plain
  BY <1>2, <1>3 DEF Plain, Pcs
<1>5. CallInv
  BY <1>2 DEF CallInv, DropWarningSound, WritePcs, ClosePcs
<1>6. QueueInv
  BY <1>1, <1>2 DEF QueueInv
<1>7. LogInv
  <2>1. Chain
    BY <1>1, <1>2 DEF Chain
  <2> QED
    BY <1>1, <1>2, <1>3, <2>1 DEF LogInv
<1>8. /\ srv \in ServerType /\ srv.object = NoObject /\ srv.stored = <<>>
      /\ srv.upload = IF kind = "position" THEN "live" ELSE "none"
  BY <1>2 DEF ServerType
<1>9. StoreInv
  <2>1. \A n \in 0..MaxWrites : Stored(srv, n) = 0
    BY <1>3, <1>8 DEF Stored
  <2> QED
    BY <1>1, <1>2, <1>8, <2>1 DEF StoreInv, StoredValid
<1>10. WireInv
  BY <1>2 DEF WireInv
<1>11. ObjectInv
  BY <1>2, <1>8 DEF ObjectInv, UploadSettled
<1> QED
  BY <1>4, <1>5, <1>6, <1>7, <1>9, <1>10, <1>11 DEF IInv

\* A step that changes no variable.
LEMMA StutterKeeps == ASSUME IInv, UNCHANGED vars PROVE IInv'
<1> USE DEF vars, options, client, front, ghost
<1>0. Plain /\ CallInv /\ QueueInv /\ LogInv /\ StoreInv /\ WireInv /\ ObjectInv
  BY DEF IInv
<1>1. Open' = Open
  BY DEF Open
<1>2. Plain'
  BY <1>0 DEF Plain
<1>3. CallInv'
  BY <1>0, <1>1 DEF CallInv, DropWarningSound
<1>4. QueueInv'
  BY <1>0, ValidKept DEF QueueInv
<1>5. LogInv'
  BY <1>0, <1>1, LogFrame
<1>6. StoreInv'
  BY <1>0, <1>1, StoreFrame
<1>7. WireInv'
  <2>1. \A x : SoundRequest(x) => SoundRequest(x)'
    BY WireFrame
  <2> QED
    BY <1>0, <2>1 DEF WireInv
<1>8. ObjectInv'
  BY <1>0 DEF ObjectInv, UploadSettled
<1> QED
  BY <1>2, <1>3, <1>4, <1>5, <1>6, <1>7, <1>8 DEF IInv

LEMMA NextIInv == ASSUME Orderly, IInv, [Next]_vars PROVE IInv'
<1>1. ASSUME NEW b \in Buffers, WriteCall(b) PROVE IInv'
  BY <1>1, WriteKeeps
<1>2. CASE CloseCall
  BY <1>2, CloseCallKeeps
<1>3. CASE AbortCall
  BY <1>3, AbortCallKeeps
<1>4. CASE RequestTemp \/ RequestPerm \/ DropCall
  BY <1>4, RequestsFail
<1>5. CASE InitiateOk
  BY <1>5, InitiateKeeps
<1>6. CASE Submit
  BY <1>6, SubmitKeeps
<1>7. CASE SubmitResume
  BY <1>7, SubmitResumeKeeps
<1>8. CASE InlineOk
  BY <1>8, InlineOkKeeps
<1>9. CASE Drain
  BY <1>9, DrainKeeps
<1>10. CASE FlushOk
  BY <1>10, FlushKeeps
<1>11. ASSUME NEW reported \in ReportedSizes, OnceOk(reported) \/ CompleteOk(reported)
       PROVE  IInv'
  BY <1>11, OnceSteps, CompleteSteps
<1>12. CASE AbortOk
  BY <1>12, AbortOkKeeps
<1>13. CASE TaskResolve
  BY <1>13, TaskResolveKeeps
<1>14. CASE WireArrive
  BY <1>14, WireArriveKeeps
<1>15. CASE CallRefused \/ UNCHANGED vars
  BY <1>15, StutterKeeps DEF CallRefused
<1> QED
  BY <1>1, <1>2, <1>3, <1>4, <1>5, <1>6, <1>7, <1>8, <1>9, <1>10, <1>11, <1>12, <1>13,
     <1>14, <1>15 DEF Next

\* The whole invariant, for an orderly caller: a failed close is closed again
\* or aborted, a failed abort aborted again, a size that does not match only
\* aborted (see MayCall).
THEOREM Inductive ==
  ASSUME Orderly
  PROVE  Spec => []IInv
<1>1. Init => IInv
  BY InitIInv
<1>2. IInv /\ [Next]_vars => IInv'
  BY NextIInv
<1> QED
  BY <1>1, <1>2, PTL DEF Spec

\* Every variable of the writers keeps its type.
THEOREM TypeCorrect ==
  ASSUME Orderly
  PROVE  Spec => []TypeOK
<1>1. IInv => TypeOK
  <2> SUFFICES ASSUME IInv PROVE TypeOK
    OBVIOUS
  <2>1. Plain /\ CallInv /\ QueueInv /\ LogInv /\ StoreInv
    BY DEF IInv
  <2>2. q \in QueueType(PartInputs)
    BY <2>1 DEF QueueInv, SoundQueue
  <2>3. arg \in Buffers \cup {NoData}
    BY <2>1 DEF CallInv
  <2>4. size \in Nat
    BY <2>1 DEF LogInv
  <2>5. /\ srv.upload \in {"none", "live", "completed", "aborted"}
        /\ srv.stored \in Seq(Buffers \cup {NoData})
        /\ srv.object = NoObject \/ srv.object \in Seq(Buffers \cup {NoData})
    BY <2>1 DEF StoreInv, ServerType
  <2> QED
    BY <2>1, <2>2, <2>3, <2>4, <2>5 DEF Plain, LogInv, TypeOK
<1> QED
  BY <1>1, Inductive, PTL

\* Whatever fails, times out, is dropped, repeated or arrives late, the object
\* is the acknowledged buffers in order or is not there, and after a close that
\* returned Ok it is there (multipart_write.rs:211-296, block_write.rs:170-236,
\* position_write.rs:125-185).
THEOREM Published ==
  ASSUME Orderly
  PROVE  Spec => []PublishedIsAcked
<1>1. IInv => PublishedIsAcked
  BY DEF IInv, ObjectInv, PublishedIsAcked
<1> QED
  BY <1>1, Inductive, PTL

\* complete gets every part once and in order, the count of parts that
\* MultipartWriter::close checks is never wrong, and write finds the buffer it
\* held back (multipart_write.rs:228,286; block_write.rs:183,228;
\* position_write.rs:134,162).
THEOREM PartsAreSound ==
  ASSUME Orderly
  PROVE  Spec => []PartsSound
<1>1. IInv => PartsSound
  <2> SUFFICES ASSUME IInv PROVE PartsSound
    OBVIOUS
  <2>0. Plain /\ CallInv /\ QueueInv /\ LogInv
    BY DEF IInv
  <2>1. PartsInOrder
    <3> SUFFICES ASSUME pc = "complete"
                 PROVE  parts = IF kind = "block" THEN acked ELSE [k \in 1..nextPart |-> k - 1]
      BY DEF PartsInOrder
    <3>1. Open /\ cache = NoData /\ ~q.errored /\ Pending(q) = <<>>
      BY <2>0, CallOpen DEF CallInv, QueueInv
    <3>2. /\ parts \in Seq(0..MaxWrites) /\ acked \in Seq(Buffers) /\ nextPart \in Nat
          /\ nextPart = Len(acked) /\ Len(parts) + Len(Pending(q)) = nextPart
          /\ \A k \in 1..Len(parts) : parts[k] = PartNo(k)
      BY <2>0, <3>1 DEF LogInv, Chain
    <3>3. Len(parts) = nextPart
      BY <3>1, <3>2
    <3>4. parts = [k \in 1..nextPart |-> PartNo(k)]
      BY <3>2, <3>3
    <3>5. acked = [k \in 1..nextPart |-> acked[k]]
      BY <3>2
    <3> QED
      BY <3>4, <3>5 DEF PartNo
  <2>2. MismatchUnreachable
    <3> SUFFICES ASSUME pc = "drain", ~q.errored, Pending(q) = <<>> PROVE Len(parts) = nextPart
      BY DEF MismatchUnreachable
    <3>1. Open
      BY <2>0, CallOpen
    <3>2. parts \in Seq(0..MaxWrites) /\ Len(parts) + Len(Pending(q)) = nextPart
      BY <2>0, <3>1 DEF LogInv, Chain
    <3> QED
      BY <3>2
  <2>3. PendingWriteExists
    BY <2>0 DEF CallInv, PendingWriteExists, WritePcs
  <2> QED
    BY <2>1, <2>2, <2>3 DEF PartsSound
<1> QED
  BY <1>1, Inductive, PTL

\* A writer that ended left no upload behind, and the state CompleteWriter
\* warns by when it is dropped agrees with that (complete.rs:258-340).
THEOREM Ends ==
  ASSUME Orderly
  PROVE  Spec => []EndsSettled
<1>1. IInv => EndsSettled
  BY DEF IInv, CallInv, ObjectInv, EndsSettled
<1> QED
  BY <1>1, Inductive, PTL

---------------------------------------------------------------------------
(* What a caller and a reader of the object see of a step. *)

\* A step acknowledges one buffer while the object is not there, makes the
\* whole object visible, ends the writer, or is not seen; after an abort of an
\* upload or a file the object stays as it is.
Seen ==
  /\ \/ UNCHANGED <<acked, ended>> /\ srv'.object = srv.object
     \/ /\ UNCHANGED ended /\ srv'.object = srv.object
        /\ ended = "open" /\ srv.object = NoObject
        /\ \E b \in Buffers : acked' = Append(acked, b)
     \/ /\ UNCHANGED <<acked, ended>> /\ srv'.object = acked
     \/ /\ UNCHANGED acked /\ ended = "open" /\ ended' = "closed" /\ srv'.object = acked
     \/ /\ UNCHANGED acked /\ ended = "open" /\ ended' = "aborted"
        /\ srv'.object = srv.object
  /\ (ended = "aborted" /\ uploadId /\ kind # "block") => srv'.object = srv.object

\* What the actions of a call under way do to what is seen.
LEMMA Unseen ==
  ASSUME IInv
  PROVE  /\ ReturnErr => UNCHANGED <<acked, ended>>
         /\ \A p : GoTo(p) => UNCHANGED <<acked, ended>>
         /\ \A i \in PartInputs : StorePart(srv, i).object = srv.object
         /\ (ended = "open" /\ "close" \notin tried) => srv.object = NoObject
<1>1. srv \in ServerType
  BY DEF IInv, StoreInv
<1>2. \A i \in PartInputs : StorePart(srv, i).object = srv.object
  BY <1>1, StorePartFacts
<1>3. (ended = "open" /\ "close" \notin tried) => srv.object = NoObject
  BY DEF IInv, ObjectInv
<1> QED
  BY <1>2, <1>3 DEF ReturnErr, GoTo, ghost

\* Submitting acknowledges the buffer of a write.
LEMMA SubmittedSeen ==
  ASSUME IInv, Submitted, srv'.object = srv.object,
         pc \in {"write", "writeWait", "writeInline", "close", "closeWait", "closeInline"}
  PROVE  Seen
<1>0. Plain /\ CallInv /\ ended = "open"
  BY DEF IInv, CallInv
<1>1. CASE pc \in WritePcs
  <2>1. Kind = "write" /\ arg \in Buffers /\ "close" \notin tried
    BY <1>0, <1>1, PcsSplit DEF CallInv
  <2>2. ReturnWritten(arg)
    BY <2>1 DEF Submitted
  <2> QED
    BY <1>0, <2>1, <2>2, Unseen DEF ReturnWritten, Seen
<1>2. CASE pc \in ClosePcs
  <2>1. Kind = "close"
    BY <1>0, <1>2, PcsSplit
  <2>2. GoTo("drain")
    BY <2>1 DEF Submitted
  <2> QED
    BY <1>0, <2>2, Unseen DEF Seen
<1> QED
  BY <1>1, <1>2 DEF WritePcs, ClosePcs

LEMMA StepSeen ==
  ASSUME Orderly, IInv, [Next]_vars
  PROVE  Seen
<1>0. Plain /\ CallInv /\ QueueInv /\ LogInv /\ StoreInv /\ ObjectInv
  BY DEF IInv
<1>1. ASSUME NEW b \in Buffers, WriteCall(b) PROVE Seen
  <2>1. ended = "open" /\ "close" \notin tried /\ srv' = srv
    BY <1>0, <1>1 DEF WriteCall, MayCall, CallInv
  <2>2. CASE WriteFirst(b)
    BY <2>1, <2>2, Unseen DEF WriteFirst, ReturnWritten, Seen
  <2>3. CASE WriteNext(b) \/ WriteRefused
    BY <2>1, <2>3 DEF WriteNext, WriteRefused, ghost, Seen
  <2> QED
    BY <1>1, <2>2, <2>3 DEF WriteCall
<1>2. CASE CloseCall
  BY <1>2 DEF CloseCall, ghost, Seen
<1>3. CASE AbortCall
  <2>1. ended = "open" /\ srv' = srv
    BY <1>0, <1>3 DEF AbortCall, CallInv
  <2> QED
    BY <1>3, <2>1 DEF AbortCall, ReturnEnded, GoTo, ghost, Seen
<1>4. CASE RequestTemp \/ RequestPerm \/ DropCall
  BY <1>4 DEF RequestTemp, RequestPerm, DropCall, ReturnErr, Dropped, Seen
<1>5. CASE InitiateOk
  <2>1. srv'.object = srv.object
    BY <1>0, <1>5 DEF InitiateOk, Initiate, StoreInv, ServerType
  <2> QED
    BY <1>5, <2>1 DEF InitiateOk, GoTo, ghost, Seen
<1>6. CASE Submit
  <2>1. srv' = srv /\ pc \in {"write", "close"}
    BY <1>6 DEF Submit
  <2>2. CASE Submitted
    BY <2>1, <2>2, SubmittedSeen
  <2>3. CASE ReturnErr \/ GoTo(Inline(pc)) \/ GoTo(Wait(pc))
    BY <2>1, <2>3, Unseen DEF Seen
  <2> QED
    BY <1>6, <2>2, <2>3 DEF Submit
<1>7. CASE SubmitResume
  <2>1. srv' = srv /\ pc \in {"writeWait", "closeWait"}
    BY <1>7 DEF SubmitResume
  <2>2. CASE Submitted
    BY <2>1, <2>2, SubmittedSeen
  <2>3. CASE FrontFailed
    BY <2>1, <2>3, Unseen DEF FrontFailed, Seen
  <2> QED
    BY <1>7, <2>2, <2>3 DEF SubmitResume
<1>8. CASE InlineOk
  <2>1. /\ pc \in {"writeInline", "closeInline"} /\ Submitted
        /\ srv' = StorePart(srv, PartInput(PartId, cache))
    BY <1>8 DEF InlineOk
  <2>2. Open /\ cache # NoData
    BY <1>0, <2>1, CallOpen DEF CallInv, WritePcs
  <2>3. PartInput(PartId, cache) \in PartInputs
    BY <1>0, <2>2, HeldPart
  <2>4. srv'.object = srv.object
    BY <2>1, <2>3, Unseen
  <2> QED
    BY <2>1, <2>4, SubmittedSeen
<1>9. CASE Drain
  <2>1. srv' = srv
    BY <1>9 DEF Drain
  <2>2. UNCHANGED <<acked, ended>>
    BY <1>9, Unseen DEF Drain, DrainDone, FrontFailed
  <2> QED
    BY <2>1, <2>2 DEF Seen
<1>10. CASE FlushOk
  <2>1. pc = "flush" /\ GoTo("complete") /\ srv' = StorePart(srv, PartInput(PartId, cache))
    BY <1>10 DEF FlushOk
  <2>2. Open /\ cache # NoData
    BY <1>0, <2>1, CallOpen DEF CallInv
  <2>3. PartInput(PartId, cache) \in PartInputs
    BY <1>0, <2>2, HeldPart
  <2>4. srv'.object = srv.object
    BY <2>1, <2>3, Unseen
  <2> QED
    BY <2>1, <2>4, Unseen DEF Seen
<1>11. ASSUME NEW reported \in ReportedSizes, OnceOk(reported) \/ CompleteOk(reported)
       PROVE  Seen
  <2>1. /\ ended = "open" /\ ended' \in {"open", "closed"}
        /\ srv'.object = acked /\ UNCHANGED acked
    BY <1>11, OnceSteps, CompleteSteps
  <2> QED
    BY <2>1 DEF Seen
<1>12. CASE AbortOk
  <2>1. ended = "open" /\ UNCHANGED acked /\ srv'.object = srv.object
    BY <1>12, AbortOkKeeps
  <2>2. ended' = "aborted"
    BY <1>12 DEF AbortOk, ReturnEnded
  <2> QED
    BY <2>1, <2>2 DEF Seen
<1>13. CASE TaskResolve
  <2>1. UNCHANGED <<acked, ended>> /\ srv'.object = srv.object
    BY <1>13, TaskResolveKeeps
  <2> QED
    BY <2>1 DEF Seen
<1>14. CASE WireArrive
  <2>1. /\ UNCHANGED <<acked, ended>>
        /\ srv'.object = srv.object \/ srv'.object = acked
        /\ (ended = "aborted" /\ uploadId /\ kind # "block") => srv'.object = srv.object
    BY <1>14, WireArriveKeeps
  <2> QED
    BY <2>1 DEF Seen
<1>15. CASE CallRefused \/ UNCHANGED vars
  BY <1>15 DEF CallRefused, vars, ghost, Seen
<1> QED
  BY <1>1, <1>2, <1>3, <1>4, <1>5, <1>6, <1>7, <1>8, <1>9, <1>10, <1>11, <1>12, <1>13,
     <1>14, <1>15 DEF Next

\* After an abort of an upload or a file returned Ok, no request that arrives
\* late changes the object: complete_part finds the upload purged
\* (multipart_write.rs:298-315, position_write.rs:187-200).
THEOREM AbortFinal ==
  ASSUME Orderly
  PROVE  Spec => AbortIsFinal
<1>1. IInv /\ [Next]_vars
        => [(ended = "aborted" /\ uploadId /\ kind # "block")
              => srv'.object = srv.object]_vars
  BY StepSeen DEF Seen
<1> QED
  BY <1>1, Inductive, PTL DEF Spec, AbortIsFinal

\* The writers behind CompleteWriter implement the atomic object: the log of
\* acknowledged buffers becomes visible at most once and as a whole, and close
\* returns Ok only then (complete.rs:258-340 over raw/oio/write).
THEOREM Refinement ==
  ASSUME Orderly
  PROVE  Spec => ImplementsAtomicObject
<1>1. Init => Object!ObjInit
  BY DEF Init, Object!ObjInit
<1>2. IInv /\ [Next]_vars => [Object!ObjNext]_(Object!objVars)
  <2> SUFFICES ASSUME IInv, [Next]_vars PROVE [Object!ObjNext]_(Object!objVars)
    OBVIOUS
  <2>1. Seen
    BY StepSeen
  <2>2. srv.object = NoObject \/ srv.object = acked
    BY DEF IInv, ObjectInv
  <2> QED
    BY <2>1, <2>2
    DEF Seen, Object!ObjNext, Object!Acknowledge, Object!Publish, Object!Close,
        Object!GiveUp, Object!objVars
<1> QED
  BY <1>1, <1>2, Inductive, PTL DEF Spec, ImplementsAtomicObject, Object!ObjSpec
=============================================================================
