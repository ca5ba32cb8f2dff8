--------------------------- MODULE CopierProofs ----------------------------
(***************************************************************************)
(* Copying inside a service: for any size, concurrency, number of          *)
(* failures, retries, drops and aborts, what the copier says of the end    *)
(* of a copy is true, and a copy in parts is completed with every part,    *)
(* once and in order.                                                      *)
(*                                                                         *)
(* The argument.  The parts collected and the ones pending in the queue    *)
(* are never more than the ones scheduled, and as long as they are as many *)
(* they are the numbers from 0 on (LogInv); only an abort or a permanent   *)
(* failure loses one, and then the count stays short for ever.  The loop   *)
(* over tasks.next() finds the queue empty only after every part was       *)
(* scheduled (FillInv): fill_tasks stops earlier only with a task in hand. *)
(* So a count that is right means the whole list.                          *)
(***************************************************************************)
EXTENDS Copier, TaskQueueTheorems

Numbers == 0..(n - 1)

ServerType ==
  [upload : {"none", "live", "done", "aborted"},
   stored : SUBSET Numbers,
   dest   : {"none", "copied"},
   orphan : {"none", "live"}]

\* The plain variables.
Plain ==
  /\ kind \in Kinds /\ concurrent \in Concurrents /\ n \in Sizes
  /\ layered \in BOOLEAN /\ sizeKnown \in BOOLEAN /\ upload \in BOOLEAN
  /\ completed \in BOOLEAN /\ fut \in BOOLEAN /\ wrapper \in BOOLEAN
  /\ errored \in BOOLEAN /\ aborting \in BOOLEAN /\ abortFailed \in BOOLEAN
  /\ mismatch \in BOOLEAN
  /\ attempt \in 0..MaxTimes
  /\ front \in {"here", "moved", "closed"}
  /\ op \in {"none", "next", "abort"}
  /\ reported \in {"none", "some", "done", "aborted", "err"}
  /\ temps \in 0..MaxTemp /\ drops \in 0..MaxDrops

\* Where next() of the copiers that work in parts may be.
PartPcs == {"size", "stat", "initiate", "fill", "inline", "take", "complete"}

\* Which call is under way, where it is, and what must have happened before.
CallInv ==
  /\ pc \in {"idle", "start", "once", "abort"} \cup PartPcs
  /\ pc = "idle" <=> op = "none"
  /\ pc \in PartPcs => Many
  /\ pc \in PartPcs \cup {"once"} => op = "next"
  /\ pc = "abort" => op = "abort" /\ Many
  /\ op = "next" => ~errored
  /\ op = "abort" => aborting
  /\ reported = "aborted" => pc = "idle" \/ front = "moved"

QueueInv ==
  /\ SoundQueue(Numbers, q)
  /\ ~IsConcurrent(concurrent) => q.tasks = <<>>
  /\ q.errored => errored

\* fill_tasks leaves with every part scheduled or with a part in hand.
FillInv ==
  /\ scheduled \in 0..concurrent
  /\ pc \in {"size", "stat", "initiate"} => scheduled = 0
  /\ pc = "inline" => nextPart < n /\ scheduled < concurrent /\ ~IsConcurrent(concurrent)
  /\ pc = "fill" => scheduled = 0 \/ q.tasks # <<>>
  /\ pc = "take" => nextPart = n \/ Pending(q) # <<>>

\* The parts collected, then the ones pending, are 0, 1, 2, ...
Chain ==
  /\ \A k \in 1..Len(parts) : parts[k] = k - 1
  /\ \A j \in 1..Len(Pending(q)) : Pending(q)[j] = Len(parts) + j - 1

LogInv ==
  /\ parts \in Seq(Numbers) /\ nextPart \in 0..n
  /\ progress = Len(parts)
  /\ Len(parts) + Len(Pending(q)) <= nextPart
  /\ Len(parts) + Len(Pending(q)) = nextPart => Chain
  /\ (~aborting /\ ~q.errored) => Len(parts) + Len(Pending(q)) = nextPart
  /\ pc = "complete" => parts = AllParts
  /\ mismatch => aborting

\* The end of the copy, as the copier and the user know it.
EndInv ==
  /\ srv \in ServerType
  /\ (/\ \/ reported = "done" /\ ~errored /\ front # "moved"
         \/ completed \/ front = "closed"
      /\ ~aborting /\ (Many \/ (temps = 0 /\ drops = 0)))
       => srv.dest = "copied"
  /\ (Many /\ reported = "done" /\ ~errored /\ front # "moved") => completed
  /\ (Many /\ front = "closed") => completed
  /\ (Many /\ completed /\ srv.upload = "live") => abortFailed
  /\ (Many /\ completed) => pc \in {"idle", "start", "abort"}
  /\ (Many /\ completed /\ n > Threshold /\ ~aborting) => Len(parts) = n
  /\ (Many /\ pc = "once") => n <= Threshold /\ ~upload
  /\ (~Many /\ ~fut /\ ~completed /\ ~aborting /\ temps = 0 /\ drops = 0)
       => pc = "once" \/ errored
  /\ ~Many => srv.upload = "none"
  /\ srv.upload = "live" => upload \/ pc = "abort" \/ abortFailed
  /\ (reported = "aborted" /\ front # "moved" /\ ~abortFailed) => srv.upload # "live"

IInv == Plain /\ CallInv /\ QueueInv /\ FillInv /\ LogInv /\ EndInv

---------------------------------------------------------------------------
(* The service and the queue. *)

\* A request changes the service as far as this: the destination, once copied,
\* stays so; only initiate_copy starts an upload whose id is known.
LEMMA EffectFacts ==
  ASSUME srv \in ServerType, NEW r, r = "complete" => parts = AllParts, NEW s,
         s \in {srv, Effect(srv, r), LateEffect(srv, r)}
  PROVE  /\ s \in ServerType
         /\ srv.dest = "copied" => s.dest = "copied"
         /\ s.upload = "live" => \/ srv.upload = "live" /\ (r = "abort" => s = srv)
                                 \/ r = "initiate" /\ s = Effect(srv, r)
         /\ r \notin {"initiate", "complete", "abort"} => s.upload = srv.upload
         /\ (s = Effect(srv, r) /\ (r = "once" \/ (r = "complete" /\ Completable(srv, parts))))
              => s.dest = "copied"
<1>1. CASE s = srv /\ ~(s = Effect(srv, r))
  BY <1>1
<1>2. CASE s = Effect(srv, r)
  <2>1. CASE r = "once"
    BY <1>2, <2>1 DEF Effect, ServerType
  <2>2. CASE r = "initiate"
    BY <1>2, <2>2 DEF Effect, ServerType
  <2>3. CASE r = "complete"
    <3>1. s = Commit(srv, parts) /\ parts = AllParts
      BY <1>2, <2>3 DEF Effect
    <3>2. \/ s = srv /\ ~Completable(srv, parts)
          \/ s = [srv EXCEPT !.upload = "done", !.dest = "copied"]
      BY <3>1 DEF Commit
    <3> QED
      BY <2>3, <3>2 DEF ServerType
  <2>4. CASE r = "abort"
    <3>1. s = [srv EXCEPT !.upload = IF srv.upload = "done" THEN "done" ELSE "aborted"]
      BY <1>2, <2>4 DEF Effect, ServerType
    <3> QED
      BY <2>4, <3>1 DEF ServerType
  <2>5. CASE r \notin {"once", "initiate", "complete", "abort"}
    <3>1. s = srv
      BY <1>2, <2>5 DEF Effect
    <3> QED
      BY <2>5, <3>1
  <2> QED
    BY <2>1, <2>2, <2>3, <2>4, <2>5
<1>3. CASE r = "initiate" /\ s = [srv EXCEPT !.orphan = "live"] /\ ~(s = Effect(srv, r))
  BY <1>3 DEF ServerType
<1> QED
  BY <1>1, <1>2, <1>3 DEF LateEffect

\* A step that leaves the parts and the queue alone.
LEMMA LogSame ==
  ASSUME LogInv, UNCHANGED <<n, parts, nextPart, q, progress>>, aborting => aborting',
         pc' = "complete" => parts = AllParts, mismatch' => aborting'
  PROVE  LogInv'
BY DEF LogInv, Chain, Numbers, AllParts

LEMMA QueueSame ==
  ASSUME QueueInv, UNCHANGED <<n, concurrent, q>>, errored => errored'
  PROVE  QueueInv'
BY DEF QueueInv, Numbers

\* Sizes.
LEMMA Sizing ==
  ASSUME Plain
  PROVE  /\ n \in Nat /\ n >= 1 /\ concurrent \in Nat /\ concurrent >= 1
         /\ MaxTimes \in Nat /\ MaxTemp \in Nat /\ MaxDrops \in Nat
         /\ temps \in Nat /\ drops \in Nat /\ attempt \in Nat /\ Threshold \in Nat
BY CopierAssumption DEF Plain

---------------------------------------------------------------------------
(* The user's calls. *)

LEMMA UserNextKeeps ==
  ASSUME IInv, NEW how \in {"here", "moved"}, UserNext(how)
  PROVE  IInv'
<1> USE DEF options, copier, userRest, bounds
<1>0. Plain /\ CallInv /\ QueueInv /\ FillInv /\ LogInv /\ EndInv
  BY DEF IInv
<1>1. /\ pc = "idle" /\ pc' = "start" /\ op' = "next" /\ attempt' = 0 /\ ~errored
      /\ front' = how /\ reported' = "none"
      /\ UNCHANGED <<options, copier, errored, progress, mismatch, srv, abortFailed,
                     wrapper, aborting, bounds>>
  BY DEF UserNext
<1>2. Plain'
  BY <1>0, <1>1, Sizing DEF Plain
<1>3. CallInv'
  BY <1>0, <1>1 DEF CallInv, PartPcs, Many
<1>4. QueueInv'
  BY <1>0, <1>1, QueueSame
<1>5. FillInv'
  BY <1>0, <1>1 DEF FillInv
<1>6. LogInv'
  BY <1>0, <1>1, LogSame DEF LogInv
<1>7. EndInv'
  BY <1>0, <1>1 DEF EndInv, Many, ServerType, Numbers
<1> QED
  BY <1>2, <1>3, <1>4, <1>5, <1>6, <1>7 DEF IInv

LEMMA UserAbortKeeps == ASSUME IInv, UserAbort PROVE IInv'
<1> USE DEF options, copier, userRest, bounds
<1>0. Plain /\ CallInv /\ QueueInv /\ FillInv /\ LogInv /\ EndInv
  BY DEF IInv
<1>1. /\ pc = "idle" /\ pc' = "start" /\ op' = "abort" /\ attempt' = 0
      /\ aborting' = TRUE /\ reported' = "none"
      /\ UNCHANGED <<options, copier, errored, progress, mismatch, srv, abortFailed,
                     wrapper, front, bounds>>
  BY DEF UserAbort
<1>2. Plain'
  BY <1>0, <1>1, Sizing DEF Plain
<1>3. CallInv'
  BY <1>0, <1>1 DEF CallInv, PartPcs, Many
<1>4. QueueInv'
  BY <1>0, <1>1, QueueSame
<1>5. FillInv'
  BY <1>0, <1>1 DEF FillInv
<1>6. LogInv'
  BY <1>0, <1>1, LogSame DEF LogInv
<1>7. EndInv'
  BY <1>0, <1>1 DEF EndInv, Many, ServerType, Numbers
<1> QED
  BY <1>2, <1>3, <1>4, <1>5, <1>6, <1>7 DEF IInv

\* The user is told of something, and nothing else happens.
LEMMA ToldKeeps ==
  ASSUME IInv, reported' \in {"done", "aborted", "err"},
         \/ front = "moved" \/ reported' = "err"
         \/ pc = "idle" /\ (front = "closed" \/ (errored' /\ reported' = "done")),
         errored' = errored \/ (errored' = TRUE /\ pc = "idle"),
         UNCHANGED <<options, copier, wrapper, attempt, front, progress, aborting, mismatch,
                     op, pc, srv, abortFailed, bounds>>
  PROVE  IInv'
<1> USE DEF options, copier, bounds
<1>0. Plain /\ CallInv /\ QueueInv /\ FillInv /\ LogInv /\ EndInv
  BY DEF IInv
<1>1. errored' \in BOOLEAN
  BY <1>0 DEF Plain
<1>2. Plain'
  BY <1>0, <1>1 DEF Plain
<1>3. CallInv'
  BY <1>0 DEF CallInv, PartPcs, Many
<1>4. QueueInv'
  BY <1>0, QueueSame
<1>5. FillInv'
  BY <1>0 DEF FillInv
<1>6. LogInv'
  BY <1>0, LogSame DEF LogInv
<1>7. EndInv'
  BY <1>0 DEF EndInv, Many, ServerType, Numbers
<1> QED
  BY <1>2, <1>3, <1>4, <1>5, <1>6, <1>7 DEF IInv

LEMMA UserTold == ASSUME IInv, UserOver \/ UserAfterError \/ UserBadState PROVE IInv'
<1>1. CASE UserOver
  BY <1>1, ToldKeeps DEF UserOver, userRest
<1>2. CASE UserAfterError
  BY <1>2, ToldKeeps DEF UserAfterError, userRest
<1>3. CASE UserBadState
  BY <1>3, ToldKeeps DEF UserBadState
<1> QED
  BY <1>1, <1>2, <1>3

LEMMA UserDropsKeeps == ASSUME IInv, UserDrops PROVE IInv'
<1> USE DEF options, copier, user
<1>0. Plain /\ CallInv /\ QueueInv /\ FillInv /\ LogInv /\ EndInv
  BY DEF IInv
<1>1. /\ Awaiting /\ pc # "idle" /\ pc' = "idle" /\ op' = "none" /\ attempt' = 0
      /\ drops < MaxDrops /\ drops' = drops + 1 /\ wrapper' = ~layered
      /\ srv' \in {srv, LateEffect(srv, pc)} /\ abortFailed' = (abortFailed \/ op = "abort")
      /\ UNCHANGED <<options, copier, user, temps>>
  BY DEF UserDrops, Idle, Awaiting
<1>2. Plain'
  BY <1>0, <1>1, Sizing DEF Plain
<1>3. CallInv'
  BY <1>0, <1>1 DEF CallInv, PartPcs, Many
<1>4. QueueInv'
  BY <1>0, <1>1, QueueSame
<1>5. FillInv'
  BY <1>0, <1>1 DEF FillInv
<1>6. LogInv'
  BY <1>0, <1>1, LogSame DEF LogInv
<1>7. EndInv'
  <2>1. /\ srv' \in ServerType /\ (srv.dest = "copied" => srv'.dest = "copied")
        /\ srv'.upload = "live" => \/ srv.upload = "live"
                                   \/ pc = "initiate" /\ srv' = Effect(srv, pc)
        /\ pc \notin {"initiate", "complete", "abort"} => srv'.upload = srv.upload
    BY <1>0, <1>1, EffectFacts DEF EndInv, LogInv
  <2>2. pc = "initiate" => srv'.upload = srv.upload
    BY <1>0, <1>1 DEF LateEffect, EndInv, ServerType
  <2>3. drops' # 0
    BY <1>0, <1>1, Sizing
  <2>4. ServerType' = ServerType
    BY <1>1 DEF ServerType, Numbers
  <2>5. pc = "abort" => abortFailed'
    BY <1>0, <1>1 DEF CallInv
  <2> QED
    BY <1>0, <1>1, <2>1, <2>2, <2>3, <2>4, <2>5 DEF EndInv, CallInv, PartPcs, Many
<1> QED
  BY <1>2, <1>3, <1>4, <1>5, <1>6, <1>7 DEF IInv

---------------------------------------------------------------------------
(* How a call goes on and how it ends. *)

\* A step of next() that only moves on.
LEMMA MoveKeeps ==
  ASSUME IInv, op = "next", Many, ~completed,
         pc' \in PartPcs \cup {"once"}, FillInv',
         pc' = "once" => n <= Threshold /\ ~upload, pc' = "complete" => parts = AllParts,
         UNCHANGED <<options, sizeKnown, upload, parts, nextPart, completed, fut, q, wrapper,
                     attempt, user, op, srv, abortFailed, bounds>>,
         pc # "abort"
  PROVE  IInv'
<1> USE DEF options, user, bounds
<1>0. Plain /\ CallInv /\ QueueInv /\ FillInv /\ LogInv /\ EndInv
  BY DEF IInv
<1>2. Plain'
  BY <1>0 DEF Plain
<1>3. CallInv'
  BY <1>0 DEF CallInv, PartPcs, Many
<1>4. QueueInv'
  BY <1>0, QueueSame
<1>6. LogInv'
  BY <1>0, LogSame DEF LogInv
<1>7. EndInv'
  BY <1>0 DEF EndInv, Many, ServerType, Numbers
<1> QED
  BY <1>2, <1>3, <1>4, <1>6, <1>7 DEF IInv

\* What a failed call of the implementation means to the caller.
LEMMA FailedFacts ==
  ASSUME Plain, NEW o, Failed(o)
  PROVE  \/ /\ o = "temp" /\ pc' = "start" /\ attempt' \in 0..MaxTimes
            /\ UNCHANGED <<op, user>>
         \/ /\ pc' = "idle" /\ op' = "none" /\ attempt' = 0
            /\ front' \in {"here", "moved", "closed"} /\ reported' = "err"
            /\ front' = "closed" => front = "closed"
            /\ errored' = (errored \/ op = "next")
            /\ UNCHANGED <<progress, aborting, mismatch>>
<1>1. CASE layered /\ o = "temp" /\ attempt < MaxTimes
  <2>1. attempt' = attempt + 1 /\ pc' = "start" /\ UNCHANGED <<op, user>>
    BY <1>1 DEF Failed
  <2>2. attempt' \in 0..MaxTimes
    BY <1>1, <2>1, Sizing DEF Plain
  <2> QED
    BY <1>1, <2>1, <2>2
<1>2. CASE ~(layered /\ o = "temp" /\ attempt < MaxTimes)
  BY <1>2 DEF Failed, Error, Idle, Unmove, Plain
<1> QED
  BY <1>1, <1>2

\* A request of the call under way fails; it may take effect all the same.
LEMMA FailKeeps ==
  ASSUME IInv, pc # "idle", pc # "start", NEW o, Failed(o), UNCHANGED <<options, copier>>,
         wrapper' = wrapper, drops' = drops, srv' \in {srv, LateEffect(srv, pc)},
         abortFailed' = (abortFailed \/ pc = "abort"),
         temps' \in 0..MaxTemp, temps' >= temps, o = "temp" => temps' # 0
  PROVE  IInv'
<1> USE DEF options, copier, user
<1>0. Plain /\ CallInv /\ QueueInv /\ FillInv /\ LogInv /\ EndInv
  BY DEF IInv
<1>1. op \in {"next", "abort"} /\ (op = "next" => ~errored)
  BY <1>0 DEF CallInv, PartPcs, Plain
<1>2. \/ /\ o = "temp" /\ pc' = "start" /\ attempt' \in 0..MaxTimes
         /\ UNCHANGED <<op, user>>
      \/ /\ pc' = "idle" /\ op' = "none" /\ attempt' = 0
         /\ front' \in {"here", "moved", "closed"} /\ reported' = "err"
         /\ front' = "closed" => front = "closed"
         /\ errored' = (errored \/ op = "next")
         /\ UNCHANGED <<progress, aborting, mismatch>>
  BY <1>0, FailedFacts
<1>a. /\ errored' \in BOOLEAN /\ (errored => errored')
      /\ (pc' = "idle" /\ op = "next") => errored'
      /\ abortFailed' \in BOOLEAN /\ (abortFailed => abortFailed')
      /\ pc = "abort" => abortFailed'
  BY <1>0, <1>2 DEF Plain
<1>3. Plain'
  <2>2. 0 \in 0..MaxTimes
    BY CopierAssumption
  <2> QED
    BY <1>0, <1>2, <1>a, <2>2 DEF Plain
<1>4. CallInv'
  BY <1>0, <1>1, <1>2 DEF CallInv, PartPcs, Many
<1>5. QueueInv'
  BY <1>0, <1>a, QueueSame
<1>6. FillInv'
  BY <1>0, <1>2 DEF FillInv
<1>7. LogInv'
  BY <1>0, <1>2, LogSame DEF LogInv
<1>8. EndInv'
  <2>1. /\ srv' \in ServerType /\ (srv.dest = "copied" => srv'.dest = "copied")
        /\ srv'.upload = "live" => \/ srv.upload = "live"
                                   \/ pc = "initiate" /\ srv' = Effect(srv, pc)
        /\ pc \notin {"initiate", "complete", "abort"} => srv'.upload = srv.upload
    BY <1>0, EffectFacts DEF EndInv, LogInv
  <2>2. pc = "initiate" => srv'.upload = srv.upload
    BY <1>0 DEF LateEffect, EndInv, ServerType
  <2>3. ServerType' = ServerType
    BY DEF ServerType, Numbers
  <2>4. temps' = 0 => temps = 0 /\ o # "temp"
    BY <1>0, Sizing
  <2>5. Many' = Many /\ (~Many => pc = "once" /\ op = "next")
    BY <1>0 DEF CallInv, PartPcs, Many
  <2>6. /\ pc' \in {"start", "idle"} /\ UNCHANGED <<completed, fut, upload, aborting>>
        /\ reported' # "err" => /\ reported' = reported /\ front' = front
                                /\ errored' = errored
        /\ front' = "closed" => front = "closed"
    BY <1>1, <1>2
  <2>7. ~Many /\ temps' = 0 => errored'
    BY <1>2, <1>a, <2>4, <2>5
  <2> QED
    BY <1>0, <1>a, <2>1, <2>2, <2>3, <2>4, <2>5, <2>6, <2>7 DEF EndInv
<1> QED
  BY <1>3, <1>4, <1>5, <1>6, <1>7, <1>8 DEF IInv

\* What CountTemp leaves of the bound.
LEMMA Counted ==
  ASSUME Plain, NEW o, CountTemp(o)
  PROVE  temps' \in 0..MaxTemp /\ temps' >= temps /\ (o = "temp" => temps' # 0)
<1>1. temps' = temps + 1 \/ (temps' = temps /\ o # "temp")
  BY DEF CountTemp
<1>2. temps' <= MaxTemp
  BY DEF CountTemp
<1> QED
  BY <1>1, <1>2, Sizing

LEMMA RequestsFail ==
  ASSUME IInv, NEW o \in Errors,
         RequestFails(o) \/ InlineFails(o) \/ AbortFails(o) \/ OneShotFails(o)
  PROVE  IInv'
<1>0. Plain /\ CallInv /\ QueueInv /\ FillInv /\ LogInv /\ EndInv
  BY DEF IInv
<1>1. CASE RequestFails(o)
  <2>1. /\ pc \in {"stat", "once", "initiate", "complete"} /\ CountTemp(o) /\ Failed(o)
        /\ srv' \in {srv, LateEffect(srv, pc)}
        /\ UNCHANGED <<options, copier, wrapper, abortFailed, drops>>
    BY <1>1 DEF RequestFails
  <2>2. abortFailed' = (abortFailed \/ pc = "abort")
    BY <1>0, <2>1 DEF Plain
  <2> QED
    BY <1>0, <2>1, <2>2, Counted, FailKeeps
<1>2. CASE AbortFails(o)
  <2>1. /\ pc = "abort" /\ CountTemp(o) /\ Failed(o)
        /\ srv' \in {srv, LateEffect(srv, pc)}
        /\ abortFailed' = TRUE /\ UNCHANGED <<options, copier, wrapper, drops>>
    BY <1>2 DEF AbortFails
  <2>2. abortFailed' = (abortFailed \/ pc = "abort")
    BY <1>0, <2>1 DEF Plain
  <2> QED
    BY <1>0, <2>1, <2>2, Counted, FailKeeps
<1>3. CASE OneShotFails(o)
  <2>1. /\ pc = "once" /\ CountTemp(o) /\ Failed(o)
        /\ srv' \in {srv, LateEffect(srv, pc)}
        /\ UNCHANGED <<options, copier, wrapper, abortFailed, drops>>
    BY <1>3 DEF OneShotFails
  <2>2. abortFailed' = (abortFailed \/ pc = "abort")
    BY <1>0, <2>1 DEF Plain
  <2> QED
    BY <1>0, <2>1, <2>2, Counted, FailKeeps
<1>4. CASE InlineFails(o) /\ Failed(o)
  <2>1. /\ pc = "inline" /\ CountTemp(o) /\ srv' = srv
        /\ UNCHANGED <<options, copier, wrapper, abortFailed, drops>>
    BY <1>4 DEF InlineFails
  <2>2. abortFailed' = (abortFailed \/ pc = "abort")
    BY <1>0, <2>1 DEF Plain
  <2> QED
    BY <1>0, <1>4, <2>1, <2>2, Counted, FailKeeps
<1>5. CASE InlineFails(o) /\ ~Failed(o)
  <2> USE DEF options, copier, user
  <2>1. /\ pc = "inline" /\ CountTemp(o) /\ UNCHANGED <<pc, op, attempt, user>>
        /\ UNCHANGED <<options, copier, wrapper, srv, abortFailed, drops>>
    BY <1>5 DEF InlineFails
  <2>2. temps' \in 0..MaxTemp /\ temps' >= temps
    BY <1>0, <2>1, Counted
  <2>3. Plain'
    BY <1>0, <2>1, <2>2 DEF Plain
  <2>4. CallInv'
    BY <1>0, <2>1 DEF CallInv, PartPcs, Many
  <2>5. QueueInv'
    BY <1>0, <2>1, QueueSame
  <2>6. FillInv'
    BY <1>0, <2>1 DEF FillInv
  <2>7. LogInv'
    BY <1>0, <2>1, LogSame DEF LogInv
  <2>8. Many /\ ServerType' = ServerType
    BY <1>0, <2>1 DEF CallInv, PartPcs, ServerType, Numbers
  <2>9. EndInv'
    BY <1>0, <2>1, <2>8 DEF EndInv, Many
  <2> QED
    BY <2>3, <2>4, <2>5, <2>6, <2>7, <2>9 DEF IInv
<1> QED
  BY <1>1, <1>2, <1>3, <1>4, <1>5

\* next() returns Ok(None).
LEMMA DoneKeeps ==
  ASSUME IInv, op = "next", Done,
         UNCHANGED <<options, upload, parts, nextPart, q, fut, wrapper, abortFailed, bounds>>,
         sizeKnown' = sizeKnown, scheduled' \in 0..concurrent,
         completed' \in BOOLEAN, completed => completed', Many => completed',
         srv' \in ServerType, srv'.upload = "live" => srv.upload = "live",
         (Many /\ srv'.upload = "live") => abortFailed,
         ~Many => srv'.upload = "none",
         (~aborting /\ (Many \/ (temps = 0 /\ drops = 0))) => srv'.dest = "copied",
         (Many /\ n > Threshold /\ ~aborting) => Len(parts) = n,
         (~Many /\ ~fut /\ ~completed' /\ ~aborting /\ temps = 0 /\ drops = 0) => errored,
         pc # "abort"
  PROVE  IInv'
<1> USE DEF options, bounds
<1>0. Plain /\ CallInv /\ QueueInv /\ FillInv /\ LogInv /\ EndInv
  BY DEF IInv
<1>1. /\ pc' = "idle" /\ op' = "none" /\ attempt' = 0 /\ reported' = "done"
      /\ front' \in {"here", "closed"}
      /\ UNCHANGED <<errored, progress, aborting, mismatch>>
  BY DEF Done, Idle
<1>2. Plain'
  BY <1>0, <1>1, Sizing DEF Plain
<1>3. CallInv'
  BY <1>0, <1>1 DEF CallInv, PartPcs, Many
<1>4. QueueInv'
  BY <1>0, <1>1, QueueSame
<1>5. FillInv'
  BY <1>0, <1>1 DEF FillInv
<1>6. LogInv'
  BY <1>0, <1>1, LogSame DEF LogInv
<1>7. EndInv'
  <2>1. ServerType' = ServerType /\ Many' = Many
    BY DEF ServerType, Numbers, Many
  <2> QED
    BY <1>0, <1>1, <2>1 DEF EndInv
<1> QED
  BY <1>2, <1>3, <1>4, <1>5, <1>6, <1>7 DEF IInv

\* abort() returns Ok.
LEMMA AbortedKeeps ==
  ASSUME IInv, op = "abort", Aborted, LogInv', QueueInv',
         UNCHANGED <<options, sizeKnown, parts, nextPart, scheduled, wrapper, abortFailed,
                     bounds>>,
         upload' \in BOOLEAN, fut' \in BOOLEAN, completed' \in BOOLEAN,
         (Many /\ completed) => completed',
         srv' \in ServerType, ~Many => srv'.upload = "none",
         srv'.upload = "live" => abortFailed
  PROVE  IInv'
<1> USE DEF options, bounds
<1>0. Plain /\ CallInv /\ QueueInv /\ FillInv /\ LogInv /\ EndInv /\ aborting
  BY DEF IInv, CallInv
<1>1. /\ pc' = "idle" /\ op' = "none" /\ attempt' = 0 /\ reported' = "aborted"
      /\ UNCHANGED <<front, errored, progress, aborting, mismatch>>
  BY DEF Aborted, Idle
<1>2. Plain'
  BY <1>0, <1>1, Sizing DEF Plain
<1>3. CallInv'
  BY <1>0, <1>1 DEF CallInv, PartPcs, Many
<1>5. FillInv'
  BY <1>0, <1>1 DEF FillInv
<1>7. EndInv'
  <2>1. ServerType' = ServerType /\ Many' = Many
    BY DEF ServerType, Numbers, Many
  <2> QED
    BY <1>0, <1>1, <2>1 DEF EndInv
<1> QED
  BY <1>2, <1>3, <1>5, <1>7 DEF IInv

---------------------------------------------------------------------------
(* next() up to the parts. *)

LEMMA NextStartKeeps == ASSUME IInv, NextStart PROVE IInv'
<1>0. Plain /\ CallInv /\ QueueInv /\ FillInv /\ LogInv /\ EndInv
  BY DEF IInv
<1>1. /\ pc = "start" /\ op = "next" /\ Many /\ scheduled' = 0
      /\ UNCHANGED <<options, sizeKnown, upload, parts, nextPart, completed, fut, q, wrapper,
                     srv, abortFailed, bounds>>
      /\ 0 \in 0..concurrent
  BY <1>0, Sizing DEF NextStart, CallInv
<1>2. CASE completed /\ Done
  <2>1. /\ srv \in ServerType /\ (~aborting => srv.dest = "copied")
        /\ srv.upload = "live" => abortFailed
        /\ (n > Threshold /\ ~aborting) => Len(parts) = n
    BY <1>0, <1>1, <1>2 DEF EndInv
  <2>2. completed' \in BOOLEAN
    BY <1>0, <1>1 DEF Plain
  <2> QED
    BY <1>1, <1>2, <2>1, <2>2, DoneKeeps
<1>3. CASE ~completed /\ pc' = "size" /\ UNCHANGED <<op, attempt, user>>
  <2>1. FillInv'
    BY <1>1, <1>3 DEF FillInv, options
  <2> QED
    BY <1>1, <1>3, <2>1, MoveKeeps DEF PartPcs
<1> QED
  BY <1>2, <1>3 DEF NextStart

LEMMA SizeKeeps == ASSUME IInv, Size PROVE IInv'
<1>0. Plain /\ CallInv /\ QueueInv /\ FillInv /\ LogInv /\ EndInv
  BY DEF IInv
<1>1. /\ pc = "size" /\ op = "next" /\ Many /\ ~completed
      /\ UNCHANGED <<options, copier, wrapper, srv, abortFailed, bounds>>
  BY <1>0 DEF Size, CallInv, PartPcs, EndInv
<1>2. CASE pc' \in {"stat", "initiate"} /\ UNCHANGED <<op, attempt, user>>
  <2>1. FillInv'
    BY <1>0, <1>1, <1>2 DEF FillInv, options, copier
  <2> QED
    BY <1>1, <1>2, <2>1, MoveKeeps DEF PartPcs, copier
<1>3. CASE pc' = "once" /\ n <= Threshold /\ ~upload /\ UNCHANGED <<op, attempt, user>>
  <2>1. FillInv'
    BY <1>0, <1>1, <1>3 DEF FillInv, options, copier
  <2> QED
    BY <1>1, <1>3, <2>1, MoveKeeps DEF PartPcs, copier
<1>4. CASE pc' = "fill" /\ UNCHANGED <<op, attempt, user>>
  <2>1. FillInv'
    BY <1>0, <1>1, <1>4 DEF FillInv, options, copier
  <2> QED
    BY <1>1, <1>4, <2>1, MoveKeeps DEF PartPcs, copier
<1>5. CASE Failed("perm")
  <2>1. /\ temps' \in 0..MaxTemp /\ temps' >= temps /\ drops' = drops
        /\ abortFailed' = (abortFailed \/ pc = "abort")
    BY <1>0, <1>1, Sizing DEF Plain, bounds
  <2> QED
    BY <1>1, <1>5, <2>1, FailKeeps
<1> QED
  BY <1>1, <1>2, <1>3, <1>4, <1>5 DEF Size

LEMMA RequestOkKeeps == ASSUME IInv, RequestOk PROVE IInv'
<1>0. Plain /\ CallInv /\ QueueInv /\ FillInv /\ LogInv /\ EndInv
  BY DEF IInv
<1>1. /\ pc \in {"stat", "once", "initiate", "complete"} /\ Many /\ op = "next" /\ ~completed
      /\ srv' = Effect(srv, pc) /\ ~Refuses(srv, pc) /\ Served
      /\ UNCHANGED <<options, parts, nextPart, fut, q, scheduled, wrapper, abortFailed, bounds>>
  BY <1>0 DEF RequestOk, CallInv, PartPcs, EndInv
<1>2. /\ srv' \in ServerType /\ (srv.dest = "copied" => srv'.dest = "copied")
      /\ srv'.upload = "live" => srv.upload = "live" \/ pc = "initiate"
      /\ pc \in {"once", "complete"} => srv'.dest = "copied"
  BY <1>0, <1>1, EffectFacts DEF EndInv, LogInv, Refuses
<1>3. CASE pc \in {"once", "complete"}
  <2>1. /\ Done /\ completed' = TRUE /\ sizeKnown' = sizeKnown /\ upload' = upload
    BY <1>0, <1>1, <1>3 DEF RequestOk, Served, Plain
  <2>2. scheduled' \in 0..concurrent
    BY <1>0, <1>1 DEF FillInv
  <2>3. (n > Threshold /\ ~aborting) => Len(parts) = n
    <3>1. CASE pc = "once"
      BY <1>0, <1>1, <3>1, Sizing DEF EndInv
    <3>2. CASE pc = "complete"
      <4>1. parts = [k \in 1..n |-> k - 1] /\ n \in Nat
        BY <1>0, <3>2, Sizing DEF LogInv, AllParts
      <4>2. parts \in Seq(Numbers) /\ DOMAIN parts = 1..n
        BY <1>0, <4>1 DEF LogInv
      <4> QED
        BY <4>1, <4>2, LenProperties
    <3> QED
      BY <1>3, <3>1, <3>2
  <2>4. srv'.upload = "live" => abortFailed
    <3>1. CASE pc = "once"
      BY <1>0, <1>1, <1>2, <3>1 DEF EndInv
    <3>2. CASE pc = "complete"
      <4>1. srv' = [srv EXCEPT !.upload = "done", !.dest = "copied"]
        BY <1>0, <1>1, <3>2 DEF Effect, Refuses, Commit, LogInv
      <4> QED
        BY <1>0, <4>1 DEF EndInv, ServerType
    <3> QED
      BY <1>3, <3>1, <3>2
  <2> QED
    BY <1>1, <1>2, <1>3, <2>1, <2>2, <2>3, <2>4, DoneKeeps
<1>4. CASE pc \in {"stat", "initiate"}
  <2> USE DEF options, user, bounds
  <2>1. /\ pc' = IF pc = "stat" THEN "size" ELSE "fill"
        /\ UNCHANGED <<op, attempt, user>> /\ completed' = completed
        /\ sizeKnown' \in BOOLEAN /\ upload' \in BOOLEAN
        /\ (upload => upload') /\ (pc = "initiate" => upload')
    BY <1>0, <1>1, <1>4 DEF RequestOk, Served, Plain
  <2>2. Plain'
    BY <1>0, <1>1, <2>1 DEF Plain
  <2>3. CallInv'
    BY <1>0, <1>1, <2>1 DEF CallInv, PartPcs, Many
  <2>4. QueueInv'
    BY <1>0, <1>1, <2>1, QueueSame
  <2>5. FillInv'
    BY <1>0, <1>1, <1>4, <2>1 DEF FillInv
  <2>6. LogInv'
    BY <1>0, <1>1, <1>4, <2>1, LogSame DEF LogInv
  <2>7. ServerType' = ServerType /\ Many' = Many
    BY <1>1 DEF ServerType, Numbers, Many
  <2>8. reported = "aborted" => front = "moved"
    BY <1>0, <1>4 DEF CallInv
  <2>9. EndInv'
    BY <1>0, <1>1, <1>2, <1>4, <2>1, <2>7, <2>8 DEF EndInv
  <2> QED
    BY <2>2, <2>3, <2>4, <2>5, <2>6, <2>9 DEF IInv
<1> QED
  BY <1>1, <1>3, <1>4

---------------------------------------------------------------------------
(* The parts and the queue. *)

LEMMA PendingSeq ==
  ASSUME QueueInv
  PROVE  Pending(q) \in Seq(Numbers) /\ Len(Pending(q)) \in Nat
<1>1. Pending(q) \in Seq(Numbers)
  BY PendingType DEF QueueInv, SoundQueue
<1> QED
  BY <1>1

LEMMA NonEmptyBack ==
  ASSUME NEW S, NEW r \in Seq(S), NEW t \in Seq(S), t # <<>>
  PROVE  r \o t # <<>>
<1>1. Len(r) \in Nat /\ Len(t) \in Nat /\ Len(t) # 0 /\ Len(r \o t) = Len(r) + Len(t)
  OBVIOUS
<1> QED
  BY <1>1

\* A task is pending.
LEMMA TasksPending ==
  ASSUME QueueInv, q.tasks # <<>>
  PROVE  Pending(q) # <<>>
<1>1. /\ TaskInputs(q) \in Seq(Numbers) /\ Len(TaskInputs(q)) = Len(q.tasks)
      /\ q.results \in Seq(Numbers) /\ q.tasks \in Seq(TaskType(Numbers))
  BY PendingType DEF QueueInv, SoundQueue
<1>2. TaskInputs(q) # <<>>
  BY <1>1
<1> DEFINE r == q.results
           t == TaskInputs(q)
<1>3. r \in Seq(Numbers) /\ t \in Seq(Numbers) /\ t # <<>> /\ Pending(q) = r \o t
  BY <1>1, <1>2 DEF Pending
<1> HIDE DEF r, t
<1> QED
  BY <1>3, NonEmptyBack

\* The queue moves on without losing anything.
LEMMA LogMoved ==
  ASSUME LogInv, UNCHANGED <<n, parts, nextPart, progress, aborting, mismatch>>,
         Pending(q') = Pending(q), q'.errored <=> q.errored, pc' = "complete" => pc = "complete"
  PROVE  LogInv'
BY DEF LogInv, Chain, Numbers, AllParts

\* One part more is scheduled.
LEMMA LogPush ==
  ASSUME LogInv, QueueInv, UNCHANGED <<n, parts, progress, aborting, mismatch>>,
         n \in Nat, nextPart < n, nextPart' = nextPart + 1, ~q.errored, ~q'.errored,
         Pending(q') = Append(Pending(q), nextPart), pc' # "complete"
  PROVE  LogInv'
<1> DEFINE P == Pending(q)
           m == Len(parts)
<1>1. P \in Seq(Numbers) /\ Len(P) \in Nat /\ m \in Nat /\ nextPart \in Nat
  BY PendingSeq DEF LogInv
<1>2. /\ Len(Append(P, nextPart)) = Len(P) + 1 /\ Append(P, nextPart)[Len(P) + 1] = nextPart
      /\ \A j \in 1..Len(P) : Append(P, nextPart)[j] = P[j]
  <2> HIDE DEF P
  <2> QED
    BY <1>1
<1>3. ASSUME m + Len(P) = nextPart PROVE Chain'
  <2>1. Chain
    BY <1>3 DEF LogInv
  <2>2. \A j \in 1..(Len(P) + 1) : Append(P, nextPart)[j] = m + j - 1
    <3>1. SUFFICES ASSUME NEW j \in 1..(Len(P) + 1)
                   PROVE  Append(P, nextPart)[j] = m + j - 1
      OBVIOUS
    <3>2. CASE j \in 1..Len(P)
      BY <1>2, <2>1, <3>2 DEF Chain
    <3>3. CASE j = Len(P) + 1
      <4>1. m + j - 1 = nextPart
        <5> HIDE DEF m, P
        <5> QED
          BY <1>1, <1>3, <3>3
      <4> QED
        BY <1>2, <3>3, <4>1
    <3> QED
      BY <1>1, <3>2, <3>3
  <2> QED
    BY <1>2, <2>1, <2>2 DEF Chain
<1>4. /\ Len(Pending(q')) = Len(P) + 1
      /\ m + (Len(P) + 1) = nextPart + 1 <=> m + Len(P) = nextPart
      /\ m + (Len(P) + 1) <= nextPart + 1 <=> m + Len(P) <= nextPart
  <2> HIDE DEF m, P
  <2>1. Len(Pending(q')) = Len(P) + 1
    BY <1>2 DEF P
  <2> QED
    BY <1>1, <2>1
<1>5. nextPart' \in 0..n
  BY <1>1
<1> QED
  BY <1>3, <1>4, <1>5 DEF LogInv, Numbers

\* The oldest part is collected.
LEMMA LogTake ==
  ASSUME LogInv, QueueInv, UNCHANGED <<n, nextPart, aborting, mismatch>>,
         Pending(q) # <<>>, NEW i, i = Head(Pending(q)), parts' = Append(parts, i),
         progress' = progress + 1, Pending(q') = Tail(Pending(q)), q'.errored = q.errored,
         pc' # "complete"
  PROVE  LogInv'
<1> DEFINE P == Pending(q)
           m == Len(parts)
<1>1. /\ P \in Seq(Numbers) /\ Len(P) \in Nat /\ m \in Nat /\ nextPart \in Nat
      /\ parts \in Seq(Numbers)
  BY PendingSeq DEF LogInv, Numbers
<1>2. /\ Len(P) >= 1 /\ P[1] = i /\ i \in Numbers
      /\ Len(Tail(P)) = Len(P) - 1 /\ \A j \in 1..(Len(P) - 1) : Tail(P)[j] = P[j + 1]
  <2>1. P # <<>> /\ i = Head(P)
    OBVIOUS
  <2> HIDE DEF P
  <2> QED
    BY <1>1, <2>1, HeadTailProperties
<1>3. /\ parts' \in Seq(Numbers) /\ Len(parts') = m + 1 /\ parts'[m + 1] = i
      /\ \A k \in 1..m : parts'[k] = parts[k]
  BY <1>1, <1>2
<1>4. /\ Len(Pending(q')) = Len(P) - 1
      /\ (m + 1) + (Len(P) - 1) = m + Len(P)
  <2> HIDE DEF m, P
  <2>1. Len(Pending(q')) = Len(P) - 1
    BY <1>2 DEF P
  <2> QED
    BY <1>1, <2>1
<1>5. ASSUME Chain PROVE Chain'
  <2>1. i = m
    BY <1>1, <1>2, <1>5 DEF Chain
  <2>2. \A k \in 1..(m + 1) : parts'[k] = k - 1
    BY <1>1, <1>3, <1>5, <2>1 DEF Chain
  <2>3. ASSUME NEW j \in 1..(Len(P) - 1) PROVE Tail(P)[j] = (m + 1) + j - 1
    <3>1. j + 1 \in 1..Len(P)
      BY <1>1
    <3>2. P[j + 1] = m + (j + 1) - 1
      BY <1>5, <3>1 DEF Chain
    <3>3. m + (j + 1) - 1 = (m + 1) + j - 1
      BY <1>1
    <3> QED
      BY <1>2, <3>2, <3>3
  <2> QED
    BY <1>2, <1>3, <2>2, <2>3 DEF Chain
<1>6. parts' \in Seq(Numbers')
  BY <1>3 DEF Numbers
<1> QED
  BY <1>1, <1>3, <1>4, <1>5, <1>6 DEF LogInv

\* What was pending is lost: the count stays short.
LEMMA LogLost ==
  ASSUME LogInv, QueueInv, UNCHANGED <<n, parts, nextPart, progress, aborting, mismatch>>,
         Pending(q') = <<>>, aborting \/ (Pending(q) # <<>> /\ q'.errored),
         pc' # "complete"
  PROVE  LogInv'
<1>1. /\ Pending(q) \in Seq(Numbers) /\ Len(Pending(q)) \in Nat /\ Len(parts) \in Nat
      /\ nextPart \in Nat
  BY PendingSeq DEF LogInv, Numbers
<1>2. Len(parts) + Len(Pending(q')) <= nextPart
  BY <1>1 DEF LogInv
<1>3. ASSUME Len(parts) + Len(Pending(q')) = nextPart PROVE Chain'
  <2>1. Len(Pending(q)) = 0
    BY <1>1, <1>3 DEF LogInv
  <2>2. Chain
    BY <1>1, <1>3, <2>1 DEF LogInv
  <2> QED
    BY <2>2 DEF Chain
<1> QED
  BY <1>2, <1>3 DEF LogInv, Numbers

---------------------------------------------------------------------------
(* fill_tasks *)

\* A part is scheduled, or copied in the call itself.
LEMMA FilledKeeps ==
  ASSUME IInv, pc \in {"fill", "inline"}, LogInv', QueueInv', FillInv',
         pc' \in {"fill", "take"}, srv' \in ServerType,
         srv'.upload = srv.upload, srv'.dest = srv.dest,
         UNCHANGED <<options, sizeKnown, upload, parts, completed, fut, wrapper, attempt, user,
                     op, abortFailed, bounds>>
  PROVE  IInv'
<1> USE DEF options, user, bounds
<1>0. Plain /\ CallInv /\ QueueInv /\ FillInv /\ LogInv /\ EndInv
  BY DEF IInv
<1>1. Plain'
  BY <1>0 DEF Plain
<1>2. CallInv'
  BY <1>0 DEF CallInv, PartPcs, Many
<1>3. ServerType' = ServerType /\ Many' = Many
  BY DEF ServerType, Numbers, Many
<1>4. EndInv'
  BY <1>0, <1>3 DEF EndInv
<1> QED
  BY <1>1, <1>2, <1>4 DEF IInv

LEMMA FillPushKeeps == ASSUME IInv, FillPush PROVE IInv'
<1>0. /\ Plain /\ CallInv /\ QueueInv /\ FillInv /\ LogInv /\ EndInv
      /\ n \in Nat /\ concurrent \in Nat
  BY Sizing DEF IInv
<1>1. /\ pc = "fill" /\ nextPart < n /\ scheduled < concurrent /\ ~q.errored
      /\ IsConcurrent(concurrent) /\ q' = PushTask(q, nextPart)
      /\ nextPart' = nextPart + 1 /\ scheduled' = scheduled + 1
      /\ pc' = IF HasResult(q) THEN "take" ELSE "fill"
      /\ UNCHANGED <<options, sizeKnown, upload, parts, completed, fut, wrapper, attempt, user,
                     op, srv, abortFailed, bounds>>
  BY DEF FillPush, MayFill
<1>2. nextPart \in Numbers
  BY <1>0, <1>1 DEF LogInv, Numbers
<1>3. /\ SoundQueue(Numbers, q') /\ ~q'.errored /\ q'.tasks # <<>>
      /\ Pending(q') = Append(Pending(q), nextPart)
  BY <1>0, <1>1, <1>2, PushSound DEF QueueInv
<1>4. QueueInv'
  BY <1>1, <1>3 DEF QueueInv, Numbers, options
<1>5. LogInv'
  BY <1>0, <1>1, <1>3, LogPush DEF options, user
<1>6. Pending(q') # <<>>
  <2>1. Pending(q) \in Seq(Numbers)
    BY <1>0, PendingSeq
  <2> QED
    BY <1>2, <1>3, <2>1
<1>7. scheduled' \in 0..concurrent
  BY <1>0, <1>1 DEF FillInv
<1>8. FillInv'
  BY <1>1, <1>3, <1>6, <1>7 DEF FillInv, options
<1>9. srv' \in ServerType
  BY <1>0, <1>1 DEF EndInv
<1> QED
  BY <1>1, <1>4, <1>5, <1>8, <1>9, FilledKeeps

LEMMA FillMoves == ASSUME IInv, FillInline \/ FillEnds PROVE IInv'
<1>0. /\ Plain /\ CallInv /\ QueueInv /\ FillInv /\ LogInv /\ EndInv
      /\ n \in Nat /\ concurrent \in Nat /\ concurrent >= 1
  BY Sizing DEF IInv
<1>1. /\ pc = "fill" /\ op = "next" /\ Many /\ ~completed
      /\ UNCHANGED <<options, copier, wrapper, attempt, user, op, srv, abortFailed, bounds>>
  BY <1>0 DEF FillInline, FillEnds, CallInv, PartPcs, EndInv
<1>2. CASE FillInline
  <2>1. /\ pc' = "inline" /\ nextPart < n /\ scheduled < concurrent
        /\ ~IsConcurrent(concurrent)
    BY <1>2 DEF FillInline, MayFill
  <2>2. FillInv'
    BY <1>0, <1>1, <2>1 DEF FillInv, options, copier
  <2> QED
    BY <1>1, <2>1, <2>2, MoveKeeps DEF PartPcs, copier
<1>3. CASE FillEnds
  <2>1. /\ pc' = "take"
        /\ nextPart >= n \/ ~HasRemaining(q, concurrent, Prefetch) \/ scheduled >= concurrent
    BY <1>0, <1>3 DEF FillEnds, MayFill, LogInv, FillInv
  <2>2. /\ q.tasks \in Seq(TaskType(Numbers)) /\ q.completed \in Nat /\ Len(q.tasks) \in Nat
        /\ q.results \in Seq(Numbers)
    BY <1>0 DEF QueueInv, SoundQueue, QueueType
  <2>3. CASE nextPart >= n
    <3>1. nextPart = n
      BY <1>0, <2>3 DEF LogInv
    <3> QED
      BY <1>0, <1>1, <2>1, <3>1, MoveKeeps DEF PartPcs, copier, FillInv, options
  <2>4. CASE ~HasRemaining(q, concurrent, Prefetch) \/ scheduled >= concurrent
    <3>1. q.tasks # <<>>
      <4>1. CASE ~HasRemaining(q, concurrent, Prefetch)
        <5>1. Min2(q.completed, Prefetch) \in Nat
          BY <2>2, CopierAssumption DEF Min2
        <5>2. Len(q.tasks) >= 1
          BY <1>0, <2>2, <4>1, <5>1 DEF HasRemaining
        <5> QED
          BY <2>2, <5>2
      <4>2. CASE scheduled >= concurrent
        BY <1>0, <1>1, <4>2 DEF FillInv
      <4> QED
        BY <2>4, <4>1, <4>2
    <3>2. Pending(q) # <<>>
      BY <1>0, <3>1, TasksPending
    <3>3. FillInv'
      BY <1>0, <1>1, <2>1, <3>2 DEF FillInv, options, copier
    <3> QED
      BY <1>1, <2>1, <3>3, MoveKeeps DEF PartPcs, copier
  <2> QED
    BY <2>1, <2>3, <2>4
<1> QED
  BY <1>2, <1>3

\* A part joins what the service holds.
LEMMA StorePartFacts ==
  ASSUME srv \in ServerType, NEW p \in Numbers, StorePart(p)
  PROVE  srv' \in ServerType /\ srv'.upload = srv.upload /\ srv'.dest = srv.dest
BY DEF StorePart, ServerType

LEMMA InlineOkKeeps == ASSUME IInv, InlineOk PROVE IInv'
<1>0. /\ Plain /\ CallInv /\ QueueInv /\ FillInv /\ LogInv /\ EndInv
      /\ n \in Nat /\ concurrent \in Nat
  BY Sizing DEF IInv
<1>1. /\ pc = "inline" /\ pc' = "take" /\ nextPart < n /\ scheduled < concurrent
      /\ ~IsConcurrent(concurrent) /\ ~errored
      /\ StorePart(nextPart) /\ q' = [q EXCEPT !.results = Append(q.results, nextPart)]
      /\ nextPart' = nextPart + 1 /\ scheduled' = scheduled + 1
      /\ UNCHANGED <<options, sizeKnown, upload, parts, completed, fut, wrapper, attempt, user,
                     op, abortFailed, bounds>>
  BY <1>0 DEF InlineOk, FillInv, CallInv, PartPcs
<1>2. nextPart \in Numbers /\ ~q.errored /\ q.tasks = <<>>
  BY <1>0, <1>1 DEF LogInv, Numbers, QueueInv
<1>3. /\ SoundQueue(Numbers, q') /\ ~q'.errored /\ q'.tasks = <<>>
      /\ Pending(q') = Append(Pending(q), nextPart)
  BY <1>0, <1>1, <1>2, InlineSound DEF QueueInv
<1>4. QueueInv'
  BY <1>1, <1>3 DEF QueueInv, Numbers, options
<1>5. LogInv'
  BY <1>0, <1>1, <1>2, <1>3, LogPush DEF options, user
<1>6. Pending(q') # <<>>
  <2>1. Pending(q) \in Seq(Numbers)
    BY <1>0, PendingSeq
  <2> QED
    BY <1>2, <1>3, <2>1
<1>7. scheduled' \in 0..concurrent
  BY <1>0, <1>1 DEF FillInv
<1>8. FillInv'
  BY <1>1, <1>3, <1>6, <1>7 DEF FillInv, options
<1>9. srv' \in ServerType /\ srv'.upload = srv.upload /\ srv'.dest = srv.dest
  BY <1>0, <1>1, <1>2, StorePartFacts DEF EndInv
<1> QED
  BY <1>1, <1>4, <1>5, <1>8, <1>9, FilledKeeps

\* The executor resolves a part.
LEMMA ResolvingKeeps == ASSUME IInv, Resolving PROVE IInv'
<1> USE DEF options, user
<1>0. Plain /\ CallInv /\ QueueInv /\ FillInv /\ LogInv /\ EndInv
  BY DEF IInv
<1>1. PICK k \in 1..Len(q.tasks), o \in Outcomes : TaskResolve(k, o)
  BY DEF Resolving
<1>2. /\ k \in Running(q) /\ CountTemp(o) /\ q' = Resolve(q, k, o)
      /\ IF o = "ok" THEN StorePart(q.tasks[k].input) ELSE UNCHANGED srv
      /\ UNCHANGED <<options, sizeKnown, upload, parts, nextPart, completed, fut, scheduled,
                     wrapper, attempt, user, op, pc, abortFailed, drops>>
  BY <1>1 DEF TaskResolve
<1>3. /\ SoundQueue(Numbers, q') /\ q'.errored = q.errored /\ q.tasks # <<>>
      /\ q'.tasks # <<>> /\ Pending(q') = Pending(q) /\ q.tasks[k].input \in Numbers
  BY <1>0, <1>2, ResolveSound DEF QueueInv
<1>4. temps' \in 0..MaxTemp /\ temps' >= temps
  BY <1>0, <1>2, Counted
<1>5. Plain'
  BY <1>0, <1>2, <1>4 DEF Plain
<1>6. CallInv'
  BY <1>0, <1>2 DEF CallInv, PartPcs, Many
<1>7. QueueInv'
  BY <1>0, <1>2, <1>3 DEF QueueInv, Numbers
<1>8. FillInv'
  BY <1>0, <1>2, <1>3 DEF FillInv
<1>9. LogInv'
  BY <1>0, <1>2, <1>3, LogMoved
<1>10. srv' \in ServerType /\ srv'.upload = srv.upload /\ srv'.dest = srv.dest
  BY <1>0, <1>2, <1>3, StorePartFacts DEF EndInv
<1>11. ServerType' = ServerType /\ Many' = Many
  BY <1>2 DEF ServerType, Numbers, Many
<1>12. temps' = 0 => temps = 0
  BY <1>0, <1>4, Sizing
<1>13. EndInv'
  BY <1>0, <1>2, <1>10, <1>11, <1>12 DEF EndInv
<1> QED
  BY <1>5, <1>6, <1>7, <1>8, <1>9, <1>13 DEF IInv

---------------------------------------------------------------------------
(* The loop over tasks.next(). *)

\* A part is collected and reported.
LEMMA CollectKeeps ==
  ASSUME IInv, pc = "take", UNCHANGED takeRest, Progress,
         NEW i, Pending(q) # <<>>, i = Head(Pending(q)), parts' = Append(parts, i),
         Pending(q') = Tail(Pending(q)), q'.errored = q.errored,
         SoundQueue(Numbers, q'), ~IsConcurrent(concurrent) => q'.tasks = <<>>
  PROVE  IInv'
<1> USE DEF options, bounds, takeRest
<1>0. Plain /\ CallInv /\ QueueInv /\ FillInv /\ LogInv /\ EndInv
  BY DEF IInv
<1>1. /\ pc' = "idle" /\ op' = "none" /\ attempt' = 0 /\ reported' = "some"
      /\ progress' = progress + 1 /\ front' \in {"here", "moved", "closed"}
      /\ front' = "closed" => front = "closed"
      /\ UNCHANGED <<errored, aborting, mismatch>>
  BY <1>0 DEF Progress, Idle, Unmove, Plain
<1>2. Plain'
  BY <1>0, <1>1, Sizing DEF Plain
<1>3. CallInv'
  BY <1>0, <1>1 DEF CallInv, PartPcs, Many
<1>4. QueueInv'
  BY <1>0, <1>1 DEF QueueInv, Numbers
<1>5. FillInv'
  BY <1>0, <1>1 DEF FillInv
<1>6. LogInv'
  BY <1>0, <1>1, LogTake
<1>7. ServerType' = ServerType /\ Many' = Many /\ Many /\ ~completed
  BY <1>0 DEF ServerType, Numbers, Many, CallInv, PartPcs, EndInv
<1>8. EndInv'
  BY <1>0, <1>1, <1>7 DEF EndInv
<1> QED
  BY <1>2, <1>3, <1>4, <1>5, <1>6, <1>8 DEF IInv

LEMMA TakePartKeeps == ASSUME IInv, TakePart PROVE IInv'
<1>0. Plain /\ CallInv /\ QueueInv /\ FillInv /\ LogInv /\ EndInv
  BY DEF IInv
<1>1. pc = "take" /\ UNCHANGED takeRest /\ SoundQueue(Numbers, q)
  BY <1>0 DEF TakePart, QueueInv
<1>2. CASE /\ HasResult(q) /\ parts' = Append(parts, Head(q.results))
           /\ q' = [q EXCEPT !.results = Tail(@)] /\ Progress
  <2>1. q' = [q EXCEPT !.results = Tail(q.results)]
    BY <1>2
  <2>2. /\ SoundQueue(Numbers, q') /\ q'.errored = q.errored /\ q'.tasks = q.tasks
        /\ Pending(q) # <<>> /\ Head(Pending(q)) = Head(q.results)
        /\ Pending(q') = Tail(Pending(q))
    BY <1>1, <1>2, <2>1, BufferedSound
  <2>3. ~IsConcurrent(concurrent) => q'.tasks = <<>>
    BY <1>0, <2>2 DEF QueueInv
  <2> QED
    BY <1>1, <1>2, <2>2, <2>3, CollectKeeps
<1>3. CASE /\ ~HasResult(q) /\ FrontReady(q) /\ q.tasks[1].st = "ok"
           /\ parts' = Append(parts, q.tasks[1].input) /\ q' = FrontToOwner(q) /\ Progress
  <2>1. q.results = <<>> /\ IsConcurrent(concurrent)
    BY <1>0, <1>3 DEF HasResult, FrontReady, QueueInv
  <2>2. /\ SoundQueue(Numbers, q') /\ q'.errored = q.errored
        /\ Pending(q) # <<>> /\ Head(Pending(q)) = q.tasks[1].input
        /\ Pending(q') = Tail(Pending(q))
    BY <1>1, <1>3, <2>1, TakeSound
  <2> QED
    BY <1>1, <1>3, <2>1, <2>2, CollectKeeps
<1>4. CASE FrontReady(q) /\ TakeFrontTemp
  <2> USE DEF options, bounds, takeRest, user
  <2>1. /\ q.tasks[1].st = "temp" /\ q' = FrontError(q)
        /\ UNCHANGED <<parts, pc, op, attempt, user>>
    BY <1>4 DEF TakeFrontTemp
  <2>2. /\ SoundQueue(Numbers, q') /\ ~q'.errored /\ ~q.errored
        /\ Pending(q') = Pending(q) /\ q.tasks # <<>>
    BY <1>1, <1>4, <2>1, ErrorSound DEF FrontReady
  <2>3. Plain'
    BY <1>0, <1>1, <2>1 DEF Plain
  <2>4. CallInv'
    BY <1>0, <1>1, <2>1 DEF CallInv, PartPcs, Many
  <2>5. QueueInv'
    BY <1>0, <1>1, <2>2 DEF QueueInv, Numbers
  <2>6. FillInv'
    BY <1>0, <1>1, <2>1, <2>2 DEF FillInv
  <2>7. LogInv'
    BY <1>0, <1>1, <2>1, <2>2, LogMoved
  <2>8. ServerType' = ServerType /\ Many' = Many
    BY <1>1 DEF ServerType, Numbers, Many
  <2>9. EndInv'
    BY <1>0, <1>1, <2>1, <2>8 DEF EndInv
  <2> QED
    BY <2>3, <2>4, <2>5, <2>6, <2>7, <2>9 DEF IInv
<1>5. CASE /\ FrontReady(q) /\ q.tasks[1].st = "perm"
           /\ q' = FrontError(q) /\ Failed("perm") /\ UNCHANGED parts
  <2> USE DEF options, bounds, takeRest
  <2>1. /\ SoundQueue(Numbers, q') /\ q'.errored /\ q'.tasks = <<>> /\ Pending(q') = <<>>
        /\ q.tasks # <<>>
    BY <1>1, <1>5, ErrorSound DEF FrontReady
  <2>2. /\ op = "next" /\ Many /\ ~completed
    BY <1>0, <1>1 DEF CallInv, PartPcs, EndInv
  <2>3. /\ pc' = "idle" /\ op' = "none" /\ attempt' = 0
        /\ front' \in {"here", "moved", "closed"} /\ reported' = "err"
        /\ front' = "closed" => front = "closed"
        /\ errored' = TRUE
        /\ UNCHANGED <<progress, aborting, mismatch>>
    BY <1>0, <1>5, <2>2, FailedFacts DEF Plain
  <2>4. Plain'
    BY <1>0, <1>1, <2>3, Sizing DEF Plain
  <2>5. CallInv'
    BY <1>0, <1>1, <2>3 DEF CallInv, PartPcs, Many
  <2>6. QueueInv'
    BY <1>1, <2>1, <2>3 DEF QueueInv, Numbers
  <2>7. FillInv'
    BY <1>0, <1>1, <2>3 DEF FillInv
  <2>8. Pending(q) # <<>>
    BY <1>0, <2>1, TasksPending
  <2>9. LogInv'
    BY <1>0, <1>1, <1>5, <2>1, <2>3, <2>8, LogLost
  <2>10. ServerType' = ServerType /\ Many' = Many
    BY <1>1 DEF ServerType, Numbers, Many
  <2>11. EndInv'
    BY <1>0, <1>1, <1>5, <2>2, <2>3, <2>10 DEF EndInv
  <2> QED
    BY <2>4, <2>5, <2>6, <2>7, <2>9, <2>11 DEF IInv
<1> QED
  BY <1>2, <1>3, <1>4, <1>5 DEF TakePart

LEMMA TakeNoneKeeps == ASSUME IInv, TakeNone PROVE IInv'
<1>0. /\ Plain /\ CallInv /\ QueueInv /\ FillInv /\ LogInv /\ EndInv /\ n \in Nat
  BY Sizing DEF IInv
<1>1. /\ pc = "take" /\ op = "next" /\ Many /\ ~completed /\ ~q.errored
      /\ ~errored /\ q.results = <<>> /\ q.tasks = <<>> /\ UNCHANGED <<takeRest, parts, q>>
  BY <1>0 DEF TakeNone, HasResult, CallInv, PartPcs, EndInv
<1>2. Pending(q) = <<>>
  BY <1>1 DEF Pending, TaskInputs
<1>3. nextPart = n /\ parts \in Seq(Numbers) /\ Len(parts) \in Nat
  BY <1>0, <1>1, <1>2 DEF FillInv, LogInv
<1>4. CASE Len(parts) = nextPart /\ pc' = "complete" /\ UNCHANGED <<op, attempt, user>>
  <2>1. Chain
    BY <1>0, <1>2, <1>3, <1>4 DEF LogInv
  <2>2. parts = [k \in 1..n |-> k - 1]
    BY <1>3, <1>4, <2>1 DEF Chain
  <2>3. FillInv'
    BY <1>0, <1>1, <1>4 DEF FillInv, takeRest, options
  <2> QED
    BY <1>1, <1>4, <2>2, <2>3, MoveKeeps DEF PartPcs, takeRest, AllParts
<1>5. CASE Len(parts) # nextPart /\ Error /\ mismatch' = TRUE
  <2> USE DEF options, bounds, takeRest
  <2>1. aborting
    BY <1>0, <1>1, <1>2, <1>3, <1>5 DEF LogInv
  <2>2. /\ pc' = "idle" /\ op' = "none" /\ attempt' = 0 /\ reported' = "err"
        /\ front' \in {"here", "moved", "closed"} /\ errored' = TRUE
        /\ front' = "closed" => front = "closed"
        /\ UNCHANGED <<progress, aborting>>
    BY <1>0, <1>1, <1>5 DEF Error, Idle, Unmove, Plain
  <2>3. Plain'
    BY <1>0, <1>1, <1>5, <2>2, Sizing DEF Plain
  <2>4. CallInv'
    BY <1>0, <1>1, <2>2 DEF CallInv, PartPcs, Many
  <2>5. QueueInv'
    BY <1>0, <1>1, <2>2, QueueSame
  <2>6. FillInv'
    BY <1>0, <1>1, <2>2 DEF FillInv
  <2>7. LogInv'
    BY <1>0, <1>1, <2>1, <2>2, LogSame
  <2>8. ServerType' = ServerType /\ Many' = Many
    BY <1>1 DEF ServerType, Numbers, Many
  <2>9. EndInv'
    BY <1>0, <1>1, <2>1, <2>2, <2>8 DEF EndInv
  <2> QED
    BY <2>3, <2>4, <2>5, <2>6, <2>7, <2>9 DEF IInv
<1> QED
  BY <1>4, <1>5 DEF TakeNone

---------------------------------------------------------------------------
(* abort() and the one-shot copier. *)

LEMMA AbortStartKeeps == ASSUME IInv, AbortStart PROVE IInv'
<1>0. Plain /\ CallInv /\ QueueInv /\ FillInv /\ LogInv /\ EndInv
  BY DEF IInv
<1>1. /\ pc = "start" /\ op = "abort" /\ Many /\ aborting /\ q' = Clear(q) /\ upload' = FALSE
      /\ UNCHANGED <<options, sizeKnown, parts, nextPart, fut, scheduled, wrapper, srv,
                     abortFailed, bounds>>
  BY <1>0 DEF AbortStart, CallInv
<1>2. /\ SoundQueue(Numbers, q') /\ q'.errored = q.errored /\ q'.tasks = <<>>
      /\ Pending(q') = <<>>
  BY <1>0, <1>1, ClearSound DEF QueueInv
<1>3. CASE pc' = "abort" /\ UNCHANGED <<completed, op, attempt, user>>
  <2> USE DEF options, bounds, user
  <2>3. Plain'
    BY <1>0, <1>1, <1>3 DEF Plain
  <2>4. CallInv'
    BY <1>0, <1>1, <1>3 DEF CallInv, PartPcs, Many
  <2>5. QueueInv'
    BY <1>0, <1>1, <1>2, <1>3 DEF QueueInv, Numbers
  <2>6. FillInv'
    BY <1>0, <1>1, <1>3 DEF FillInv
  <2>7. LogInv'
    BY <1>0, <1>1, <1>2, <1>3, LogLost
  <2>8. ServerType' = ServerType /\ Many' = Many
    BY <1>1 DEF ServerType, Numbers, Many
  <2>9. EndInv'
    BY <1>0, <1>1, <1>3, <2>8 DEF EndInv
  <2> QED
    BY <2>3, <2>4, <2>5, <2>6, <2>7, <2>9 DEF IInv
<1>4. CASE ~upload /\ completed' = (completed \/ kind = "block") /\ Aborted
  <2>1. UNCHANGED <<errored, progress, aborting, mismatch>> /\ pc' = "idle"
    BY <1>4 DEF Aborted, Idle
  <2>2. QueueInv'
    BY <1>0, <1>1, <1>2, <2>1 DEF QueueInv, Numbers, options
  <2>3. LogInv'
    BY <1>0, <1>1, <1>2, <2>1, LogLost DEF options
  <2>4. /\ completed' \in BOOLEAN /\ (completed => completed') /\ fut' \in BOOLEAN
        /\ upload' \in BOOLEAN
    BY <1>0, <1>1, <1>4 DEF Plain
  <2>5. srv' \in ServerType /\ (srv'.upload = "live" => abortFailed)
    BY <1>0, <1>1, <1>4 DEF EndInv
  <2> QED
    BY <1>1, <1>4, <2>2, <2>3, <2>4, <2>5, AbortedKeeps
<1> QED
  BY <1>3, <1>4 DEF AbortStart

LEMMA AbortOkKeeps == ASSUME IInv, AbortOk PROVE IInv'
<1>0. Plain /\ CallInv /\ QueueInv /\ FillInv /\ LogInv /\ EndInv
  BY DEF IInv
<1>1. /\ pc = "abort" /\ op = "abort" /\ Many /\ srv' = Effect(srv, "abort")
      /\ completed' = TRUE /\ Aborted
      /\ UNCHANGED <<options, sizeKnown, upload, parts, nextPart, fut, q, scheduled, wrapper,
                     abortFailed, bounds>>
  BY <1>0 DEF AbortOk, CallInv
<1>2. UNCHANGED <<errored, progress, aborting, mismatch>> /\ pc' = "idle"
  BY <1>1 DEF Aborted, Idle
<1>3. QueueInv'
  BY <1>0, <1>1, <1>2, QueueSame DEF options
<1>4. LogInv'
  BY <1>0, <1>1, <1>2, LogSame DEF LogInv, options
<1>5. srv' \in ServerType /\ srv'.upload # "live"
  <2>1. srv \in ServerType
    BY <1>0 DEF EndInv
  <2>2. srv' = [srv EXCEPT !.upload = IF srv.upload = "done" THEN "done" ELSE "aborted"]
    BY <1>1, <2>1 DEF Effect, ServerType
  <2> QED
    BY <2>1, <2>2 DEF ServerType
<1>6. upload' \in BOOLEAN /\ fut' \in BOOLEAN
  BY <1>0, <1>1 DEF Plain
<1> QED
  BY <1>1, <1>3, <1>4, <1>5, <1>6, AbortedKeeps

LEMMA OneShotKeeps == ASSUME IInv, OneShotStart \/ OneShotOk PROVE IInv'
<1>0. Plain /\ CallInv /\ QueueInv /\ FillInv /\ LogInv /\ EndInv
  BY DEF IInv
<1>1. /\ pc \in {"start", "once"} /\ ~Many /\ srv \in ServerType
      /\ srv.upload = "none"
      /\ UNCHANGED <<options, sizeKnown, upload, parts, nextPart, q, scheduled, wrapper,
                     abortFailed, bounds>>
  BY <1>0 DEF OneShotStart, OneShotOk, Many, CallInv, EndInv
<1>2. CASE /\ OneShotStart /\ op = "next" /\ ~completed /\ fut /\ pc' = "once" /\ fut' = FALSE
           /\ UNCHANGED <<completed, op, attempt, user>>
  <2> USE DEF options, bounds, user
  <2>1. pc = "start" /\ srv' = srv
    BY <1>2 DEF OneShotStart
  <2>3. Plain'
    BY <1>0, <1>1, <1>2 DEF Plain
  <2>4. CallInv'
    BY <1>0, <1>1, <1>2 DEF CallInv, PartPcs, Many
  <2>5. QueueInv'
    BY <1>0, <1>1, <1>2, QueueSame
  <2>6. FillInv'
    BY <1>0, <1>1, <1>2 DEF FillInv
  <2>7. LogInv'
    BY <1>0, <1>1, <1>2, LogSame DEF LogInv
  <2>8. ServerType' = ServerType /\ Many' = Many
    BY <1>1 DEF ServerType, Numbers, Many
  <2>9. EndInv'
    BY <1>0, <1>1, <1>2, <2>1, <2>8 DEF EndInv
  <2> QED
    BY <2>3, <2>4, <2>5, <2>6, <2>7, <2>9 DEF IInv
<1>3. CASE /\ OneShotStart /\ op = "next" /\ (completed \/ ~fut) /\ Done
           /\ UNCHANGED <<fut, completed>>
  <2>1. pc = "start" /\ srv' = srv /\ ~errored
    BY <1>0, <1>3 DEF OneShotStart, CallInv
  <2>2. (~aborting /\ temps = 0 /\ drops = 0) => completed /\ srv.dest = "copied"
    BY <1>0, <1>1, <1>3, <2>1 DEF EndInv
  <2>3. scheduled' \in 0..concurrent /\ completed' \in BOOLEAN
    BY <1>0, <1>1, <1>3 DEF FillInv, Plain
  <2> QED
    BY <1>1, <1>3, <2>1, <2>2, <2>3, DoneKeeps
<1>4. CASE OneShotStart /\ op = "abort" /\ fut' = FALSE /\ completed' = FALSE /\ Aborted
  <2>1. UNCHANGED <<errored, progress, aborting, mismatch>> /\ pc' = "idle"
    BY <1>4 DEF Aborted, Idle
  <2>2. srv' = srv
    BY <1>4 DEF OneShotStart
  <2>3. QueueInv'
    BY <1>0, <1>1, <2>1, QueueSame DEF options
  <2>4. LogInv'
    BY <1>0, <1>1, <2>1, LogSame DEF LogInv, options
  <2>5. upload' \in BOOLEAN
    BY <1>0, <1>1 DEF Plain
  <2> QED
    BY <1>1, <1>4, <2>2, <2>3, <2>4, <2>5, AbortedKeeps
<1>5. CASE OneShotOk
  <2>1. /\ pc = "once" /\ op = "next" /\ Done /\ completed' = TRUE /\ UNCHANGED fut
        /\ srv' = [srv EXCEPT !.dest = "copied"]
    BY <1>0, <1>5 DEF OneShotOk, Effect, CallInv
  <2>2. srv' \in ServerType /\ srv'.dest = "copied" /\ srv'.upload = "none"
    BY <1>1, <2>1 DEF ServerType
  <2>3. scheduled' \in 0..concurrent
    BY <1>0, <1>1 DEF FillInv
  <2> QED
    BY <1>1, <2>1, <2>2, <2>3, DoneKeeps
<1> QED
  BY <1>2, <1>3, <1>4, <1>5 DEF OneShotStart

---------------------------------------------------------------------------
(* The invariant holds. *)

LEMMA InitIInv == Init => IInv
<1> SUFFICES ASSUME Init PROVE IInv
  OBVIOUS
<1>1. /\ SoundQueue(Numbers, q) /\ Pending(q) = <<>> /\ q.tasks = <<>> /\ ~q.errored
  BY NewSound DEF Init
<1>2. /\ kind \in Kinds /\ concurrent \in Concurrents /\ n \in Sizes
      /\ layered \in BOOLEAN /\ sizeKnown \in BOOLEAN /\ upload = FALSE /\ parts = <<>>
      /\ nextPart = 0 /\ completed = FALSE /\ fut = TRUE /\ scheduled = 0
      /\ wrapper = TRUE /\ attempt = 0 /\ front = "here" /\ errored = FALSE /\ op = "none"
      /\ pc = "idle" /\ srv = [upload |-> "none", stored |-> {}, dest |-> "none",
                                  orphan |-> "none"]
      /\ reported = "none" /\ progress = 0 /\ aborting = FALSE /\ abortFailed = FALSE
      /\ mismatch = FALSE /\ temps = 0 /\ drops = 0
  BY DEF Init
<1>3. Plain
  <2>1. 0 \in 0..MaxTimes /\ 0 \in 0..MaxTemp /\ 0 \in 0..MaxDrops
    BY CopierAssumption
  <2>2. /\ upload \in BOOLEAN /\ completed \in BOOLEAN /\ fut \in BOOLEAN
        /\ wrapper \in BOOLEAN /\ errored \in BOOLEAN /\ aborting \in BOOLEAN
        /\ abortFailed \in BOOLEAN /\ mismatch \in BOOLEAN
    BY <1>2
  <2> QED
    BY <1>2, <2>1, <2>2 DEF Plain
<1>4. n \in Nat /\ concurrent \in Nat
  BY <1>3, Sizing
<1>5. CallInv
  BY <1>2 DEF CallInv, PartPcs
<1>6. QueueInv
  BY <1>1 DEF QueueInv
<1>7. FillInv
  BY <1>2, <1>4 DEF FillInv
<1>8. LogInv
  <2>1. Chain
    BY <1>1, <1>2 DEF Chain
  <2> QED
    BY <1>1, <1>2, <1>4, <2>1 DEF LogInv
<1>9. EndInv
  <2>1. srv \in ServerType /\ srv.upload = "none"
    BY <1>2 DEF ServerType
  <2> QED
    BY <1>2, <2>1 DEF EndInv
<1> QED
  BY <1>3, <1>5, <1>6, <1>7, <1>8, <1>9 DEF IInv

LEMMA NextIInv == ASSUME IInv, [Next]_vars PROVE IInv'
<1>0. Plain /\ CallInv /\ QueueInv /\ FillInv /\ LogInv /\ EndInv
  BY DEF IInv
<1>1. CASE Step
  BY <1>1, NextStartKeeps, SizeKeeps, RequestOkKeeps, FillPushKeeps, FillMoves, InlineOkKeeps,
     TakePartKeeps, TakeNoneKeeps, AbortStartKeeps, AbortOkKeeps, OneShotKeeps, RequestsFail
  DEF Step
<1>2. CASE Resolving
  BY <1>2, ResolvingKeeps
<1>3. CASE \E how \in {"here", "moved"} : UserNext(how)
  BY <1>3, UserNextKeeps
<1>4. CASE UserAbort \/ UserOver \/ UserAfterError \/ UserDrops \/ UserBadState
  BY <1>4, UserAbortKeeps, UserTold, UserDropsKeeps
<1>5. CASE UNCHANGED vars
  <2> USE DEF vars, options, copier, user, bounds
  <2>1. ServerType' = ServerType /\ Many' = Many
    BY <1>5 DEF ServerType, Numbers, Many
  <2>2. Plain' /\ CallInv' /\ FillInv'
    BY <1>0, <1>5, <2>1 DEF Plain, CallInv, FillInv
  <2>3. QueueInv'
    BY <1>0, <1>5, QueueSame
  <2>4. LogInv'
    BY <1>0, <1>5, LogSame DEF LogInv
  <2>5. EndInv'
    BY <1>0, <1>5, <2>1 DEF EndInv
  <2> QED
    BY <2>2, <2>3, <2>4, <2>5 DEF IInv
<1> QED
  BY <1>1, <1>2, <1>3, <1>4, <1>5 DEF Next

\* The whole invariant, for every user: one who aborts and drives the copy on,
\* drops calls, or drives it as a Stream.
THEOREM Inductive == Spec => []IInv
<1>1. Init => IInv
  BY InitIInv
<1>2. IInv /\ [Next]_vars => IInv'
  BY NextIInv
<1> QED
  BY <1>1, <1>2, PTL DEF Spec

\* Every variable of the copiers keeps its type.
THEOREM TypeCorrect == Spec => []TypeOK
<1>1. IInv => TypeOK
  <2> SUFFICES ASSUME IInv PROVE TypeOK
    OBVIOUS
  <2>1. /\ Plain /\ CallInv /\ QueueInv /\ FillInv /\ LogInv /\ EndInv
        /\ n \in Nat
    BY Sizing DEF IInv
  <2>2. q \in QueueType(0..(n - 1)) /\ parts \in Seq(0..(n - 1)) /\ nextPart \in 0..n
    BY <2>1 DEF QueueInv, SoundQueue, LogInv, Numbers
  <2>3. progress \in 0..n
    <3>1. Len(Pending(q)) \in Nat /\ Len(parts) \in Nat
      BY <2>1, <2>2, PendingSeq
    <3> QED
      BY <2>1, <2>2, <3>1 DEF LogInv
  <2>4. pc \in {"idle", "start", "size", "stat", "once", "initiate", "fill", "inline", "take",
                "complete", "abort"}
    BY <2>1 DEF CallInv, PartPcs
  <2>5. srv \in [upload : {"none", "live", "done", "aborted"},
                 stored : SUBSET (0..(n - 1)),
                 dest : {"none", "copied", "partial"},
                 orphan : {"none", "live"}]
    BY <2>1 DEF EndInv, ServerType, Numbers
  <2>6. {layered, sizeKnown, upload, completed, fut, wrapper, errored, aborting, abortFailed,
         mismatch} \subseteq BOOLEAN
    BY <2>1 DEF Plain
  <2> QED
    BY <2>1, <2>2, <2>3, <2>4, <2>5, <2>6 DEF Plain, FillInv, TypeOK
<1> QED
  BY <1>1, Inductive, PTL

\* What the copier says of the end of a copy is true.  A copier that is asked,
\* has not failed and was not aborted says Ok(None) only when the destination
\* is the copy, whatever failed, was repeated, dropped or took effect unanswered
\* (for a OneShotCopier: as long as nothing failed, see copier_oneshot); abort()
\* of a copier that is asked returns Ok only when no upload whose id it got is
\* left, unless an abort request failed before.  A call that no copier is asked
\* for says what it likes: NoneMeansCopied and AbortMeansPurged are false
\* (types/copy.rs:77-107, multipart_copy.rs:296-360).
THEOREM EndTrue == Spec => []EndIsTrue
<1>1. IInv => EndIsTrue
  BY DEF IInv, EndInv, EndIsTrue, DoneMeansCopied, CompletedIsCopied,
         EndTold, AbortCleansUp
<1> QED
  BY <1>1, Inductive, PTL

\* A copy in parts is completed with every part, each copied, collected and
\* reported once, and the check of their number fails only for a user who
\* drives an aborted copy on (multipart_copy.rs:296-330).
THEOREM ExactParts == Spec => []PartsExact
<1>1. IInv => PartsExact
  <2> SUFFICES ASSUME IInv PROVE PartsExact
    OBVIOUS
  <2>1. LogInv /\ EndInv
    BY DEF IInv
  <2>2. NeverPartial
    BY <2>1 DEF EndInv, ServerType, NeverPartial
  <2>3. ProgressExact
    BY <2>1 DEF LogInv, EndInv, ProgressExact, EndTold
  <2>4. MismatchUnreachable
    BY <2>1 DEF LogInv, MismatchUnreachable
  <2> QED
    BY <2>2, <2>3, <2>4 DEF PartsExact
<1> QED
  BY <1>1, Inductive, PTL
=============================================================================
