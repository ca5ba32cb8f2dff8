----------------------- MODULE ConcurrentTasksProofs -----------------------
(***************************************************************************)
(* Proofs about ConcurrentTasks, for every concurrency, prefetch and bound *)
(* of the model.  TypeOK is not inductive by itself: the counter stays in  *)
(* Nat only because it never falls below the number of finished tasks, so  *)
(* the counter, the pending inputs and the suspended call are all part of  *)
(* one inductive invariant.                                                *)
(***************************************************************************)
EXTENDS ConcurrentTasks, TaskQueueTheorems

\* A suspended call still has what it waits for.
CallSound ==
  /\ call.kind \in {"execute", "next"} => q.tasks # <<>> /\ ~q.errored
  /\ call.kind = "next" => q.results = <<>>
  /\ call.kind = "execute" => IsConcurrent(concurrent)
  /\ call.kind = "inline" => ~IsConcurrent(concurrent) /\ ~q.errored

\* Without concurrency nothing is ever queued; once errored nothing is left.
QueueSound ==
  /\ ~IsConcurrent(concurrent) => q.tasks = <<>>
  /\ q.errored => q.tasks = <<>> /\ q.results = <<>>

\* Without a clear no future is detached: the counter can only be too large
\* after one.
NoneDetached == (clears = 0 /\ ~q.errored) => q.detached = 0

IInv ==
  /\ TypeOK
  /\ Conserved
  /\ CounterSound
  /\ QueueBounded
  /\ CallSound
  /\ QueueSound
  /\ NoneDetached

\* The initial state satisfies the invariant.
LEMMA InitIInv == Init => IInv
<1> SUFFICES ASSUME Init PROVE IInv
  OBVIOUS
<1>1. q \in QueueType(Inputs) /\ Pending(q) = <<>> /\ Cardinality(Finished(q)) = 0
  BY NewQueueFacts DEF Init
<1>2. q.completed = 0 /\ q.tasks = <<>> /\ q.results = <<>> /\ ~q.errored
  BY DEF Init, NewQueue
<1>3. TypeOK
  <2>1. unasked \in BOOLEAN
    BY DEF Init
  <2>2. QED
    BY <1>1, <2>1, TasksAssumption DEF Init, TypeOK, CallType
<1>4. Conserved
  <2>1. <<>> \o <<>> = <<>>
    OBVIOUS
  <2>2. QED
    BY <1>1, <2>1 DEF Init, Conserved
<1>5. CounterSound
  BY <1>1, <1>2 DEF CounterSound
<1>6. QueueBounded
  BY <1>2, TasksAssumption DEF Init, QueueBounded
<1>7. CallSound /\ QueueSound /\ NoneDetached
  BY <1>2 DEF Init, Idle, CallSound, QueueSound, NoneDetached, NewQueue
<1>8. QED
  BY <1>3, <1>4, <1>5, <1>6, <1>7 DEF IInv

\* Conserved survives an input that is appended to both sides.
LEMMA ConservedAppend ==
  ASSUME NEW S, NEW i \in S
  PROVE  \A d, p \in Seq(S) : Append(d \o p, i) = d \o Append(p, i)
OBVIOUS

\* Conserved survives an output that moves from the pending to the delivered.
LEMMA ConservedDeliver ==
  ASSUME NEW S
  PROVE  \A d, p \in Seq(S) : p # <<>> => Append(d, Head(p)) \o Tail(p) = d \o p
OBVIOUS

\* With nothing pending, everything accepted was delivered.
LEMMA ConservedEmpty ==
  ASSUME NEW S
  PROVE  \A d \in Seq(S) : d \o <<>> = d
OBVIOUS

\* execute() up to its first suspension.
LEMMA ExecuteStep ==
  ASSUME IInv, NEW i \in Inputs, Execute(i)
  PROVE  IInv'
<1> USE DEF IInv
<1>0. /\ concurrent' = concurrent /\ concurrent \in Concurrents /\ concurrent \in Nat
      /\ unasked' \in BOOLEAN
  BY TasksAssumption DEF Execute, frame, TypeOK
<1> USE <1>0
<1>1. CASE ExecuteRefused \/ ExecuteInline(i) \/ ExecuteWait(i)
  <2>1. /\ q' = q /\ last' = last /\ accepted' = accepted
        /\ delivered' = delivered /\ temps' = temps /\ drops' = drops /\ clears' = clears
    BY <1>1 DEF Execute, ExecuteRefused, ExecuteInline, ExecuteWait, frame
  <2>2. /\ call' \in CallType
        /\ reply' \in {"none", "refused"}
    BY <1>1 DEF Execute, ExecuteRefused, ExecuteInline, ExecuteWait, Return, Suspend,
                CallType, Idle
  <2>3. TypeOK'
    BY <2>1, <2>2 DEF TypeOK
  <2>4. (Conserved /\ CounterSound /\ QueueBounded /\ QueueSound /\ NoneDetached)'
    BY <2>1 DEF Conserved, CounterSound, QueueBounded, QueueSound, NoneDetached
  <2>5. CallSound'
    <3>1. CASE ExecuteRefused
      BY <2>1, <3>1 DEF ExecuteRefused, Return, Idle, CallSound
    <3>2. CASE ExecuteInline(i)
      BY <2>1, <3>2 DEF ExecuteInline, Suspend, CallSound
    <3>3. CASE ExecuteWait(i)
      <4>1. Len(q.tasks) # 0
        BY <3>3, TasksAssumption DEF ExecuteWait, HasRemaining, IsConcurrent, Min2,
              TypeOK, QueueType
      <4>2. q.tasks # <<>>
        BY <4>1
      <4>3. QED
        BY <2>1, <3>3, <4>2 DEF ExecuteWait, Suspend, CallSound
    <3>4. QED
      BY <1>1, <3>1, <3>2, <3>3
  <2>6. QED
    BY <2>3, <2>4, <2>5
<1>2. CASE ExecutePush(i)
  <2>1. /\ q' = PushTask(q, i)
        /\ accepted' = Append(accepted, i) /\ last' = i
        /\ call' = Idle /\ reply' = "ok"
        /\ delivered' = delivered /\ temps' = temps /\ drops' = drops /\ clears' = clears
        /\ HasRemaining(q, concurrent, Prefetch) /\ ~q.errored /\ IsConcurrent(concurrent)
    BY <1>2 DEF Execute, ExecutePush, Accepted, Return, frame
  <2>2. /\ q' \in QueueType(Inputs)
        /\ Pending(q') = Append(Pending(q), i)
        /\ Finished(q') = Finished(q)
        /\ Len(q'.tasks) = Len(q.tasks) + 1
    BY <2>1, PushTaskFacts DEF TypeOK
  <2>3. q'.completed = q.completed /\ q'.errored = q.errored
    BY <2>1 DEF PushTask, TypeOK, QueueType
  <2>4. TypeOK'
    BY <2>1, <2>2, AppendProperties DEF TypeOK, CallType, Inputs
  <2>5. Conserved'
    <3>1. Pending(q) \in Seq(Inputs) /\ delivered \in Seq(Inputs)
      BY PendingType DEF TypeOK
    <3>2. Append(delivered \o Pending(q), i) = delivered \o Append(Pending(q), i)
      BY <3>1, ConservedAppend, Zenon
    <3>3. QED
      BY <2>1, <2>2, <3>2 DEF Conserved
  <2>6. CounterSound'
    BY <2>1, <2>2, <2>3 DEF CounterSound
  <2>7. QueueBounded'
    <3>1. Len(q.tasks) \in Nat /\ q.completed \in Nat
      BY DEF TypeOK, QueueType
    <3>2. Len(q.tasks) < concurrent + Prefetch
      BY <2>1, <3>1, TasksAssumption DEF HasRemaining, Min2
    <3>3. QED
      BY <2>2, <3>1, <3>2, TasksAssumption DEF QueueBounded
  <2>8. CallSound' /\ QueueSound'
    BY <2>1, <2>3 DEF CallSound, QueueSound, Idle
  <2>9. NoneDetached'
    BY <2>1, <2>3, DetachedKept DEF NoneDetached, TypeOK
  <2>10. QED
    BY <2>4, <2>5, <2>6, <2>7, <2>8, <2>9
<1>3. QED
  BY <1>1, <1>2 DEF Execute

\* The inline future resolves.
LEMMA InlineStep ==
  ASSUME IInv, NEW o \in Outcomes, InlineResume(o)
  PROVE  IInv'
<1> USE DEF IInv
<1>0. /\ concurrent' = concurrent /\ concurrent \in Concurrents /\ concurrent \in Nat
      /\ unasked' \in BOOLEAN
  BY TasksAssumption DEF InlineResume, frame, TypeOK
<1> USE <1>0
<1>1. call.kind = "inline" /\ call.input \in Inputs
  BY DEF InlineResume, TypeOK, CallType, Idle
<1>2. /\ call' = Idle /\ reply' \in {"ok", "temp", "perm"}
      /\ delivered' = delivered /\ drops' = drops /\ clears' = clears
  BY DEF InlineResume, Return
<1>3. ~IsConcurrent(concurrent) /\ ~q.errored /\ q.tasks = <<>>
  BY <1>1 DEF CallSound, QueueSound
<1>4. CASE o = "ok"
  <2> DEFINE i == call.input
  <2>1. /\ q' = [q EXCEPT !.results = Append(q.results, i)]
        /\ accepted' = Append(accepted, i) /\ last' = i /\ temps' = temps
    BY <1>4 DEF InlineResume, Accepted
  <2>2. i \in Inputs /\ q.results \in Seq(Inputs) /\ Append(q.results, i) \in Seq(Inputs)
    BY <1>1, AppendProperties DEF TypeOK, QueueType
  <2> HIDE DEF i
  <2>3. /\ q' \in QueueType(Inputs)
        /\ q'.results = Append(q.results, i) /\ q'.tasks = q.tasks
        /\ q'.completed = q.completed /\ q'.errored = q.errored
        /\ q'.detached = q.detached
    BY <2>1, <2>2 DEF TypeOK, QueueType
  <2>4. TaskInputs(q) = <<>> /\ TaskInputs(q') = <<>> /\ Finished(q') = Finished(q)
    BY <1>3, <2>3 DEF TaskInputs, Finished
  <2>5. Pending(q) = q.results /\ Pending(q') = Append(q.results, i)
    BY <2>2, <2>3, <2>4, ConservedEmpty, Zenon DEF Pending
  <2>6. TypeOK'
    BY <1>2, <2>1, <2>2, <2>3, AppendProperties DEF TypeOK, CallType, Inputs
  <2>7. Conserved'
    <3>1. Append(delivered \o q.results, i) = delivered \o Append(q.results, i)
      BY <2>2, ConservedAppend, Zenon DEF TypeOK
    <3>2. QED
      BY <1>2, <2>1, <2>5, <3>1 DEF Conserved
  <2>8. (CounterSound /\ QueueBounded /\ CallSound /\ QueueSound /\ NoneDetached)'
    BY <1>2, <1>3, <2>3, <2>4
       DEF CounterSound, QueueBounded, CallSound, QueueSound, NoneDetached, Idle
  <2>9. QED
    BY <2>6, <2>7, <2>8
<1>5. CASE o # "ok"
  <2>1. /\ q' = q /\ accepted' = accepted /\ last' = last
        /\ temps' \in 0..MaxTemp
    BY <1>5, TasksAssumption DEF InlineResume, TypeOK
  <2>2. TypeOK'
    BY <1>2, <2>1 DEF TypeOK, CallType
  <2>3. (Conserved /\ CounterSound /\ QueueBounded)'
    BY <1>2, <2>1 DEF Conserved, CounterSound, QueueBounded
  <2>4. (CallSound /\ QueueSound /\ NoneDetached)'
    BY <1>2, <2>1 DEF CallSound, QueueSound, NoneDetached, Idle
  <2>5. QED
    BY <2>2, <2>3, <2>4
<1>6. QED
  BY <1>4, <1>5

\* What holds of the counter when the front task has resolved.
LEMMA FrontPositive ==
  ASSUME IInv, FrontReady(q)
  PROVE  /\ q.completed >= 1
         /\ q \in QueueType(Inputs)
         /\ Cardinality(Finished(q)) \in Nat /\ q.completed \in Nat
         /\ Len(q.tasks) \in Nat /\ Len(q.tasks) >= 1
         /\ q.tasks[1] \in TaskType(Inputs) /\ q.tasks[1].st \in Outcomes
<1>1. q \in QueueType(Inputs) /\ q.completed \in Nat
  BY DEF IInv, TypeOK, QueueType
<1>2. Cardinality(Finished(q)) >= 1 /\ Cardinality(Finished(q)) \in Nat /\ 1 \in Finished(q)
  BY <1>1, FrontCounted, FinishedFinite
<1>3. q.completed >= 1
  BY <1>1, <1>2 DEF IInv, CounterSound
<1>4. q.tasks \in Seq(TaskType(Inputs)) /\ 1 \in 1..Len(q.tasks)
  BY <1>1, <1>2, PendingType DEF Finished
<1>5. q.tasks[1] \in TaskType(Inputs)
  BY <1>4, ElementOfSeq
<1>6. q.tasks[1].st \in Outcomes
  BY <1>5 DEF TaskType, FrontReady
<1>7. QED
  BY <1>1, <1>2, <1>3, <1>4, <1>5, <1>6, LenProperties

\* The error arm of execute() and next().
LEMMA ResumeErrorStep ==
  ASSUME IInv, FrontReady(q), ResumeError, UNCHANGED frame, ~q.errored
  PROVE  IInv'
<1> USE DEF IInv
<1>0. /\ concurrent' = concurrent /\ concurrent \in Concurrents /\ concurrent \in Nat
      /\ unasked' \in BOOLEAN
  BY TasksAssumption DEF frame, TypeOK
<1> USE <1>0
<1>1. /\ q.completed >= 1 /\ q \in QueueType(Inputs)
      /\ Cardinality(Finished(q)) \in Nat /\ q.completed \in Nat
      /\ Len(q.tasks) \in Nat /\ Len(q.tasks) >= 1
      /\ q.tasks[1].st \in Outcomes
  BY FrontPositive
<1>2. /\ q' = FrontError(q) /\ call' = Idle /\ reply' = q.tasks[1].st
      /\ q.tasks[1].st # "ok"
      /\ last' = last /\ delivered' = delivered
      /\ temps' = temps /\ drops' = drops /\ clears' = clears
  BY DEF ResumeError, Return, frame
<1>3. q' \in QueueType(Inputs) /\ q'.completed = q.completed - 1
  BY <1>1, <1>2, FrontErrorFacts
<1>4. accepted' \in {accepted, delivered}
  BY DEF ResumeError
<1>5. TypeOK'
  BY <1>1, <1>2, <1>3, <1>4 DEF TypeOK, CallType, Outcomes
<1>6. CallSound'
  BY <1>2 DEF CallSound, Idle
<1>7. CASE q.tasks[1].st = "temp"
  <2>1. /\ Pending(q') = Pending(q)
        /\ Cardinality(Finished(q')) = Cardinality(Finished(q)) - 1
        /\ q'.errored = q.errored
        /\ Len(q'.tasks) = Len(q.tasks)
    BY <1>1, <1>2, <1>7, FrontErrorFacts
  <2>2. accepted' = accepted
    BY <1>7 DEF ResumeError
  <2>3. (Conserved /\ CounterSound /\ QueueBounded)'
    BY <1>1, <1>2, <1>3, <2>1, <2>2 DEF Conserved, CounterSound, QueueBounded
  <2>4. QueueSound'
    <3>1. IsConcurrent(concurrent)
      BY <1>1 DEF QueueSound
    <3>2. QED
      BY <2>1, <3>1 DEF QueueSound
  <2>5. NoneDetached'
    BY <1>1, <1>2, <1>7, <2>1, DetachedKept DEF NoneDetached
  <2>6. QED
    BY <1>5, <1>6, <2>3, <2>4, <2>5
<1>8. CASE q.tasks[1].st = "perm"
  <2>1. /\ Pending(q') = <<>>
        /\ q'.tasks = <<>> /\ q'.results = <<>>
        /\ Finished(q') = {}
        /\ q'.errored
    BY <1>1, <1>2, <1>8, FrontErrorFacts
  <2>2. accepted' = delivered
    BY <1>8 DEF ResumeError
  <2>3. Conserved'
    BY <1>2, <2>1, <2>2, ConservedEmpty, Zenon DEF Conserved, TypeOK
  <2>4. CounterSound'
    BY <1>1, <1>3, <2>1, FS_EmptySet DEF CounterSound
  <2>5. QueueBounded' /\ QueueSound' /\ NoneDetached'
    BY <2>1, TasksAssumption DEF QueueBounded, QueueSound, NoneDetached
  <2>6. QED
    BY <1>5, <1>6, <2>3, <2>4, <2>5
<1>9. QED
  BY <1>1, <1>2, <1>7, <1>8 DEF Outcomes

\* execute() resumes after the front task resolved.
LEMMA ExecuteResumeStep ==
  ASSUME IInv, ExecuteResume
  PROVE  IInv'
<1> USE DEF IInv
<1>0. /\ concurrent' = concurrent /\ concurrent \in Concurrents /\ concurrent \in Nat
      /\ unasked' \in BOOLEAN
  BY TasksAssumption DEF ExecuteResume, frame, TypeOK
<1> USE <1>0
<1>1. /\ call.kind = "execute" /\ FrontReady(q)
      /\ temps' = temps /\ drops' = drops /\ clears' = clears
  BY DEF ExecuteResume, frame
<1>2. call.input \in Inputs /\ IsConcurrent(concurrent) /\ ~q.errored
  BY <1>1 DEF TypeOK, CallType, Idle, CallSound
<1>3. /\ q.completed >= 1 /\ q \in QueueType(Inputs)
      /\ Cardinality(Finished(q)) \in Nat /\ q.completed \in Nat
      /\ Len(q.tasks) \in Nat
  BY <1>1, FrontPositive
<1>4. CASE ExecuteResumeOk
  <2> DEFINE i == call.input
             p == FrontToResults(q)
  <2>1. /\ q' = PushTask(p, i)
        /\ accepted' = Append(accepted, i) /\ last' = i
        /\ call' = Idle /\ reply' = "ok" /\ delivered' = delivered
    BY <1>4 DEF ExecuteResumeOk, Accepted, Return
  <2>2. i \in Inputs
    BY <1>2
  <2>3. /\ p \in QueueType(Inputs)
        /\ Pending(p) = Pending(q)
        /\ Cardinality(Finished(p)) = Cardinality(Finished(q)) - 1
        /\ p.completed = q.completed - 1
        /\ p.errored = q.errored
        /\ Len(p.tasks) = Len(q.tasks) - 1
    BY <1>1, <1>3, FrontToResultsFacts
  <2> HIDE DEF i, p
  <2>4. /\ q' \in QueueType(Inputs)
        /\ Pending(q') = Append(Pending(q), i)
        /\ Finished(q') = Finished(p)
        /\ Len(q'.tasks) = Len(p.tasks) + 1
    BY <2>1, <2>2, <2>3, PushTaskFacts
  <2>5. q'.completed = q.completed - 1 /\ q'.errored = q.errored
    BY <2>1, <2>3 DEF PushTask, QueueType
  <2>6. TypeOK'
    BY <1>1, <2>1, <2>2, <2>4, AppendProperties DEF TypeOK, CallType, Inputs
  <2>7. Conserved'
    <3>1. Pending(q) \in Seq(Inputs) /\ delivered \in Seq(Inputs)
      BY PendingType DEF TypeOK
    <3>2. Append(delivered \o Pending(q), i) = delivered \o Append(Pending(q), i)
      BY <2>2, <3>1, ConservedAppend, Zenon
    <3>3. QED
      BY <2>1, <2>4, <3>2 DEF Conserved
  <2>8. CounterSound'
    BY <1>1, <1>3, <2>3, <2>4, <2>5 DEF CounterSound
  <2>9. QueueBounded'
    BY <1>3, <2>3, <2>4 DEF QueueBounded
  <2>10. CallSound' /\ QueueSound'
    BY <1>2, <2>1, <2>5 DEF CallSound, QueueSound, Idle
  <2>11. NoneDetached'
    BY <1>1, <1>3, <2>1, <2>5, DetachedKept DEF NoneDetached, p
  <2>12. QED
    BY <2>6, <2>7, <2>8, <2>9, <2>10, <2>11
<1>5. CASE ResumeError
  BY <1>1, <1>2, <1>5, ResumeErrorStep DEF ExecuteResume
<1>6. QED
  BY <1>4, <1>5 DEF ExecuteResume

\* next() up to its suspension.
LEMMA NextCallStep ==
  ASSUME IInv, NextCall
  PROVE  IInv'
<1> USE DEF IInv
<1>0. /\ concurrent' = concurrent /\ concurrent \in Concurrents /\ concurrent \in Nat
      /\ unasked' \in BOOLEAN
  BY TasksAssumption DEF NextCall, frame, TypeOK
<1> USE <1>0
<1>1. /\ last' = last /\ accepted' = accepted
      /\ temps' = temps /\ drops' = drops /\ clears' = clears
  BY DEF NextCall, frame
<1>2. CASE NextRefused \/ NextWait \/ NextNone
  <2>1. q' = q /\ delivered' = delivered
    BY <1>2 DEF NextRefused, NextWait, NextNone
  <2>2. /\ call' \in {Idle, [kind |-> "next"]}
        /\ reply' \in {"none", "refused"}
        /\ call' # Idle => NextWait
    BY <1>2 DEF NextRefused, NextWait, NextNone, Return, Suspend
  <2>3. TypeOK'
    BY <1>1, <2>1, <2>2 DEF TypeOK, CallType
  <2>4. (Conserved /\ CounterSound /\ QueueBounded /\ QueueSound /\ NoneDetached)'
    BY <1>1, <2>1 DEF Conserved, CounterSound, QueueBounded, QueueSound, NoneDetached
  <2>5. CallSound'
    BY <2>1, <2>2 DEF NextWait, HasResult, CallSound, Idle
  <2>6. QED
    BY <2>3, <2>4, <2>5
<1>3. CASE NextBuffered
  <2>1. /\ q' = [q EXCEPT !.results = Tail(q.results)]
        /\ delivered' = Append(delivered, Head(q.results))
        /\ call' = Idle /\ reply' = "ok" /\ ~q.errored /\ q.results # <<>>
    BY <1>3 DEF NextBuffered, HasResult, Return
  <2>2. /\ q.results \in Seq(Inputs) /\ delivered \in Seq(Inputs)
        /\ Pending(q) \in Seq(Inputs) /\ TaskInputs(q) \in Seq(Inputs)
    BY PendingType DEF TypeOK
  <2>3. Tail(q.results) \in Seq(Inputs) /\ Head(q.results) \in Inputs
    BY <2>1, <2>2, HeadTailProperties
  <2>4. /\ q' \in QueueType(Inputs)
        /\ q'.results = Tail(q.results) /\ q'.tasks = q.tasks
        /\ q'.completed = q.completed /\ q'.errored = q.errored
        /\ q'.detached = q.detached
    BY <2>1, <2>3 DEF TypeOK, QueueType
  <2>5. TaskInputs(q') = TaskInputs(q) /\ Finished(q') = Finished(q)
    BY <2>4 DEF TaskInputs, Finished
  <2>6. TypeOK'
    BY <1>1, <2>1, <2>2, <2>3, <2>4, AppendProperties DEF TypeOK, CallType
  <2>7. Conserved'
    <3>1. /\ Pending(q) # <<>> /\ Head(Pending(q)) = Head(q.results)
          /\ Tail(Pending(q)) = Tail(q.results) \o TaskInputs(q)
      <4>1. \A r, t \in Seq(Inputs) : r # <<>> =>
              /\ r \o t # <<>> /\ Head(r \o t) = Head(r) /\ Tail(r \o t) = Tail(r) \o t
        BY ConcatFacts
      <4>2. QED
        BY <2>1, <2>2, <4>1, Zenon DEF Pending
    <3>2. Pending(q') = Tail(Pending(q))
      BY <2>4, <2>5, <3>1 DEF Pending
    <3>3. Append(delivered, Head(Pending(q))) \o Tail(Pending(q)) = delivered \o Pending(q)
      BY <2>2, <3>1, ConservedDeliver, Zenon
    <3>4. QED
      BY <1>1, <2>1, <3>1, <3>2, <3>3 DEF Conserved
  <2>8. (CounterSound /\ QueueBounded /\ CallSound /\ QueueSound /\ NoneDetached)'
    BY <1>1, <2>1, <2>4, <2>5
       DEF CounterSound, QueueBounded, CallSound, QueueSound, NoneDetached, Idle
  <2>9. QED
    BY <2>6, <2>7, <2>8
<1>4. QED
  BY <1>2, <1>3 DEF NextCall

\* next() resumes after the front task resolved.
LEMMA NextResumeStep ==
  ASSUME IInv, NextResume
  PROVE  IInv'
<1> USE DEF IInv
<1>0. /\ concurrent' = concurrent /\ concurrent \in Concurrents /\ concurrent \in Nat
      /\ unasked' \in BOOLEAN
  BY TasksAssumption DEF NextResume, frame, TypeOK
<1> USE <1>0
<1>1. /\ call.kind = "next" /\ FrontReady(q)
      /\ temps' = temps /\ drops' = drops /\ clears' = clears
  BY DEF NextResume, frame
<1>2. q.results = <<>> /\ ~q.errored /\ q.tasks # <<>>
  BY <1>1 DEF CallSound
<1>3. /\ q.completed >= 1 /\ q \in QueueType(Inputs)
      /\ Cardinality(Finished(q)) \in Nat /\ q.completed \in Nat
      /\ Len(q.tasks) \in Nat
      /\ q.tasks[1] \in TaskType(Inputs)
  BY <1>1, FrontPositive
<1>4. CASE NextResumeOk
  <2>1. /\ q' = FrontToOwner(q)
        /\ delivered' = Append(delivered, q.tasks[1].input)
        /\ call' = Idle /\ reply' = "ok" /\ last' = last /\ accepted' = accepted
    BY <1>4 DEF NextResumeOk, Return
  <2>2. /\ q' \in QueueType(Inputs)
        /\ Pending(q) # <<>> /\ Head(Pending(q)) = q.tasks[1].input
        /\ Pending(q') = Tail(Pending(q))
        /\ Cardinality(Finished(q')) = Cardinality(Finished(q)) - 1
        /\ q'.completed = q.completed - 1
        /\ q'.errored = q.errored
        /\ Len(q'.tasks) = Len(q.tasks) - 1
    BY <1>1, <1>2, <1>3, <2>1, FrontToOwnerFacts
  <2>3. q.tasks[1].input \in Inputs /\ delivered \in Seq(Inputs)
    BY <1>3 DEF TaskType, TypeOK
  <2>4. TypeOK'
    BY <1>1, <2>1, <2>2, <2>3, AppendProperties DEF TypeOK, CallType
  <2>5. Conserved'
    <3>1. Pending(q) \in Seq(Inputs)
      BY <1>3, PendingType
    <3>2. Append(delivered, Head(Pending(q))) \o Tail(Pending(q)) = delivered \o Pending(q)
      BY <2>2, <2>3, <3>1, ConservedDeliver, Zenon
    <3>3. QED
      BY <2>1, <2>2, <3>2 DEF Conserved
  <2>6. (CounterSound /\ QueueBounded)'
    BY <1>1, <1>3, <2>2, TasksAssumption DEF CounterSound, QueueBounded
  <2>7. CallSound' /\ QueueSound'
    BY <1>2, <2>1, <2>2 DEF CallSound, QueueSound, Idle
  <2>8. NoneDetached'
    BY <1>1, <1>3, <2>1, <2>2, DetachedKept DEF NoneDetached
  <2>9. QED
    BY <2>4, <2>5, <2>6, <2>7, <2>8
<1>5. CASE ResumeError
  BY <1>1, <1>2, <1>5, ResumeErrorStep DEF NextResume
<1>6. QED
  BY <1>4, <1>5 DEF NextResume

\* The owner drops its call or clears the queue.
LEMMA DropClearStep ==
  ASSUME IInv, DropCall \/ ClearCall
  PROVE  IInv'
<1> USE DEF IInv
<1>0. /\ concurrent' = concurrent /\ concurrent \in Concurrents /\ concurrent \in Nat
      /\ unasked' \in BOOLEAN
  BY TasksAssumption DEF DropCall, ClearCall, frame, TypeOK
<1> USE <1>0
<1>1. CASE DropCall
  <2>1. /\ q' = q /\ call' = Idle /\ reply' = "dropped"
        /\ last' = last /\ accepted' = accepted /\ delivered' = delivered
        /\ temps' = temps /\ clears' = clears /\ drops' \in 0..MaxDrops
    BY <1>1, TasksAssumption DEF DropCall, Return, TypeOK
  <2>2. TypeOK'
    BY <2>1 DEF TypeOK, CallType
  <2>3. (Conserved /\ CounterSound /\ QueueBounded)'
    BY <2>1 DEF Conserved, CounterSound, QueueBounded
  <2>4. (CallSound /\ QueueSound /\ NoneDetached)'
    BY <2>1 DEF CallSound, QueueSound, NoneDetached, Idle
  <2>5. QED
    BY <2>2, <2>3, <2>4
<1>2. CASE ClearCall
  <2>1. /\ q' = Clear(q) /\ call' = Idle /\ reply' = "ok"
        /\ last' = last /\ accepted' = delivered /\ delivered' = delivered
        /\ temps' = temps /\ drops' = drops /\ clears' = clears + 1
        /\ clears \in Nat /\ clears' \in 0..MaxClears
    BY <1>2, TasksAssumption DEF ClearCall, Return, TypeOK
  <2>2. /\ q' \in QueueType(Inputs)
        /\ q'.tasks = <<>> /\ q'.results = <<>>
        /\ Pending(q') = <<>> /\ Finished(q') = {}
        /\ q'.completed = q.completed
    BY <2>1, ClearFacts DEF TypeOK
  <2>3. TypeOK'
    BY <2>1, <2>2 DEF TypeOK, CallType
  <2>4. Conserved'
    BY <2>1, <2>2, ConservedEmpty, Zenon DEF Conserved, TypeOK
  <2>5. CounterSound'
    <3>1. Cardinality(Finished(q')) <= q'.completed
      BY <2>2, FS_EmptySet DEF TypeOK, QueueType
    <3>2. clears' # 0
      BY <2>1
    <3>3. QED
      BY <3>1, <3>2 DEF CounterSound
  <2>6. (QueueBounded /\ CallSound /\ QueueSound /\ NoneDetached)'
    BY <2>1, <2>2, TasksAssumption
       DEF QueueBounded, CallSound, QueueSound, NoneDetached, Idle
  <2>7. QED
    BY <2>3, <2>4, <2>5, <2>6
<1>3. QED
  BY <1>1, <1>2

\* The executor resolves a task.
LEMMA TaskResolveStep ==
  ASSUME IInv, NEW k \in 1..Len(q.tasks), NEW o \in Outcomes, TaskResolve(k, o)
  PROVE  IInv'
<1> USE DEF IInv
<1>0. /\ concurrent' = concurrent /\ concurrent \in Concurrents /\ concurrent \in Nat
      /\ unasked' \in BOOLEAN
  BY TasksAssumption DEF TaskResolve, frame, TypeOK
<1> USE <1>0
<1>1. /\ k \in Running(q) /\ q' = Resolve(q, k, o)
      /\ call' = call /\ reply' = reply /\ last' = last
      /\ accepted' = accepted /\ delivered' = delivered
      /\ drops' = drops /\ clears' = clears
      /\ temps' \in 0..MaxTemp
  BY TasksAssumption DEF TaskResolve, TypeOK
<1>2. /\ q' \in QueueType(Inputs)
      /\ Pending(q') = Pending(q)
      /\ Finished(q') = Finished(q) \cup {k}
      /\ k \notin Finished(q)
      /\ Len(q'.tasks) = Len(q.tasks)
      /\ q'.completed = q.completed + 1
  BY <1>1, ResolveFacts DEF TypeOK
<1>3. q'.results = q.results /\ q'.errored = q.errored
  BY <1>1 DEF Resolve, TypeOK, QueueType
<1>4. Cardinality(Finished(q')) = Cardinality(Finished(q)) + 1
  BY <1>2, FinishedFinite, FS_AddElement DEF TypeOK
<1>5. TypeOK'
  BY <1>1, <1>2 DEF TypeOK
<1>6. Conserved' /\ QueueBounded'
  BY <1>1, <1>2 DEF Conserved, QueueBounded
<1>7. CounterSound'
  <2>1. Cardinality(Finished(q)) \in Nat /\ q.completed \in Nat
    BY FinishedFinite DEF TypeOK, QueueType
  <2>2. QED
    BY <1>1, <1>2, <1>3, <1>4, <2>1 DEF CounterSound
<1>8. CallSound' /\ QueueSound'
  <2>1. q.tasks # <<>> /\ q'.tasks # <<>>
    <3>1. q.tasks \in Seq(TaskType(Inputs)) /\ q'.tasks \in Seq(TaskType(Inputs))
      BY <1>2, PendingType DEF TypeOK
    <3>2. Len(q.tasks) # 0
      BY <3>1
    <3>3. QED
      BY <1>2, <3>1, <3>2
  <2>2. QED
    BY <1>1, <1>3, <2>1 DEF CallSound, QueueSound
<1>9. NoneDetached'
  BY <1>1, <1>3, DetachedKept DEF NoneDetached, TypeOK
<1>10. QED
  BY <1>5, <1>6, <1>7, <1>8, <1>9

\* A detached future ends.
LEMMA DetachedStep ==
  ASSUME IInv, NEW c \in BOOLEAN, DetachedEnd(c)
  PROVE  IInv'
<1> USE DEF IInv
<1>0. /\ concurrent' = concurrent /\ concurrent \in Concurrents /\ concurrent \in Nat
      /\ unasked' \in BOOLEAN
  BY TasksAssumption DEF DetachedEnd, frame, TypeOK
<1> USE <1>0
<1> DEFINE n == q.completed + (IF c THEN 1 ELSE 0)
<1>1. /\ q.detached > 0 /\ q' = [q EXCEPT !.detached = q.detached - 1, !.completed = n]
      /\ call' = call /\ reply' = reply /\ last' = last
      /\ accepted' = accepted /\ delivered' = delivered
      /\ temps' = temps /\ drops' = drops /\ clears' = clears
  BY DEF DetachedEnd, EndDetached, frame
<1>2. n \in Nat /\ n >= q.completed /\ q.completed \in Nat /\ q.detached - 1 \in Nat
  BY <1>1 DEF TypeOK, QueueType
<1> HIDE DEF n
<1>3. /\ q' \in QueueType(Inputs)
      /\ q'.tasks = q.tasks /\ q'.results = q.results /\ q'.errored = q.errored
      /\ q'.completed = n /\ q'.detached = q.detached - 1
  BY <1>1, <1>2 DEF TypeOK, QueueType
<1>4. Pending(q') = Pending(q) /\ Finished(q') = Finished(q)
  BY <1>3 DEF Pending, TaskInputs, Finished
<1>5. TypeOK'
  BY <1>1, <1>3 DEF TypeOK
<1>6. (Conserved /\ QueueBounded /\ CallSound /\ QueueSound)'
  BY <1>1, <1>3, <1>4 DEF Conserved, QueueBounded, CallSound, QueueSound
<1>7. CounterSound' /\ NoneDetached'
  <2>1. clears # 0 \/ q.errored
    BY <1>1 DEF NoneDetached
  <2>2. Cardinality(Finished(q)) \in Nat
    BY FinishedFinite DEF TypeOK
  <2>3. QED
    BY <1>1, <1>2, <1>3, <1>4, <2>1, <2>2 DEF CounterSound, NoneDetached
<1>8. QED
  BY <1>5, <1>6, <1>7

\* Every step keeps the invariant.
LEMMA NextIInv == IInv /\ [Next]_vars => IInv'
<1> SUFFICES ASSUME IInv, [Next]_vars PROVE IInv'
  OBVIOUS
<1>1. ASSUME NEW i \in Inputs, Execute(i) PROVE IInv'
  BY <1>1, ExecuteStep
<1>2. ASSUME NEW o \in Outcomes, InlineResume(o) PROVE IInv'
  BY <1>2, InlineStep
<1>3. CASE ExecuteResume
  BY <1>3, ExecuteResumeStep
<1>4. CASE NextCall
  BY <1>4, NextCallStep
<1>5. CASE NextResume
  BY <1>5, NextResumeStep
<1>6. CASE DropCall \/ ClearCall
  BY <1>6, DropClearStep
<1>7. ASSUME NEW k \in 1..Len(q.tasks), NEW o \in Outcomes, TaskResolve(k, o) PROVE IInv'
  BY <1>7, TaskResolveStep
<1>8. ASSUME NEW c \in BOOLEAN, DetachedEnd(c) PROVE IInv'
  BY <1>8, DetachedStep
<1>9. CASE UNCHANGED vars
  BY <1>9 DEF vars, IInv, TypeOK, Conserved, CounterSound, QueueBounded, CallSound,
              QueueSound, NoneDetached
<1>10. QED
  BY <1>1, <1>2, <1>3, <1>4, <1>5, <1>6, <1>7, <1>8, <1>9 DEF Next

\* The inductive invariant holds in every reachable state.
THEOREM Inductive == Spec => []IInv
  BY InitIInv, NextIInv, PTL DEF Spec

\* The variables have their types; in particular the counter never wraps
\* below zero.
THEOREM TypeCorrect == Spec => []TypeOK
<1>1. IInv => TypeOK
  BY DEF IInv
<1>2. QED
  BY <1>1, Inductive, PTL

\* No accepted input is lost, duplicated or reordered, whatever the order the
\* tasks resolve in and whichever calls are dropped.
THEOREM Conservation == Spec => []Conserved
<1>1. IInv => Conserved
  BY DEF IInv
<1>2. QED
  BY <1>1, Inductive, PTL

\* The shared counter is never below the number of tasks waiting to be
\* collected, and exact until something is cleared.
THEOREM CounterCorrect == Spec => []CounterSound
<1>1. IInv => CounterSound
  BY DEF IInv
<1>2. QED
  BY <1>1, Inductive, PTL

\* The task queue never outgrows concurrent + prefetch.
THEOREM QueueBound == Spec => []QueueBounded
<1>1. IInv => QueueBounded
  BY DEF IInv
<1>2. QED
  BY <1>1, Inductive, PTL

\* A suspended call always has a front task to wait for: the two expect()
\* calls cannot fail.
THEOREM FrontAlwaysAvailable == Spec => []FrontAvailable
<1>1. IInv => FrontAvailable
  BY DEF IInv, CallSound, FrontAvailable
<1>2. QED
  BY <1>1, Inductive, PTL

\* The counter, the bound and the awaited front task together.
THEOREM QueueIsSafe == Spec => []QueueSafe
<1>1. CounterSound /\ QueueBounded /\ FrontAvailable => QueueSafe
  BY DEF QueueSafe
<1>2. QED
  BY <1>1, CounterCorrect, QueueBound, FrontAlwaysAvailable, PTL

---------------------------------------------------------------------------
(* Action property and refinement.                                         *)

\* What a step does to the pending inputs, the delivered outputs and the
\* error flag: one of the four things the pipe may do, or nothing.
PipeStep ==
  \/ /\ ~q.errored /\ ~q'.errored /\ delivered' = delivered
     /\ \E i \in Inputs : Pending(q') = Append(Pending(q), i)
  \/ /\ ~q.errored /\ ~q'.errored /\ Pending(q) # <<>>
     /\ delivered' = Append(delivered, Head(Pending(q)))
     /\ Pending(q') = Tail(Pending(q))
  \/ /\ Pending(q') = <<>> /\ q'.errored = q.errored /\ delivered' = delivered
  \/ /\ Pending(q') = <<>> /\ ~q.errored /\ q'.errored = TRUE /\ delivered' = delivered
  \/ /\ Pending(q') = Pending(q) /\ q'.errored = q.errored /\ delivered' = delivered

\* The error arm gives up everything or changes nothing of the pipe.
LEMMA ResumeErrorPipe ==
  ASSUME IInv, FrontReady(q), ResumeError, ~q.errored
  PROVE  PipeStep
<1>1. q.completed >= 1 /\ q \in QueueType(Inputs)
  BY FrontPositive
<1>2. q' = FrontError(q) /\ delivered' = delivered
  BY DEF ResumeError
<1>3. q' \in QueueType(Inputs)
  BY <1>1, <1>2, FrontErrorFacts
<1>4. CASE q.tasks[1].st = "temp"
  BY <1>1, <1>2, <1>4, FrontErrorFacts DEF PipeStep
<1>5. CASE q.tasks[1].st # "temp"
  <2>1. Pending(q') = <<>> /\ q'.errored
    BY <1>1, <1>2, <1>5, FrontErrorFacts
  <2>2. q'.errored = TRUE
    BY <1>3, <2>1 DEF QueueType
  <2>3. QED
    BY <1>2, <2>1, <2>2 DEF PipeStep
<1>6. QED
  BY <1>4, <1>5

\* Every step is a step of the pipe or leaves it alone.
LEMMA NextPipe ==
  ASSUME IInv, [Next]_vars
  PROVE  PipeStep
<1>0. q \in QueueType(Inputs)
  BY DEF IInv, TypeOK
<1>1. ASSUME NEW i \in Inputs, Execute(i) PROVE PipeStep
  <2>1. CASE ExecutePush(i)
    <3>1. q' = PushTask(q, i) /\ delivered' = delivered /\ ~q.errored
      BY <1>1, <2>1 DEF Execute, ExecutePush
    <3>2. Pending(q') = Append(Pending(q), i)
      BY <1>0, <3>1, PushTaskFacts
    <3>3. q'.errored = q.errored
      BY <1>0, <3>1 DEF PushTask, QueueType
    <3>4. QED
      BY <3>1, <3>2, <3>3 DEF PipeStep
  <2>2. CASE ExecuteRefused \/ ExecuteInline(i) \/ ExecuteWait(i)
    BY <1>1, <2>2 DEF Execute, ExecuteRefused, ExecuteInline, ExecuteWait, PipeStep
  <2>3. QED
    BY <1>1, <2>1, <2>2 DEF Execute
<1>2. ASSUME NEW o \in Outcomes, InlineResume(o) PROVE PipeStep
  <2>1. call.kind = "inline" /\ call.input \in Inputs
    BY <1>2 DEF InlineResume, IInv, TypeOK, CallType, Idle
  <2>2. ~q.errored /\ q.tasks = <<>>
    BY <2>1 DEF IInv, CallSound, QueueSound
  <2>3. CASE o = "ok"
    <3> DEFINE i == call.input
    <3>1. q' = [q EXCEPT !.results = Append(q.results, i)] /\ delivered' = delivered
      BY <1>2, <2>3 DEF InlineResume
    <3>2. q.results \in Seq(Inputs) /\ Append(q.results, i) \in Seq(Inputs)
      BY <1>0, <2>1, PendingType, AppendProperties
    <3> HIDE DEF i
    <3>3. /\ q'.results = Append(q.results, i) /\ q'.tasks = <<>>
          /\ q'.errored = q.errored
      BY <1>0, <2>2, <3>1 DEF QueueType
    <3>4. TaskInputs(q) = <<>> /\ TaskInputs(q') = <<>>
      BY <2>2, <3>3 DEF TaskInputs
    <3>5. Pending(q) = q.results /\ Pending(q') = Append(q.results, i)
      BY <3>2, <3>3, <3>4, ConservedEmpty, Zenon DEF Pending
    <3>6. QED
      BY <2>1, <2>2, <3>1, <3>3, <3>5 DEF PipeStep, i
  <2>4. CASE o # "ok"
    BY <1>2, <2>4 DEF InlineResume, PipeStep
  <2>5. QED
    BY <2>3, <2>4
<1>3. CASE ExecuteResume
  <2>1. call.kind = "execute" /\ FrontReady(q)
    BY <1>3 DEF ExecuteResume
  <2>2. call.input \in Inputs /\ ~q.errored
    BY <2>1 DEF IInv, TypeOK, CallType, Idle, CallSound
  <2>3. CASE ExecuteResumeOk
    <3> DEFINE p == FrontToResults(q)
    <3>1. q' = PushTask(p, call.input) /\ delivered' = delivered
      BY <2>3 DEF ExecuteResumeOk
    <3>2. p \in QueueType(Inputs) /\ Pending(p) = Pending(q) /\ p.errored = q.errored
      BY <1>0, <2>1, FrontPositive, FrontToResultsFacts
    <3> HIDE DEF p
    <3>3. Pending(q') = Append(Pending(q), call.input)
      BY <2>2, <3>1, <3>2, PushTaskFacts
    <3>4. q'.errored = q.errored
      BY <3>1, <3>2 DEF PushTask, QueueType
    <3>5. QED
      BY <2>2, <3>1, <3>3, <3>4 DEF PipeStep
  <2>4. CASE ResumeError
    BY <2>1, <2>2, <2>4, ResumeErrorPipe
  <2>5. QED
    BY <1>3, <2>3, <2>4 DEF ExecuteResume
<1>4. CASE NextCall
  <2>1. CASE NextBuffered
    <3>1. /\ q' = [q EXCEPT !.results = Tail(q.results)]
          /\ delivered' = Append(delivered, Head(q.results))
          /\ ~q.errored /\ q.results # <<>>
      BY <2>1 DEF NextBuffered, HasResult
    <3>2. q.results \in Seq(Inputs) /\ TaskInputs(q) \in Seq(Inputs)
      BY <1>0, PendingType
    <3>3. q'.results = Tail(q.results) /\ q'.tasks = q.tasks /\ q'.errored = q.errored
      BY <1>0, <3>1 DEF QueueType
    <3>4. TaskInputs(q') = TaskInputs(q)
      BY <3>3 DEF TaskInputs
    <3>5. \A r, t \in Seq(Inputs) : r # <<>> =>
            /\ r \o t # <<>> /\ Head(r \o t) = Head(r) /\ Tail(r \o t) = Tail(r) \o t
      BY ConcatFacts
    <3>6. /\ Pending(q) # <<>> /\ Head(Pending(q)) = Head(q.results)
          /\ Pending(q') = Tail(Pending(q))
      BY <3>1, <3>2, <3>3, <3>4, <3>5, Zenon DEF Pending
    <3>7. QED
      BY <3>1, <3>3, <3>6 DEF PipeStep
  <2>2. CASE NextRefused \/ NextWait \/ NextNone
    BY <2>2 DEF NextRefused, NextWait, NextNone, PipeStep
  <2>3. QED
    BY <1>4, <2>1, <2>2 DEF NextCall
<1>5. CASE NextResume
  <2>1. call.kind = "next" /\ FrontReady(q)
    BY <1>5 DEF NextResume
  <2>2. ~q.errored /\ q.results = <<>>
    BY <2>1 DEF IInv, CallSound
  <2>3. CASE NextResumeOk
    <3>1. q' = FrontToOwner(q) /\ delivered' = Append(delivered, q.tasks[1].input)
      BY <2>3 DEF NextResumeOk
    <3>2. /\ Pending(q) # <<>> /\ Head(Pending(q)) = q.tasks[1].input
          /\ Pending(q') = Tail(Pending(q)) /\ q'.errored = q.errored
      BY <1>0, <2>1, <2>2, <3>1, FrontPositive, FrontToOwnerFacts
    <3>3. QED
      BY <2>2, <3>1, <3>2 DEF PipeStep
  <2>4. CASE ResumeError
    BY <2>1, <2>2, <2>4, ResumeErrorPipe
  <2>5. QED
    BY <1>5, <2>3, <2>4 DEF NextResume
<1>6. CASE DropCall
  BY <1>6 DEF DropCall, PipeStep
<1>7. CASE ClearCall
  BY <1>0, <1>7, ClearFacts DEF ClearCall, PipeStep
<1>8. ASSUME NEW k \in 1..Len(q.tasks), NEW o \in Outcomes, TaskResolve(k, o)
      PROVE  PipeStep
  <2>1. k \in Running(q) /\ q' = Resolve(q, k, o) /\ delivered' = delivered
    BY <1>8 DEF TaskResolve
  <2>2. Pending(q') = Pending(q)
    BY <1>0, <2>1, ResolveFacts
  <2>3. q'.errored = q.errored
    BY <1>0, <2>1 DEF Resolve, QueueType
  <2>4. QED
    BY <2>1, <2>2, <2>3 DEF PipeStep
<1>9. ASSUME NEW c \in BOOLEAN, DetachedEnd(c) PROVE PipeStep
  <2>1. q' = EndDetached(q, c) /\ delivered' = delivered
    BY <1>9 DEF DetachedEnd
  <2>2. q'.tasks = q.tasks /\ q'.results = q.results /\ q'.errored = q.errored
    BY <1>0, <2>1 DEF EndDetached, QueueType
  <2>3. QED
    BY <2>1, <2>2 DEF PipeStep, Pending, TaskInputs
<1>10. CASE UNCHANGED vars
  BY <1>10 DEF vars, PipeStep
<1>11. QED
  BY <1>1, <1>2, <1>3, <1>4, <1>5, <1>6, <1>7, <1>8, <1>9, <1>10 DEF Next

\* ConcurrentTasks implements the first-in first-out pipe of OrderedTasks.
THEOREM Refinement == Spec => ImplementsPipe
<1>1. Init => Pipe!AbsInit
  <2> SUFFICES ASSUME Init PROVE Pipe!AbsInit
    OBVIOUS
  <2>1. Pending(q) = <<>> /\ delivered = <<>>
    BY NewQueueFacts DEF Init
  <2>2. q.errored = FALSE
    BY DEF Init, NewQueue
  <2>3. QED
    BY <2>1, <2>2 DEF Pipe!AbsInit
<1>2. IInv /\ [Next]_vars => [Pipe!AbsNext]_(Pipe!absVars)
  <2> SUFFICES ASSUME IInv, [Next]_vars PROVE [Pipe!AbsNext]_(Pipe!absVars)
    OBVIOUS
  <2>1. PipeStep
    BY NextPipe
  <2>2. q.errored \in BOOLEAN /\ q'.errored \in BOOLEAN
    <3>1. IInv'
      BY NextIInv
    <3>2. QED
      BY <3>1 DEF IInv, TypeOK, QueueType
  <2>3. QED
    BY <2>1, <2>2 DEF PipeStep, Pipe!AbsNext, Pipe!Accept, Pipe!HandOut, Pipe!Discard,
                      Pipe!Break, Pipe!absVars
<1>3. QED
  BY <1>1, <1>2, Inductive, PTL DEF Spec, ImplementsPipe, Pipe!AbsSpec

---------------------------------------------------------------------------
(* A permanent error is final. *)

\* Every step taken after a permanent error.
LEMMA ErroredStep ==
  ASSUME IInv, [Next]_vars, q.errored
  PROVE  q'.errored /\ accepted' = accepted /\ delivered' = delivered
<1>0. /\ q \in QueueType(Inputs) /\ delivered \in Seq(Inputs)
      /\ q.tasks = <<>> /\ q.results = <<>>
      /\ call.kind \notin {"execute", "next", "inline"}
  BY DEF IInv, TypeOK, QueueSound, CallSound
<1>1. ASSUME NEW i \in Inputs, Execute(i)
      PROVE  q'.errored /\ accepted' = accepted /\ delivered' = delivered
  BY <1>1 DEF Execute, ExecuteRefused, ExecuteInline, ExecutePush, ExecuteWait
<1>2. ~ExecuteResume /\ ~NextResume /\ \A o \in Outcomes : ~InlineResume(o)
  BY <1>0 DEF ExecuteResume, NextResume, InlineResume
<1>3. ASSUME NextCall
      PROVE  q'.errored /\ accepted' = accepted /\ delivered' = delivered
  BY <1>3 DEF NextCall, NextRefused, NextBuffered, NextWait, NextNone
<1>4. ASSUME DropCall
      PROVE  q'.errored /\ accepted' = accepted /\ delivered' = delivered
  BY <1>4 DEF DropCall
<1>5. ASSUME ClearCall
      PROVE  q'.errored /\ accepted' = accepted /\ delivered' = delivered
  <2>1. q'.errored
    BY <1>0, <1>5, ClearFacts DEF ClearCall
  <2>2. Pending(q) = <<>>
    <3>1. TaskInputs(q) = <<>>
      BY <1>0 DEF TaskInputs
    <3>2. QED
      BY <1>0, <3>1 DEF Pending
  <2>3. accepted = delivered
    BY <1>0, <2>2, ConservedEmpty DEF IInv, Conserved
  <2>4. QED
    BY <1>5, <2>1, <2>3 DEF ClearCall
<1>6. 1..Len(q.tasks) = {}
  BY <1>0
<1>7. ASSUME NEW c \in BOOLEAN, DetachedEnd(c)
      PROVE  q'.errored /\ accepted' = accepted /\ delivered' = delivered
  <2>1. q'.errored
    BY <1>0, <1>7 DEF DetachedEnd, EndDetached, QueueType
  <2>2. QED
    BY <1>7, <2>1 DEF DetachedEnd
<1>8. CASE UNCHANGED vars
  BY <1>8 DEF vars
<1>9. QED
  BY <1>1, <1>2, <1>3, <1>4, <1>5, <1>6, <1>7, <1>8 DEF Next

\* After a permanent error nothing is accepted or delivered any more
\* (futures_util.rs:148-151,222-227,278-283).
THEOREM ErrorIsFinal == Spec => ErroredIsFinal
<1>1. IInv /\ [Next]_vars => [q.errored => /\ q'.errored
                                          /\ accepted' = accepted
                                          /\ delivered' = delivered]_vars
  BY ErroredStep
<1>2. QED
  BY <1>1, Inductive, PTL DEF Spec, ErroredIsFinal

---------------------------------------------------------------------------
(* The concurrency of an owner that asks.  GuardedConcurrency is inductive *)
(* only with the reason why no other call adds a running task: a suspended *)
(* execute did not ask, and a task is relaunched only after a temporary    *)
(* error.                                                                  *)

AskInv ==
  /\ call.kind = "execute" => unasked
  /\ temps = 0 => \A t \in TaskSet(q) : t.st # "temp"
  /\ GuardedConcurrency

LEMMA SoundIInv == IInv => SoundQueue(Inputs, q)
BY DEF IInv, TypeOK, CounterSound, QueueSound, SoundQueue

\* With the same queue, and no excuse taken back, nothing is to be shown.
LEMMA AskSame ==
  ASSUME AskInv, IInv, q' = q, UNCHANGED <<concurrent, clears>>, temps' = 0 => temps = 0,
         unasked => unasked', call'.kind = "execute" => unasked'
  PROVE  AskInv'
BY DEF AskInv, GuardedConcurrency

\* Fewer running tasks, none of them failed.
LEMMA AskFewer ==
  ASSUME AskInv, IInv, UNCHANGED <<concurrent, clears, unasked>>, temps' = 0 => temps = 0,
         call'.kind = "execute" => unasked,
         temps' = 0 => \A t \in TaskSet(q') : t.st # "temp",
         Cardinality(Running(q')) <= Cardinality(Running(q)),
         Cardinality(Running(q')) \in Nat
  PROVE  AskInv'
<1>1. concurrent \in Nat /\ Cardinality(Running(q)) \in Nat
  BY TasksAssumption, FinishedFinite DEF IInv, TypeOK
<1> QED
  BY <1>1 DEF AskInv, GuardedConcurrency

LEMMA AskExecute ==
  ASSUME AskInv, IInv, IInv', NEW i \in Inputs, Execute(i)
  PROVE  AskInv'
<1>1. CASE ExecuteRefused \/ ExecuteInline(i)
  <2>1. call'.kind # "execute" /\ q' = q
    BY <1>1 DEF ExecuteRefused, ExecuteInline, Return, Suspend, Idle
  <2> QED
    BY <2>1, AskSame DEF Execute
<1>2. CASE ExecuteWait(i)
  <2>1. q' = q /\ unasked'
    BY <1>2 DEF ExecuteWait, Execute
  <2> QED
    BY <2>1, AskSame DEF Execute
<1>3. CASE ExecutePush(i)
  <2>1. /\ SoundQueue(Inputs, q) /\ q' = PushTask(q, i) /\ ~q.errored
        /\ HasRemaining(q, concurrent, Prefetch) /\ call' = Idle
        /\ UNCHANGED <<concurrent, temps, clears>>
    BY <1>3, SoundIInv DEF ExecutePush, Return, Execute
  <2>2. /\ q' \in QueueType(Inputs) /\ Finished(q') = Finished(q)
        /\ Len(q'.tasks) = Len(q.tasks) + 1
        /\ TaskSet(q') = TaskSet(q) \cup {NewTask(i)}
    BY <2>1, PushSound DEF SoundQueue
  <2>3. NewTask(i).st # "temp" /\ call'.kind # "execute"
    BY <2>1 DEF NewTask, Idle
  <2>4. /\ Cardinality(Running(q')) = Len(q.tasks) + 1 - Cardinality(Finished(q))
        /\ Cardinality(Finished(q)) \in Nat /\ q.completed \in Nat /\ Len(q.tasks) \in Nat
    BY <2>1, <2>2, RunningFinished, FinishedFinite, PendingType
    DEF SoundQueue, QueueType
  <2>5. clears = 0 => q.completed = Cardinality(Finished(q))
    BY <2>1 DEF IInv, CounterSound
  <2>6. clears = 0 => Cardinality(Running(q')) <= concurrent
    BY <2>1, <2>4, <2>5, TasksAssumption DEF HasRemaining, Min2, IInv, TypeOK
  <2> QED
    BY <2>1, <2>2, <2>3, <2>6 DEF AskInv, GuardedConcurrency
<1> QED
  BY <1>1, <1>2, <1>3 DEF Execute

\* The error arm of execute and next.
LEMMA AskError ==
  ASSUME AskInv, IInv, FrontReady(q), ResumeError, UNCHANGED frame
  PROVE  AskInv'
<1>1. /\ SoundQueue(Inputs, q) /\ q' = FrontError(q) /\ call' = Idle
      /\ UNCHANGED <<concurrent, unasked, temps, clears>>
  BY SoundIInv DEF ResumeError, Return, frame
<1>2. call'.kind # "execute" /\ q \in QueueType(Inputs)
  BY <1>1 DEF Idle, SoundQueue
<1>3. CASE q.tasks[1].st = "temp"
  <2>1. temps # 0
    BY <1>2, <1>3, FrontInTasks DEF AskInv
  <2> QED
    BY <1>1, <1>2, <2>1 DEF AskInv, GuardedConcurrency
<1>4. CASE q.tasks[1].st # "temp"
  <2>1. q'.tasks = <<>> /\ TaskSet(q') = {}
    BY <1>1, <1>4, ErrorSound
  <2>2. Running(q') = {}
    BY <2>1 DEF Running
  <2>3. Cardinality(Running(q')) = 0
    BY <2>2, FS_EmptySet
  <2>4. Cardinality(Running(q)) \in Nat
    BY <1>2, FinishedFinite
  <2>5. Cardinality(Running(q')) <= Cardinality(Running(q)) /\ Cardinality(Running(q')) \in Nat
    BY <2>3, <2>4
  <2>6. \A t \in TaskSet(q') : t.st # "temp"
    BY <2>1
  <2> QED
    BY <1>1, <1>2, <2>5, <2>6, AskFewer
<1> QED
  BY <1>3, <1>4

LEMMA AskNext == AskInv /\ IInv /\ IInv' /\ [Next]_vars => AskInv'
<1> SUFFICES ASSUME AskInv, IInv, IInv', [Next]_vars PROVE AskInv'
  OBVIOUS
<1>0. /\ SoundQueue(Inputs, q) /\ q \in QueueType(Inputs) /\ Cardinality(Running(q)) \in Nat
      /\ Cardinality(Finished(q)) \in Nat /\ Len(q.tasks) \in Nat
      /\ Cardinality(Running(q)) = Len(q.tasks) - Cardinality(Finished(q))
      /\ q' \in QueueType(Inputs) /\ Cardinality(Running(q')) \in Nat
      /\ Cardinality(Finished(q')) \in Nat /\ Len(q'.tasks) \in Nat
      /\ Cardinality(Running(q')) = Len(q'.tasks) - Cardinality(Finished(q'))
  <2>1. q \in QueueType(Inputs) /\ q' \in QueueType(Inputs)
    BY DEF IInv, TypeOK
  <2> QED
    BY <2>1, SoundIInv, FinishedFinite, RunningFinished, PendingType
<1>1. ASSUME NEW i \in Inputs, Execute(i) PROVE AskInv'
  BY <1>1, AskExecute
<1>2. ASSUME NEW o \in Outcomes, InlineResume(o) PROVE AskInv'
  <2>1. ~IsConcurrent(concurrent) /\ q.tasks = <<>> /\ ~q.errored
    BY <1>2 DEF InlineResume, IInv, CallSound, QueueSound
  <2>2. /\ UNCHANGED <<concurrent, unasked, clears>> /\ call' = Idle
        /\ temps \in Nat /\ temps' \in {temps, temps + 1}
        /\ q' = q \/ q' = [q EXCEPT !.results = Append(@, call.input)]
    BY <1>2 DEF InlineResume, Return, IInv, TypeOK
  <2>3. q'.tasks = q.tasks
    BY <1>0, <2>2 DEF QueueType
  <2>4. Running(q') = Running(q) /\ TaskSet(q') = TaskSet(q)
    BY <2>3 DEF Running, TaskSet
  <2>5. (temps' = 0 => temps = 0) /\ call'.kind # "execute"
    BY <2>2 DEF Idle
  <2> QED
    BY <2>2, <2>4, <2>5 DEF AskInv, GuardedConcurrency
<1>3. CASE ExecuteResume
  <2>1. FrontReady(q) /\ unasked /\ UNCHANGED frame
    BY <1>3 DEF ExecuteResume, AskInv
  <2>2. CASE ResumeError
    BY <2>1, <2>2, AskError
  <2>3. CASE ExecuteResumeOk
    <3> DEFINE p == FrontToResults(q)
    <3>1. /\ SoundQueue(Inputs, p) /\ ~p.errored /\ TaskSet(p) \subseteq TaskSet(q)
      BY <1>0, <2>1, <2>3, MoveSound DEF ExecuteResumeOk
    <3>2. call.input \in Inputs
      BY <1>3 DEF ExecuteResume, IInv, TypeOK, CallType, Idle
    <3>3. q' = PushTask(p, call.input) /\ call' = Idle
      BY <2>3 DEF ExecuteResumeOk, Return
    <3> HIDE DEF p
    <3>4. TaskSet(q') \subseteq TaskSet(q) \cup {NewTask(call.input)}
      BY <3>1, <3>2, <3>3, PushSound
    <3> QED
      BY <2>1, <3>3, <3>4 DEF AskInv, GuardedConcurrency, NewTask, Idle, frame
  <2> QED
    BY <1>3, <2>2, <2>3 DEF ExecuteResume
<1>4. CASE NextCall
  <2>1. CASE NextBuffered
    <3>1. q' = [q EXCEPT !.results = Tail(@)]
      BY <2>1 DEF NextBuffered
    <3>2. q'.tasks = q.tasks
      BY <1>0, <3>1 DEF QueueType
    <3>3. Running(q') = Running(q) /\ TaskSet(q') = TaskSet(q)
      BY <3>2 DEF Running, TaskSet
    <3> QED
      BY <1>4, <2>1, <3>3 DEF NextCall, NextBuffered, Return, Idle, AskInv,
                              GuardedConcurrency, frame
  <2>2. CASE NextRefused \/ NextWait \/ NextNone
    <3>1. q' = q /\ call'.kind # "execute"
      BY <2>2 DEF NextRefused, NextWait, NextNone, Return, Suspend, Idle
    <3> QED
      BY <1>4, <3>1, AskSame DEF NextCall, frame
  <2> QED
    BY <1>4, <2>1, <2>2 DEF NextCall
<1>5. CASE NextResume
  <2>1. FrontReady(q) /\ q.results = <<>> /\ UNCHANGED frame
    BY <1>5 DEF NextResume, IInv, CallSound
  <2>2. CASE ResumeError
    BY <2>1, <2>2, AskError
  <2>3. CASE NextResumeOk
    <3>1. q' = FrontToOwner(q) /\ q.tasks[1].st = "ok" /\ call' = Idle
      BY <2>3 DEF NextResumeOk, Return
    <3>2. /\ Len(q'.tasks) = Len(q.tasks) - 1 /\ TaskSet(q') \subseteq TaskSet(q)
          /\ Cardinality(Finished(q')) = Cardinality(Finished(q)) - 1
      BY <1>0, <2>1, <3>1, TakeSound
    <3>3. Cardinality(Running(q')) <= Cardinality(Running(q))
      BY <1>0, <3>2
    <3>4. call'.kind # "execute" /\ UNCHANGED <<concurrent, clears, unasked, temps>>
      BY <2>1, <3>1 DEF Idle, frame
    <3>5. temps' = 0 => \A t \in TaskSet(q') : t.st # "temp"
      BY <3>2, <3>4 DEF AskInv
    <3> QED
      BY <1>0, <3>3, <3>4, <3>5, AskFewer
  <2> QED
    BY <1>5, <2>2, <2>3 DEF NextResume
<1>6. CASE DropCall
  <2>1. q' = q /\ call'.kind # "execute"
    BY <1>6 DEF DropCall, Return, Idle
  <2> QED
    BY <1>6, <2>1, AskSame DEF DropCall
<1>7. CASE ClearCall
  <2>0. clears \in Nat /\ clears' = clears + 1 /\ q' = Clear(q) /\ call' = Idle
    BY <1>7 DEF ClearCall, Return, IInv, TypeOK
  <2>1. TaskSet(q') = {}
    BY <1>0, <2>0, ClearSound, Zenon
  <2>2. clears' # 0 /\ call'.kind # "execute"
    BY <2>0 DEF Idle
  <2> QED
    BY <2>1, <2>2 DEF AskInv, GuardedConcurrency
<1>8. ASSUME NEW k \in 1..Len(q.tasks), NEW o \in Outcomes, TaskResolve(k, o)
      PROVE  AskInv'
  <2>1. /\ k \in Running(q) /\ q' = Resolve(q, k, o) /\ call' = call
        /\ UNCHANGED <<concurrent, clears, unasked>>
    BY <1>8 DEF TaskResolve
  <2>2. temps' = IF o = "temp" THEN temps + 1 ELSE temps
    BY <1>8 DEF TaskResolve
  <2>3. /\ Len(q'.tasks) = Len(q.tasks)
        /\ Cardinality(Finished(q')) = Cardinality(Finished(q)) + 1
        /\ TaskSet(q') \subseteq TaskSet(q) \cup {[input |-> q.tasks[k].input, st |-> o]}
    BY <1>0, <2>1, ResolveSound
  <2>4. Cardinality(Running(q')) <= Cardinality(Running(q))
    BY <1>0, <2>3
  <2>5. temps' = 0 => temps = 0 /\ o # "temp"
    BY <2>2 DEF IInv, TypeOK
  <2>6. temps' = 0 => \A t \in TaskSet(q') : t.st # "temp"
    BY <2>3, <2>5 DEF AskInv
  <2> QED
    BY <1>0, <2>1, <2>4, <2>5, <2>6, AskFewer DEF AskInv
<1>9. ASSUME NEW c \in BOOLEAN, DetachedEnd(c) PROVE AskInv'
  <2>1. q' = EndDetached(q, c) /\ UNCHANGED <<call, frame>>
    BY <1>9 DEF DetachedEnd
  <2>2. q'.tasks = q.tasks
    BY <1>0, <2>1 DEF EndDetached, QueueType
  <2>3. Running(q') = Running(q) /\ TaskSet(q') = TaskSet(q)
    BY <2>2 DEF Running, TaskSet
  <2> QED
    BY <2>1, <2>3 DEF AskInv, GuardedConcurrency, frame
<1>10. CASE UNCHANGED vars
  BY <1>10, AskSame DEF vars, AskInv
<1> QED
  BY <1>1, <1>2, <1>3, <1>4, <1>5, <1>6, <1>7, <1>8, <1>9, <1>10 DEF Next

\* An owner that asks has_remaining() before every execute never has more
\* than `concurrent` tasks running, unless a task was relaunched or the queue
\* cleared (futures_util.rs:194, buffer_stream.rs:197).
THEOREM AskedConcurrency == Spec => []GuardedConcurrency
<1>1. Init => AskInv
  <2> SUFFICES ASSUME Init PROVE AskInv
    OBVIOUS
  <2>1. q = NewQueue /\ concurrent \in Nat /\ call = Idle
    BY TasksAssumption DEF Init
  <2>2. TaskSet(q) = {} /\ q.tasks = <<>>
    BY <2>1, NewSound
  <2>3. Running(q) = {}
    BY <2>2 DEF Running
  <2>4. Cardinality(Running(q)) = 0
    BY <2>3, FS_EmptySet
  <2> QED
    BY <2>1, <2>2, <2>4 DEF AskInv, GuardedConcurrency, Idle
<1>2. AskInv => GuardedConcurrency
  BY DEF AskInv
<1> QED
  BY <1>1, <1>2, AskNext, Inductive, PTL DEF Spec
=============================================================================
