------------------------- MODULE TaskQueueTheorems -------------------------
(***************************************************************************)
(* Facts about the operators of TaskQueue, for every set S of inputs: the  *)
(* type they preserve, what they do to the pending inputs and to the       *)
(* number of finished tasks.  An operator that lowers the counter keeps    *)
(* the type only from a positive counter, which is a hypothesis here.      *)
(***************************************************************************)
EXTENDS TaskQueue, SequenceTheorems, FiniteSetTheorems, TLAPS

\* A function on 1..n is a sequence.
LEMMA FunctionIsSeq ==
  ASSUME NEW S, NEW n \in Nat, NEW f \in [1..n -> S]
  PROVE  f \in Seq(S) /\ Len(f) = n
<1>1. f \in Seq(S)
  BY SeqDef
<1> QED
  BY <1>1

\* Concatenation of two sequences, stated for plain variables.
LEMMA ConcatFacts ==
  ASSUME NEW S, NEW r \in Seq(S), NEW t \in Seq(S)
  PROVE  /\ r \o t \in Seq(S)
         /\ Len(r \o t) = Len(r) + Len(t)
         /\ t # <<>> => Append(r, Head(t)) \o Tail(t) = r \o t
         /\ (r = <<>> /\ t # <<>>) => /\ r \o t # <<>>
                                      /\ Head(r \o t) = Head(t)
                                      /\ Tail(r \o t) = r \o Tail(t)
         /\ r # <<>> => /\ r \o t # <<>>
                        /\ Head(r \o t) = Head(r)
                        /\ Tail(r \o t) = Tail(r) \o t
<1>1. r \o t \in Seq(S) /\ Len(r \o t) = Len(r) + Len(t)
  OBVIOUS
<1>3. ASSUME t # <<>>
      PROVE  Append(r, Head(t)) \o Tail(t) = r \o t
  BY <1>3
<1>4. ASSUME r = <<>>, t # <<>>
      PROVE  r \o t # <<>> /\ Head(r \o t) = Head(t) /\ Tail(r \o t) = r \o Tail(t)
  BY <1>4, ConcatEmptySeq, HeadTailProperties
<1>5. ASSUME r # <<>>
      PROVE  r \o t # <<>> /\ Head(r \o t) = Head(r) /\ Tail(r \o t) = Tail(r) \o t
  BY <1>5
<1>6. QED
  BY <1>1, <1>3, <1>4, <1>5

\* Appending to the second of two sequences.
LEMMA ConcatAppend ==
  ASSUME NEW S, NEW r \in Seq(S), NEW t \in Seq(S), NEW i \in S
  PROVE  r \o Append(t, i) = Append(r \o t, i)
OBVIOUS

\* The inputs of a sequence of tasks are a sequence of inputs.
LEMMA InputsOfTasks ==
  ASSUME NEW S, NEW s \in Seq(TaskType(S))
  PROVE  /\ [k \in 1..Len(s) |-> s[k].input] \in Seq(S)
         /\ Len([k \in 1..Len(s) |-> s[k].input]) = Len(s)
<1>1. \A k \in 1..Len(s) : s[k] \in TaskType(S)
  OBVIOUS
<1>2. \A k \in 1..Len(s) : s[k].input \in S
  BY <1>1 DEF TaskType
<1>3. QED
  BY <1>2

\* Pending(q) is a sequence of inputs: the results, then the tasks' inputs.
LEMMA PendingType ==
  ASSUME NEW S, NEW q \in QueueType(S)
  PROVE  /\ q.tasks \in Seq(TaskType(S)) /\ q.results \in Seq(S)
         /\ TaskInputs(q) \in Seq(S)
         /\ Len(TaskInputs(q)) = Len(q.tasks)
         /\ Pending(q) \in Seq(S)
<1>1. q.tasks \in Seq(TaskType(S)) /\ q.results \in Seq(S)
  BY DEF QueueType
<1>2. TaskInputs(q) \in Seq(S) /\ Len(TaskInputs(q)) = Len(q.tasks)
  BY <1>1, InputsOfTasks DEF TaskInputs
<1>3. Pending(q) \in Seq(S)
  BY <1>1, <1>2, ConcatFacts DEF Pending
<1>4. QED
  BY <1>1, <1>2, <1>3

\* A new queue is well typed and holds nothing.
LEMMA NewQueueFacts ==
  ASSUME NEW S
  PROVE  /\ NewQueue \in QueueType(S)
         /\ Pending(NewQueue) = <<>>
         /\ Cardinality(Finished(NewQueue)) = 0
<1>1. NewQueue \in QueueType(S)
  BY DEF NewQueue, QueueType
<1>2. Pending(NewQueue) = <<>>
  BY DEF Pending, TaskInputs, NewQueue
<1>3. Finished(NewQueue) = {}
  BY DEF Finished, NewQueue
<1>4. QED
  BY <1>1, <1>2, <1>3, FS_EmptySet

\* Running and finished tasks are finitely many and partition the queue.
LEMMA FinishedFinite ==
  ASSUME NEW S, NEW q \in QueueType(S)
  PROVE  /\ IsFiniteSet(Finished(q)) /\ Cardinality(Finished(q)) \in Nat
         /\ IsFiniteSet(Running(q)) /\ Cardinality(Running(q)) \in Nat
<1>1. Len(q.tasks) \in Nat
  BY PendingType, LenProperties
<1>2. IsFiniteSet(1..Len(q.tasks))
  BY <1>1, FS_Interval
<1>3. Finished(q) \in SUBSET (1..Len(q.tasks)) /\ Running(q) \in SUBSET (1..Len(q.tasks))
  BY DEF Finished, Running
<1>4. IsFiniteSet(Finished(q)) /\ IsFiniteSet(Running(q))
  BY <1>2, <1>3, FS_Subset
<1>5. QED
  BY <1>4, FS_CardinalityType

\* A resolved front task is a finished one, so the count is positive.
LEMMA FrontCounted ==
  ASSUME NEW S, NEW q \in QueueType(S), FrontReady(q)
  PROVE  /\ 1 \in Finished(q)
         /\ Cardinality(Finished(q)) >= 1
<1>1. q.tasks \in Seq(TaskType(S)) /\ q.tasks # <<>>
  BY PendingType DEF FrontReady
<1>2. 1 \in 1..Len(q.tasks)
  BY <1>1
<1>3. 1 \in Finished(q)
  BY <1>2 DEF FrontReady, Finished
<1>4. Cardinality(Finished(q)) # 0 /\ Cardinality(Finished(q)) \in Nat
  BY <1>3, FinishedFinite, FS_EmptySet
<1>5. QED
  BY <1>3, <1>4

\* PushTask appends one running task.
LEMMA PushTaskFacts ==
  ASSUME NEW S, NEW q \in QueueType(S), NEW i \in S
  PROVE  /\ PushTask(q, i) \in QueueType(S)
         /\ Pending(PushTask(q, i)) = Append(Pending(q), i)
         /\ Finished(PushTask(q, i)) = Finished(q)
         /\ Len(PushTask(q, i).tasks) = Len(q.tasks) + 1
         /\ PushTask(q, i).tasks # <<>>
<1> DEFINE p == PushTask(q, i)
<1>1. NewTask(i) \in TaskType(S)
  BY DEF NewTask, TaskType
<1>2. q.tasks \in Seq(TaskType(S)) /\ q.results \in Seq(S)
  BY PendingType
<1>3. p.tasks = Append(q.tasks, NewTask(i)) /\ p.results = q.results
  BY DEF PushTask, QueueType
<1>4. Append(q.tasks, NewTask(i)) \in Seq(TaskType(S))
  BY <1>1, <1>2, AppendProperties
<1>5. p \in QueueType(S)
  BY <1>4 DEF PushTask, QueueType
<1>6. /\ Len(p.tasks) = Len(q.tasks) + 1
      /\ p.tasks # <<>>
      /\ \A k \in 1..Len(q.tasks) : p.tasks[k] = q.tasks[k]
      /\ p.tasks[Len(q.tasks) + 1] = NewTask(i)
  BY <1>1, <1>2, <1>3, AppendProperties
<1>7. Finished(p) = Finished(q)
  BY <1>2, <1>6 DEF Finished, NewTask
<1>8. TaskInputs(p) = Append(TaskInputs(q), i)
  <2>1. /\ TaskInputs(p) \in Seq(S) /\ Len(TaskInputs(p)) = Len(q.tasks) + 1
        /\ TaskInputs(q) \in Seq(S) /\ Len(TaskInputs(q)) = Len(q.tasks)
    BY <1>5, <1>6, PendingType
  <2>2. /\ Append(TaskInputs(q), i) \in Seq(S)
        /\ Len(Append(TaskInputs(q), i)) = Len(q.tasks) + 1
        /\ \A k \in 1..Len(q.tasks) : Append(TaskInputs(q), i)[k] = TaskInputs(q)[k]
        /\ Append(TaskInputs(q), i)[Len(q.tasks) + 1] = i
    BY <2>1, AppendProperties
  <2>3. \A k \in 1..(Len(q.tasks) + 1) : TaskInputs(p)[k] = Append(TaskInputs(q), i)[k]
    BY <1>2, <1>6, <2>2 DEF TaskInputs, NewTask
  <2>4. QED
    BY <2>1, <2>2, <2>3, SeqEqual
<1>9. Pending(p) = Append(Pending(q), i)
  <2>1. TaskInputs(q) \in Seq(S)
    BY PendingType
  <2>2. q.results \o Append(TaskInputs(q), i) = Append(q.results \o TaskInputs(q), i)
    <3>1. \A r, t \in Seq(S) : r \o Append(t, i) = Append(r \o t, i)
      BY ConcatAppend
    <3>2. QED
      BY <1>2, <2>1, <3>1, Zenon
  <2>3. QED
    BY <1>3, <1>8, <2>2 DEF Pending
<1>10. QED
  BY <1>5, <1>6, <1>7, <1>9

\* Replacing one task by another with the same input keeps the pending
\* inputs: what Relaunch and Resolve have in common.
LEMMA SameInputs ==
  ASSUME NEW S, NEW q \in QueueType(S), NEW p \in QueueType(S),
         p.results = q.results, Len(p.tasks) = Len(q.tasks),
         \A k \in 1..Len(q.tasks) : p.tasks[k].input = q.tasks[k].input
  PROVE  Pending(p) = Pending(q)
<1>1. TaskInputs(p) = TaskInputs(q)
  BY DEF TaskInputs
<1>2. QED
  BY <1>1 DEF Pending

\* Relaunch puts a running task with the front task's input at the front.
LEMMA RelaunchFacts ==
  ASSUME NEW S, NEW q \in QueueType(S), FrontReady(q)
  PROVE  /\ Relaunch(q) \in QueueType(S)
         /\ Pending(Relaunch(q)) = Pending(q)
         /\ Finished(Relaunch(q)) = Finished(q) \ {1}
         /\ Len(Relaunch(q).tasks) = Len(q.tasks)
<1> DEFINE p == Relaunch(q)
           t == NewTask(q.tasks[1].input)
<1>1. q.tasks \in Seq(TaskType(S)) /\ 1 \in 1..Len(q.tasks)
  BY PendingType, FrontCounted DEF Finished
<1>2. q.tasks[1] \in TaskType(S)
  BY <1>1, ElementOfSeq
<1>3. t \in TaskType(S) /\ t.input = q.tasks[1].input /\ t.st = "running"
  BY <1>2 DEF NewTask, TaskType
<1>4. /\ p.tasks = [q.tasks EXCEPT ![1] = t]
      /\ p = [q EXCEPT !.tasks = [q.tasks EXCEPT ![1] = t]]
      /\ p.results = q.results
  BY DEF Relaunch, QueueType
<1> HIDE DEF t, p
<1>5. /\ p.tasks \in Seq(TaskType(S))
      /\ Len(p.tasks) = Len(q.tasks)
      /\ \A k \in 1..Len(q.tasks) : p.tasks[k] = IF k = 1 THEN t ELSE q.tasks[k]
  BY <1>1, <1>3, <1>4, ExceptSeq
<1>6. p \in QueueType(S)
  BY <1>4, <1>5 DEF QueueType
<1>7. Finished(p) = Finished(q) \ {1}
  BY <1>3, <1>5 DEF Finished
<1>8. \A k \in 1..Len(q.tasks) : p.tasks[k].input = q.tasks[k].input
  BY <1>3, <1>5
<1>9. Pending(p) = Pending(q)
  BY <1>4, <1>5, <1>6, <1>8, SameInputs
<1>10. QED
  BY <1>5, <1>6, <1>7, <1>9 DEF p

\* Resolve finishes one running task and counts it.
LEMMA ResolveFacts ==
  ASSUME NEW S, NEW q \in QueueType(S), NEW k \in Running(q), NEW o \in Outcomes
  PROVE  /\ Resolve(q, k, o) \in QueueType(S)
         /\ Pending(Resolve(q, k, o)) = Pending(q)
         /\ Finished(Resolve(q, k, o)) = Finished(q) \cup {k}
         /\ k \notin Finished(q)
         /\ Len(Resolve(q, k, o).tasks) = Len(q.tasks)
         /\ Resolve(q, k, o).completed = q.completed + 1
<1> DEFINE p == Resolve(q, k, o)
           t == [q.tasks[k] EXCEPT !.st = o]
<1>1. q.tasks \in Seq(TaskType(S)) /\ k \in 1..Len(q.tasks) /\ q.tasks[k].st = "running"
  BY PendingType DEF Running
<1>2. q.tasks[k] \in TaskType(S)
  BY <1>1, ElementOfSeq
<1>3. t \in TaskType(S) /\ t.input = q.tasks[k].input /\ t.st # "running"
  BY <1>2 DEF TaskType, Outcomes
<1>4. /\ p.tasks = [q.tasks EXCEPT ![k] = t]
      /\ p = [q EXCEPT !.tasks = [q.tasks EXCEPT ![k] = t], !.completed = q.completed + 1]
      /\ p.results = q.results
      /\ p.completed = q.completed + 1
      /\ q.completed + 1 \in Nat
  BY DEF Resolve, QueueType
<1> HIDE DEF t, p
<1>5. /\ p.tasks \in Seq(TaskType(S))
      /\ Len(p.tasks) = Len(q.tasks)
      /\ \A j \in 1..Len(q.tasks) : p.tasks[j] = IF j = k THEN t ELSE q.tasks[j]
  BY <1>1, <1>3, <1>4, ExceptSeq
<1>6. p \in QueueType(S)
  BY <1>4, <1>5 DEF QueueType
<1>7. Finished(p) = Finished(q) \cup {k} /\ k \notin Finished(q)
  BY <1>1, <1>3, <1>5 DEF Finished
<1>8. \A j \in 1..Len(q.tasks) : p.tasks[j].input = q.tasks[j].input
  BY <1>3, <1>5
<1>9. Pending(p) = Pending(q)
  BY <1>4, <1>5, <1>6, <1>8, SameInputs
<1>10. QED
  BY <1>4, <1>5, <1>6, <1>7, <1>9 DEF p

\* Clear empties the queue, whatever the counter says.
LEMMA ClearFacts ==
  ASSUME NEW S, NEW q \in QueueType(S)
  PROVE  /\ Clear(q) \in QueueType(S)
         /\ Clear(q).tasks = <<>> /\ Clear(q).results = <<>>
         /\ Pending(Clear(q)) = <<>>
         /\ Finished(Clear(q)) = {}
         /\ Clear(q).completed = q.completed
         /\ Clear(q).errored = q.errored
<1> DEFINE d == q.detached + Cardinality(Running(q))
<1>1. d \in Nat /\ <<>> \in Seq(TaskType(S)) /\ <<>> \in Seq(S)
  BY FinishedFinite DEF QueueType
<1> HIDE DEF d
<1>2. Clear(q) = [q EXCEPT !.tasks = <<>>, !.results = <<>>, !.detached = d]
  BY DEF Clear, d
<1>3. /\ Clear(q) \in QueueType(S)
      /\ Clear(q).tasks = <<>> /\ Clear(q).results = <<>>
      /\ Clear(q).completed = q.completed /\ Clear(q).errored = q.errored
  BY <1>1, <1>2 DEF QueueType
<1>4. Pending(Clear(q)) = <<>> /\ Finished(Clear(q)) = {}
  BY <1>3 DEF Pending, TaskInputs, Finished
<1>5. QED
  BY <1>3, <1>4

\* Retrieve lowers the counter and nothing else.
LEMMA RetrieveFacts ==
  ASSUME NEW S, NEW q \in QueueType(S), q.completed >= 1
  PROVE  /\ Retrieve(q) \in QueueType(S)
         /\ Retrieve(q).tasks = q.tasks /\ Retrieve(q).results = q.results
         /\ Retrieve(q).completed = q.completed - 1
         /\ Retrieve(q).errored = q.errored
         /\ Pending(Retrieve(q)) = Pending(q)
         /\ Finished(Retrieve(q)) = Finished(q)
         /\ FrontReady(Retrieve(q)) = FrontReady(q)
<1>1. /\ Retrieve(q) \in QueueType(S)
      /\ Retrieve(q).tasks = q.tasks /\ Retrieve(q).results = q.results
      /\ Retrieve(q).completed = q.completed - 1
      /\ Retrieve(q).errored = q.errored
  BY DEF Retrieve, QueueType
<1>2. QED
  BY <1>1 DEF Pending, TaskInputs, Finished, FrontReady

\* Removing a finished front task shifts the others by one place and lowers
\* the number of finished tasks by one.
LEMMA PopFrontFacts ==
  ASSUME NEW S, NEW q \in QueueType(S), FrontReady(q)
  PROVE  /\ PopFront(q) \in QueueType(S)
         /\ TaskInputs(PopFront(q)) = Tail(TaskInputs(q))
         /\ TaskInputs(q) # <<>>
         /\ Head(TaskInputs(q)) = q.tasks[1].input
         /\ Cardinality(Finished(PopFront(q))) = Cardinality(Finished(q)) - 1
         /\ Len(PopFront(q).tasks) = Len(q.tasks) - 1
<1> DEFINE p == PopFront(q)
<1>1. q.tasks \in Seq(TaskType(S)) /\ q.tasks # <<>>
  BY PendingType DEF FrontReady
<1>2. p.tasks = Tail(q.tasks) /\ p = [q EXCEPT !.tasks = Tail(q.tasks)]
  BY DEF PopFront, QueueType
<1>3. /\ Tail(q.tasks) \in Seq(TaskType(S))
      /\ Len(Tail(q.tasks)) = Len(q.tasks) - 1
      /\ Len(q.tasks) \in Nat \ {0}
      /\ \A k \in 1..(Len(q.tasks) - 1) : Tail(q.tasks)[k] = q.tasks[k + 1]
  BY <1>1, HeadTailProperties, EmptySeq
<1>4. p \in QueueType(S)
  BY <1>2, <1>3 DEF QueueType
<1>5. /\ TaskInputs(q) \in Seq(S) /\ Len(TaskInputs(q)) = Len(q.tasks)
      /\ TaskInputs(p) \in Seq(S) /\ Len(TaskInputs(p)) = Len(q.tasks) - 1
  BY <1>2, <1>3, <1>4, PendingType
<1>6. TaskInputs(q) # <<>> /\ Head(TaskInputs(q)) = q.tasks[1].input
  BY <1>3, <1>5 DEF TaskInputs
<1>7. TaskInputs(p) = Tail(TaskInputs(q))
  <2>1. /\ Tail(TaskInputs(q)) \in Seq(S)
        /\ Len(Tail(TaskInputs(q))) = Len(q.tasks) - 1
        /\ \A k \in 1..(Len(q.tasks) - 1) : Tail(TaskInputs(q))[k] = TaskInputs(q)[k + 1]
    BY <1>5, <1>6, HeadTailProperties
  <2>2. \A k \in 1..(Len(q.tasks) - 1) : TaskInputs(p)[k] = TaskInputs(q)[k + 1]
    BY <1>2, <1>3 DEF TaskInputs
  <2>3. QED
    BY <1>5, <2>1, <2>2, SeqEqual
<1>8. Cardinality(Finished(p)) = Cardinality(Finished(q)) - 1
  <2> DEFINE F == Finished(q) \ {1}
             f == [k \in Finished(p) |-> k + 1]
  <2>1. IsFiniteSet(Finished(p))
    BY <1>4, FinishedFinite
  <2>2. f \in [Finished(p) -> F]
    BY <1>2, <1>3 DEF Finished
  <2>3. \A a, b \in Finished(p) : f[a] = f[b] => a = b
    BY DEF Finished
  <2>4. ASSUME NEW y \in F PROVE \E x \in Finished(p) : f[x] = y
    <3>1. y \in 2..Len(q.tasks) /\ q.tasks[y].st # "running"
      BY <1>3 DEF Finished
    <3>2. y - 1 \in Finished(p)
      BY <1>2, <1>3, <3>1 DEF Finished
    <3>3. f[y - 1] = y
      BY <3>1, <3>2
    <3>4. QED
      BY <3>2, <3>3
  <2>5. f \in Bijection(Finished(p), F)
    BY <2>2, <2>3, <2>4 DEF Bijection, Injection, Surjection, IsInjective
  <2>6. Cardinality(F) = Cardinality(Finished(p))
    BY <2>1, <2>5, FS_Bijection DEF ExistsBijection
  <2>7. Cardinality(F) = Cardinality(Finished(q)) - 1
    BY FrontCounted, FinishedFinite, FS_RemoveElement
  <2>8. QED
    BY <2>6, <2>7
<1>9. QED
  BY <1>2, <1>3, <1>4, <1>6, <1>7, <1>8

\* Moving the front task's output to the results keeps the pending inputs.
LEMMA FrontToResultsFacts ==
  ASSUME NEW S, NEW q \in QueueType(S), FrontReady(q), q.completed >= 1
  PROVE  /\ FrontToResults(q) \in QueueType(S)
         /\ Pending(FrontToResults(q)) = Pending(q)
         /\ Cardinality(Finished(FrontToResults(q))) = Cardinality(Finished(q)) - 1
         /\ FrontToResults(q).completed = q.completed - 1
         /\ FrontToResults(q).errored = q.errored
         /\ Len(FrontToResults(q).tasks) = Len(q.tasks) - 1
<1> DEFINE i == q.tasks[1].input
           a == [Retrieve(q) EXCEPT !.results = Append(@, i)]
<1>1. i \in S
  <2>1. q.tasks \in Seq(TaskType(S)) /\ 1 \in 1..Len(q.tasks)
    BY PendingType, FrontCounted DEF Finished
  <2>2. q.tasks[1] \in TaskType(S)
    BY <2>1, ElementOfSeq
  <2>3. QED
    BY <2>2 DEF TaskType
<1>2. /\ Retrieve(q) \in QueueType(S)
      /\ Retrieve(q).tasks = q.tasks /\ Retrieve(q).results = q.results
      /\ Retrieve(q).completed = q.completed - 1
      /\ Retrieve(q).errored = q.errored
  BY RetrieveFacts
<1>3. q.results \in Seq(S) /\ Append(q.results, i) \in Seq(S)
  BY <1>1, PendingType, AppendProperties
<1>4. a = [Retrieve(q) EXCEPT !.results = Append(q.results, i)]
  BY <1>2
<1> HIDE DEF i, a
<1>5. /\ a \in QueueType(S)
      /\ a.tasks = q.tasks /\ a.results = Append(q.results, i)
      /\ a.completed = q.completed - 1 /\ a.errored = q.errored
  BY <1>2, <1>3, <1>4 DEF QueueType
<1>6. FrontReady(a) /\ Finished(a) = Finished(q) /\ TaskInputs(a) = TaskInputs(q)
  BY <1>5 DEF FrontReady, Finished, TaskInputs
<1>7. FrontToResults(q) = PopFront(a)
  BY DEF FrontToResults, a, i
<1>8. /\ PopFront(a) \in QueueType(S)
      /\ TaskInputs(PopFront(a)) = Tail(TaskInputs(q))
      /\ TaskInputs(q) # <<>>
      /\ Head(TaskInputs(q)) = i
      /\ Cardinality(Finished(PopFront(a))) = Cardinality(Finished(q)) - 1
      /\ Len(PopFront(a).tasks) = Len(q.tasks) - 1
  BY <1>5, <1>6, PopFrontFacts DEF i
<1>9. /\ PopFront(a).results = Append(q.results, i)
      /\ PopFront(a).completed = q.completed - 1
      /\ PopFront(a).errored = q.errored
  BY <1>5 DEF PopFront, QueueType
<1>10. Append(q.results, i) \o Tail(TaskInputs(q)) = q.results \o TaskInputs(q)
  <2>1. TaskInputs(q) \in Seq(S)
    BY PendingType
  <2>2. \A r, t \in Seq(S) : t # <<>> => Append(r, Head(t)) \o Tail(t) = r \o t
    BY ConcatFacts
  <2>3. QED
    BY <1>3, <1>8, <2>1, <2>2, Zenon
<1>11. QED
  BY <1>7, <1>8, <1>9, <1>10 DEF Pending

\* Handing the front task's output to the owner, with no result buffered,
\* takes the first pending input.
LEMMA FrontToOwnerFacts ==
  ASSUME NEW S, NEW q \in QueueType(S), FrontReady(q), q.completed >= 1,
         q.results = <<>>
  PROVE  /\ FrontToOwner(q) \in QueueType(S)
         /\ Pending(q) # <<>>
         /\ Head(Pending(q)) = q.tasks[1].input
         /\ Pending(FrontToOwner(q)) = Tail(Pending(q))
         /\ Cardinality(Finished(FrontToOwner(q))) = Cardinality(Finished(q)) - 1
         /\ FrontToOwner(q).completed = q.completed - 1
         /\ FrontToOwner(q).errored = q.errored
         /\ Len(FrontToOwner(q).tasks) = Len(q.tasks) - 1
<1> DEFINE a == Retrieve(q)
<1>1. /\ a \in QueueType(S)
      /\ a.tasks = q.tasks /\ a.results = <<>>
      /\ a.completed = q.completed - 1 /\ a.errored = q.errored
      /\ Finished(a) = Finished(q) /\ FrontReady(a)
  BY RetrieveFacts
<1>2. TaskInputs(a) = TaskInputs(q)
  BY <1>1 DEF TaskInputs
<1>3. FrontToOwner(q) = PopFront(a)
  BY DEF FrontToOwner
<1> HIDE DEF a
<1>4. /\ PopFront(a) \in QueueType(S)
      /\ TaskInputs(PopFront(a)) = Tail(TaskInputs(q))
      /\ TaskInputs(q) # <<>>
      /\ Head(TaskInputs(q)) = q.tasks[1].input
      /\ Cardinality(Finished(PopFront(a))) = Cardinality(Finished(q)) - 1
      /\ Len(PopFront(a).tasks) = Len(q.tasks) - 1
  BY <1>1, <1>2, PopFrontFacts
<1>5. /\ PopFront(a).results = <<>>
      /\ PopFront(a).completed = q.completed - 1
      /\ PopFront(a).errored = q.errored
  BY <1>1 DEF PopFront, QueueType
<1>6. \A t \in Seq(S) : <<>> \o t = t
  BY ConcatEmptySeq
<1>7. TaskInputs(q) \in Seq(S) /\ Tail(TaskInputs(q)) \in Seq(S)
  BY <1>4, PendingType, HeadTailProperties
<1>8. Pending(q) = TaskInputs(q) /\ Pending(PopFront(a)) = Tail(TaskInputs(q))
  BY <1>4, <1>5, <1>6, <1>7, Zenon DEF Pending
<1>9. QED
  BY <1>3, <1>4, <1>5, <1>8

\* The error arm: a relaunched front task, or a cleared and broken queue.
LEMMA FrontErrorFacts ==
  ASSUME NEW S, NEW q \in QueueType(S), FrontReady(q), q.completed >= 1
  PROVE  /\ FrontError(q) \in QueueType(S)
         /\ FrontError(q).completed = q.completed - 1
         /\ q.tasks[1].st = "temp" =>
              /\ Pending(FrontError(q)) = Pending(q)
              /\ Cardinality(Finished(FrontError(q))) = Cardinality(Finished(q)) - 1
              /\ FrontError(q).errored = q.errored
              /\ Len(FrontError(q).tasks) = Len(q.tasks)
              /\ FrontError(q).results = q.results
         /\ q.tasks[1].st # "temp" =>
              /\ Pending(FrontError(q)) = <<>>
              /\ FrontError(q).tasks = <<>> /\ FrontError(q).results = <<>>
              /\ Finished(FrontError(q)) = {}
              /\ FrontError(q).errored
<1> DEFINE a == Retrieve(q)
<1>1. /\ a \in QueueType(S)
      /\ a.tasks = q.tasks /\ a.results = q.results
      /\ a.completed = q.completed - 1 /\ a.errored = q.errored
      /\ Finished(a) = Finished(q) /\ FrontReady(a)
      /\ Pending(a) = Pending(q)
  BY RetrieveFacts
<1> HIDE DEF a
<1>2. CASE q.tasks[1].st = "temp"
  <2>1. FrontError(q) = Relaunch(a)
    BY <1>2 DEF FrontError, a
  <2>2. /\ Relaunch(a) \in QueueType(S)
        /\ Pending(Relaunch(a)) = Pending(q)
        /\ Finished(Relaunch(a)) = Finished(q) \ {1}
        /\ Len(Relaunch(a).tasks) = Len(q.tasks)
    BY <1>1, RelaunchFacts
  <2>3. /\ Relaunch(a).completed = q.completed - 1 /\ Relaunch(a).errored = q.errored
        /\ Relaunch(a).results = q.results
    BY <1>1 DEF Relaunch, QueueType
  <2>4. Cardinality(Finished(q) \ {1}) = Cardinality(Finished(q)) - 1
    BY FrontCounted, FinishedFinite, FS_RemoveElement
  <2>5. QED
    BY <1>2, <2>1, <2>2, <2>3, <2>4
<1>3. CASE q.tasks[1].st # "temp"
  <2>1. FrontError(q) = [Clear(a) EXCEPT !.errored = TRUE]
    BY <1>3 DEF FrontError, Fail, a
  <2>2. /\ Clear(a) \in QueueType(S)
        /\ Clear(a).tasks = <<>> /\ Clear(a).results = <<>>
        /\ Clear(a).completed = q.completed - 1
    BY <1>1, ClearFacts
  <2>3. /\ FrontError(q) \in QueueType(S)
        /\ FrontError(q).tasks = <<>> /\ FrontError(q).results = <<>>
        /\ FrontError(q).completed = q.completed - 1
        /\ FrontError(q).errored
    BY <2>1, <2>2 DEF QueueType
  <2>4. Pending(FrontError(q)) = <<>> /\ Finished(FrontError(q)) = {}
    BY <2>3 DEF Pending, TaskInputs, Finished
  <2>5. QED
    BY <1>3, <2>3, <2>4
<1>4. QED
  BY <1>2, <1>3

\* Only Clear and the end of a detached future touch `detached`.
LEMMA DetachedKept ==
  ASSUME NEW S, NEW q \in QueueType(S), NEW i, NEW k, NEW o
  PROVE  /\ PushTask(q, i).detached = q.detached
         /\ Resolve(q, k, o).detached = q.detached
         /\ FrontToResults(q).detached = q.detached
         /\ FrontToOwner(q).detached = q.detached
         /\ PushTask(FrontToResults(q), i).detached = q.detached
         /\ q.tasks[1].st = "temp" => FrontError(q).detached = q.detached
<1>1. /\ PushTask(q, i).detached = q.detached
      /\ Resolve(q, k, o).detached = q.detached
  BY DEF QueueType, PushTask, Resolve
<1>2. FrontToResults(q).detached = q.detached
  BY DEF QueueType, FrontToResults, PopFront, Retrieve
<1>3. FrontToOwner(q).detached = q.detached
  BY DEF QueueType, FrontToOwner, PopFront, Retrieve
<1>4. PushTask(FrontToResults(q), i).detached = q.detached
  BY DEF QueueType, FrontToResults, PopFront, Retrieve, PushTask
<1>5. q.tasks[1].st = "temp" => FrontError(q).detached = q.detached
  BY DEF QueueType, FrontError, Relaunch, Retrieve
<1>6. QED
  BY <1>1, <1>2, <1>3, <1>4, <1>5

---------------------------------------------------------------------------
(* What an owner of a queue relies on, and what each method does to it.    *)

\* Running and finished tasks together are all tasks.
LEMMA RunningFinished ==
  ASSUME NEW S, NEW q \in QueueType(S)
  PROVE  Cardinality(Running(q)) = Len(q.tasks) - Cardinality(Finished(q))
<1>1. Len(q.tasks) \in Nat
  BY PendingType, LenProperties
<1>2. IsFiniteSet(1..Len(q.tasks)) /\ Cardinality(1..Len(q.tasks)) = Len(q.tasks)
  BY <1>1, FS_Interval
<1>3. Running(q) = (1..Len(q.tasks)) \ Finished(q) /\ Finished(q) \subseteq 1..Len(q.tasks)
  BY DEF Running, Finished
<1>4. Finished(q) = (1..Len(q.tasks)) \cap Finished(q)
  BY <1>3
<1>5. Cardinality(Running(q))
        = Cardinality(1..Len(q.tasks)) - Cardinality((1..Len(q.tasks)) \cap Finished(q))
  BY <1>2, <1>3, FS_Difference
<1> QED
  BY <1>2, <1>4, <1>5

\* The tasks of a queue, in no order.
TaskSet(q) == {q.tasks[k] : k \in 1..Len(q.tasks)}

\* The outputs that are there: buffered, or of a task that resolved.
Ready(q) ==
  {q.results[k] : k \in 1..Len(q.results)} \cup {t.input : t \in {u \in TaskSet(q) : u.st = "ok"}}

\* The counter covers the finished tasks, and a broken queue is empty.
SoundQueue(S, q) ==
  /\ q \in QueueType(S)
  /\ Cardinality(Finished(q)) <= q.completed
  /\ q.errored => q.tasks = <<>> /\ q.results = <<>>

\* Tasks and outputs are of inputs.
LEMMA ReadyType ==
  ASSUME NEW S, NEW q \in QueueType(S)
  PROVE  /\ \A t \in TaskSet(q) : t \in TaskType(S) /\ t.input \in S
         /\ \A i \in Ready(q) : i \in S
<1>1. q.tasks \in Seq(TaskType(S)) /\ q.results \in Seq(S)
  BY DEF QueueType
<1>2. \A t \in TaskSet(q) : t \in TaskType(S)
  BY <1>1, ElementOfSeq DEF TaskSet
<1>3. \A t \in TaskType(S) : t.input \in S
  BY DEF TaskType
<1>4. \A k \in 1..Len(q.results) : q.results[k] \in S
  BY <1>1, ElementOfSeq
<1> QED
  BY <1>2, <1>3, <1>4 DEF Ready

\* A new queue is sound and empty.
LEMMA NewSound ==
  ASSUME NEW S
  PROVE  /\ SoundQueue(S, NewQueue) /\ Pending(NewQueue) = <<>> /\ Ready(NewQueue) = {}
         /\ TaskSet(NewQueue) = {} /\ NewQueue.tasks = <<>> /\ NewQueue.results = <<>>
         /\ ~NewQueue.errored /\ NewQueue.completed = 0
<1>1. /\ NewQueue.tasks = <<>> /\ NewQueue.results = <<>> /\ NewQueue.completed = 0
      /\ ~NewQueue.errored
  BY DEF NewQueue
<1>2. SoundQueue(S, NewQueue) /\ Pending(NewQueue) = <<>>
  BY <1>1, NewQueueFacts DEF SoundQueue
<1>3. TaskSet(NewQueue) = {}
  BY <1>1 DEF TaskSet
<1>4. Ready(NewQueue) = {}
  BY <1>1, <1>3 DEF Ready
<1> QED
  BY <1>1, <1>2, <1>3, <1>4

\* The front task is one of the tasks.
LEMMA FrontInTasks ==
  ASSUME NEW S, NEW q \in QueueType(S), FrontReady(q)
  PROVE  /\ q.tasks[1] \in TaskSet(q) /\ q.tasks[1] \in TaskType(S)
         /\ q.tasks[1].input \in S /\ q.tasks[1].st \in Outcomes
         /\ q.tasks[1].st = "ok" => q.tasks[1].input \in Ready(q)
<1>1. q.tasks \in Seq(TaskType(S)) /\ 1 \in 1..Len(q.tasks)
  BY PendingType, FrontCounted DEF Finished
<1>2. q.tasks[1] \in TaskType(S)
  BY <1>1, ElementOfSeq
<1>3. q.tasks[1] \in TaskSet(q)
  BY <1>1 DEF TaskSet
<1> QED
  BY <1>2, <1>3 DEF TaskType, Ready, FrontReady

\* execute: a task more.
LEMMA PushSound ==
  ASSUME NEW S, NEW q, SoundQueue(S, q), NEW i \in S, ~q.errored
  PROVE  LET p == PushTask(q, i) IN
         /\ SoundQueue(S, p) /\ ~p.errored /\ p.completed = q.completed
         /\ p.results = q.results /\ p.tasks # <<>>
         /\ Len(p.tasks) = Len(q.tasks) + 1 /\ Finished(p) = Finished(q)
         /\ Pending(p) = Append(Pending(q), i)
         /\ TaskSet(p) = TaskSet(q) \cup {NewTask(i)}
         /\ Ready(p) = Ready(q)
<1> DEFINE p == PushTask(q, i)
<1>0. q \in QueueType(S) /\ q.tasks \in Seq(TaskType(S)) /\ NewTask(i) \in TaskType(S)
  BY PendingType DEF SoundQueue, NewTask, TaskType
<1>1. /\ p \in QueueType(S) /\ Pending(p) = Append(Pending(q), i)
      /\ Finished(p) = Finished(q) /\ Len(p.tasks) = Len(q.tasks) + 1 /\ p.tasks # <<>>
  BY <1>0, PushTaskFacts
<1>2. /\ p.results = q.results /\ p.completed = q.completed /\ p.errored = q.errored
      /\ p.tasks = Append(q.tasks, NewTask(i))
  BY <1>0 DEF PushTask, QueueType
<1> HIDE DEF p
<1>3. TaskSet(p) = TaskSet(q) \cup {NewTask(i)}
  BY <1>0, <1>1, <1>2, AppendProperties DEF TaskSet
<1>4. Ready(p) = Ready(q)
  BY <1>2, <1>3 DEF Ready, NewTask
<1>5. SoundQueue(S, p)
  BY <1>1, <1>2 DEF SoundQueue
<1> QED
  BY <1>1, <1>2, <1>3, <1>4, <1>5 DEF p

\* The executor resolves a task: its output is there if it succeeded.
LEMMA ResolveSound ==
  ASSUME NEW S, NEW q, SoundQueue(S, q), NEW k \in Running(q), NEW o \in Outcomes
  PROVE  LET p == Resolve(q, k, o) IN
         /\ SoundQueue(S, p) /\ p.errored = q.errored /\ p.completed = q.completed + 1
         /\ p.results = q.results /\ p.tasks # <<>> /\ q.tasks # <<>>
         /\ Len(p.tasks) = Len(q.tasks)
         /\ Cardinality(Finished(p)) = Cardinality(Finished(q)) + 1
         /\ Pending(p) = Pending(q)
         /\ q.tasks[k] \in TaskSet(q) /\ q.tasks[k].input \in S
         /\ TaskSet(p) \subseteq TaskSet(q) \cup {[input |-> q.tasks[k].input, st |-> o]}
         /\ Ready(p) \subseteq Ready(q) \cup (IF o = "ok" THEN {q.tasks[k].input} ELSE {})
<1> DEFINE p == Resolve(q, k, o)
<1>0. /\ q \in QueueType(S) /\ q.tasks \in Seq(TaskType(S))
      /\ k \in 1..Len(q.tasks) /\ q.tasks[k] \in TaskType(S)
  BY PendingType, ElementOfSeq DEF SoundQueue, Running
<1>1. /\ p \in QueueType(S) /\ Pending(p) = Pending(q)
      /\ Finished(p) = Finished(q) \cup {k} /\ k \notin Finished(q)
      /\ Len(p.tasks) = Len(q.tasks) /\ p.completed = q.completed + 1
  BY <1>0, ResolveFacts
<1>2. /\ p.results = q.results /\ p.errored = q.errored
      /\ p.tasks = [q.tasks EXCEPT ![k] = [q.tasks[k] EXCEPT !.st = o]]
  BY <1>0 DEF Resolve, QueueType
<1> HIDE DEF p
<1>3. Cardinality(Finished(p)) = Cardinality(Finished(q)) + 1
  BY <1>0, <1>1, FinishedFinite, FS_AddElement
<1>4. [q.tasks[k] EXCEPT !.st = o] = [input |-> q.tasks[k].input, st |-> o]
  BY <1>0 DEF TaskType
<1>5. TaskSet(p) \subseteq TaskSet(q) \cup {[input |-> q.tasks[k].input, st |-> o]}
  BY <1>0, <1>1, <1>2, <1>4 DEF TaskSet
<1>6. Ready(p) \subseteq Ready(q) \cup (IF o = "ok" THEN {q.tasks[k].input} ELSE {})
  BY <1>2, <1>5 DEF Ready
<1>7. SoundQueue(S, p)
  <2>1. Cardinality(Finished(q)) \in Nat /\ q.completed \in Nat
    BY <1>0, FinishedFinite DEF QueueType
  <2>2. ~q.errored
    BY <1>0 DEF SoundQueue
  <2> QED
    BY <1>1, <1>2, <1>3, <2>1, <2>2 DEF SoundQueue
<1>8. q.tasks # <<>> /\ p.tasks # <<>>
  BY <1>0, <1>1
<1> QED
  BY <1>0, <1>1, <1>2, <1>3, <1>5, <1>6, <1>7, <1>8 DEF p, TaskSet, TaskType

\* execute collects the front task's output: it stays pending.
LEMMA MoveSound ==
  ASSUME NEW S, NEW q, SoundQueue(S, q), FrontReady(q), q.tasks[1].st = "ok"
  PROVE  LET p == FrontToResults(q) IN
         /\ SoundQueue(S, p) /\ p.errored = q.errored /\ ~q.errored
         /\ p.completed = q.completed - 1
         /\ Cardinality(Finished(p)) = Cardinality(Finished(q)) - 1
         /\ Len(p.tasks) = Len(q.tasks) - 1
         /\ Pending(p) = Pending(q)
         /\ TaskSet(p) \subseteq TaskSet(q) /\ Ready(p) \subseteq Ready(q)
<1> DEFINE p == FrontToResults(q)
           i == q.tasks[1].input
<1>0. /\ q \in QueueType(S) /\ q.tasks \in Seq(TaskType(S)) /\ q.results \in Seq(S)
      /\ ~q.errored /\ q.completed \in Nat /\ q.tasks # <<>>
  BY PendingType DEF SoundQueue, FrontReady, QueueType
<1>1. /\ Cardinality(Finished(q)) \in Nat /\ Cardinality(Finished(q)) >= 1
      /\ q.completed >= 1
  BY <1>0, FinishedFinite, FrontCounted DEF SoundQueue
<1>2. /\ p \in QueueType(S) /\ Pending(p) = Pending(q)
      /\ Cardinality(Finished(p)) = Cardinality(Finished(q)) - 1
      /\ p.completed = q.completed - 1 /\ p.errored = q.errored
      /\ Len(p.tasks) = Len(q.tasks) - 1
  BY <1>0, <1>1, FrontToResultsFacts
<1>3. p.tasks = Tail(q.tasks) /\ p.results = Append(q.results, i)
  BY <1>0 DEF FrontToResults, PopFront, Retrieve, QueueType
<1>4. i \in S /\ i \in Ready(q)
  BY <1>0, FrontInTasks
<1> HIDE DEF p, i
<1>5. TaskSet(p) \subseteq TaskSet(q)
  BY <1>0, <1>3, HeadTailProperties DEF TaskSet
<1>6. \A k \in 1..Len(p.results) : p.results[k] \in Ready(q)
  <2>1. /\ Len(p.results) = Len(q.results) + 1
        /\ \A k \in 1..Len(q.results) : p.results[k] = q.results[k]
        /\ p.results[Len(q.results) + 1] = i
    BY <1>0, <1>3, <1>4, AppendProperties
  <2> QED
    BY <1>0, <1>4, <2>1 DEF Ready
<1>7. Ready(p) \subseteq Ready(q)
  BY <1>5, <1>6 DEF Ready
<1>8. SoundQueue(S, p)
  BY <1>0, <1>1, <1>2 DEF SoundQueue
<1> QED
  BY <1>0, <1>2, <1>5, <1>7, <1>8 DEF p

\* next hands out the front task's output, which is the oldest one pending.
LEMMA TakeSound ==
  ASSUME NEW S, NEW q, SoundQueue(S, q), FrontReady(q), q.tasks[1].st = "ok",
         q.results = <<>>
  PROVE  LET p == FrontToOwner(q) IN
         /\ SoundQueue(S, p) /\ p.errored = q.errored /\ ~q.errored
         /\ p.completed = q.completed - 1 /\ p.results = <<>>
         /\ Cardinality(Finished(p)) = Cardinality(Finished(q)) - 1
         /\ Len(p.tasks) = Len(q.tasks) - 1
         /\ Pending(q) # <<>> /\ Head(Pending(q)) = q.tasks[1].input
         /\ Pending(p) = Tail(Pending(q))
         /\ TaskSet(p) \subseteq TaskSet(q) /\ Ready(p) \subseteq Ready(q)
<1> DEFINE p == FrontToOwner(q)
<1>0. /\ q \in QueueType(S) /\ q.tasks \in Seq(TaskType(S))
      /\ ~q.errored /\ q.completed \in Nat /\ q.tasks # <<>>
  BY PendingType DEF SoundQueue, FrontReady, QueueType
<1>1. /\ Cardinality(Finished(q)) \in Nat /\ Cardinality(Finished(q)) >= 1
      /\ q.completed >= 1
  BY <1>0, FinishedFinite, FrontCounted DEF SoundQueue
<1>2. /\ p \in QueueType(S) /\ Pending(p) = Tail(Pending(q))
      /\ Pending(q) # <<>> /\ Head(Pending(q)) = q.tasks[1].input
      /\ Cardinality(Finished(p)) = Cardinality(Finished(q)) - 1
      /\ p.completed = q.completed - 1 /\ p.errored = q.errored
      /\ Len(p.tasks) = Len(q.tasks) - 1
  BY <1>0, <1>1, FrontToOwnerFacts
<1>3. p.tasks = Tail(q.tasks) /\ p.results = <<>>
  BY <1>0 DEF FrontToOwner, PopFront, Retrieve, QueueType
<1> HIDE DEF p
<1>5. TaskSet(p) \subseteq TaskSet(q)
  BY <1>0, <1>3, HeadTailProperties DEF TaskSet
<1>7. Ready(p) \subseteq Ready(q)
  BY <1>3, <1>5 DEF Ready
<1>8. SoundQueue(S, p)
  BY <1>0, <1>1, <1>2 DEF SoundQueue
<1> QED
  BY <1>0, <1>2, <1>3, <1>5, <1>7, <1>8 DEF p

\* next hands out a buffered result, the oldest one pending.
LEMMA BufferedSound ==
  ASSUME NEW S, NEW q, SoundQueue(S, q), HasResult(q),
         NEW p, p = [q EXCEPT !.results = Tail(q.results)]
  PROVE  /\ SoundQueue(S, p) /\ p.errored = q.errored /\ ~q.errored
         /\ p.completed = q.completed
         /\ p.tasks = q.tasks /\ Finished(p) = Finished(q)
         /\ Pending(q) # <<>> /\ Head(Pending(q)) = Head(q.results)
         /\ Head(q.results) \in Ready(q) /\ Head(q.results) \in S
         /\ Pending(p) = Tail(Pending(q))
         /\ TaskSet(p) = TaskSet(q) /\ Ready(p) \subseteq Ready(q)
<1>0. /\ q \in QueueType(S) /\ q.results \in Seq(S) /\ q.results # <<>>
      /\ TaskInputs(q) \in Seq(S) /\ ~q.errored
  BY PendingType DEF SoundQueue, HasResult
<1>1. /\ Tail(q.results) \in Seq(S) /\ Len(Tail(q.results)) = Len(q.results) - 1
      /\ Head(q.results) \in S /\ Head(q.results) = q.results[1]
      /\ 1 \in 1..Len(q.results)
      /\ \A k \in 1..(Len(q.results) - 1) : Tail(q.results)[k] = q.results[k + 1]
  BY <1>0, HeadTailProperties
<1>2. /\ p.results = Tail(q.results) /\ p.tasks = q.tasks /\ p.completed = q.completed
      /\ p.errored = q.errored /\ p \in QueueType(S)
  BY <1>0, <1>1 DEF QueueType
<1>3. TaskSet(p) = TaskSet(q) /\ Finished(p) = Finished(q) /\ TaskInputs(p) = TaskInputs(q)
  BY <1>2 DEF TaskSet, Finished, TaskInputs
<1>4. Ready(p) \subseteq Ready(q) /\ Head(q.results) \in Ready(q)
  <2>1. Len(q.results) \in Nat /\ \A k \in 1..(Len(q.results) - 1) : k + 1 \in 1..Len(q.results)
    BY <1>0
  <2> QED
    BY <1>1, <1>2, <1>3, <2>1 DEF Ready
<1>5. \A r, t \in Seq(S) : r # <<>> =>
        /\ r \o t # <<>> /\ Head(r \o t) = Head(r) /\ Tail(r \o t) = Tail(r) \o t
  BY ConcatFacts
<1>6. /\ Pending(q) # <<>> /\ Head(Pending(q)) = Head(q.results)
      /\ Pending(p) = Tail(Pending(q))
  BY <1>0, <1>2, <1>3, <1>5, Zenon DEF Pending
<1>7. SoundQueue(S, p)
  BY <1>0, <1>2, <1>3 DEF SoundQueue
<1> QED
  BY <1>0, <1>1, <1>2, <1>3, <1>4, <1>6, <1>7

\* execute without concurrency: the output is buffered at once.
LEMMA InlineSound ==
  ASSUME NEW S, NEW q, SoundQueue(S, q), ~q.errored, q.tasks = <<>>, NEW i \in S,
         NEW p, p = [q EXCEPT !.results = Append(q.results, i)]
  PROVE  /\ SoundQueue(S, p) /\ ~p.errored /\ p.completed = q.completed
         /\ p.tasks = <<>> /\ p.results = Append(q.results, i)
         /\ Pending(p) = Append(Pending(q), i)
         /\ TaskSet(p) = TaskSet(q)
         /\ Ready(p) \subseteq Ready(q) \cup {i}
<1>0. q \in QueueType(S) /\ q.results \in Seq(S) /\ Append(q.results, i) \in Seq(S)
  BY PendingType, AppendProperties DEF SoundQueue
<1>1. /\ p.results = Append(q.results, i) /\ p.tasks = q.tasks /\ p.completed = q.completed
      /\ p.errored = q.errored /\ p \in QueueType(S)
  BY <1>0 DEF QueueType
<1>2. TaskSet(p) = TaskSet(q) /\ Finished(p) = Finished(q)
  BY <1>1 DEF TaskSet, Finished
<1>3. Ready(p) \subseteq Ready(q) \cup {i}
  <2>1. /\ Len(p.results) = Len(q.results) + 1
        /\ \A k \in 1..Len(q.results) : p.results[k] = q.results[k]
        /\ p.results[Len(q.results) + 1] = i
    BY <1>0, <1>1, AppendProperties
  <2> QED
    BY <1>0, <1>2, <2>1 DEF Ready
<1>4. TaskInputs(q) = <<>> /\ TaskInputs(p) = <<>>
  BY <1>1 DEF TaskInputs
<1>5. \A r \in Seq(S) : r \o <<>> = r
  OBVIOUS
<1>6. Pending(q) = q.results /\ Pending(p) = Append(q.results, i)
  BY <1>0, <1>1, <1>4, <1>5, Zenon DEF Pending
<1>7. SoundQueue(S, p)
  BY <1>1, <1>2 DEF SoundQueue
<1> QED
  BY <1>1, <1>2, <1>3, <1>6, <1>7

\* The front task failed: it is launched again, or the queue is broken.
LEMMA ErrorSound ==
  ASSUME NEW S, NEW q, SoundQueue(S, q), FrontReady(q)
  PROVE  LET p == FrontError(q) IN
         /\ SoundQueue(S, p) /\ ~q.errored
         /\ q.tasks[1].st = "temp" =>
              /\ ~p.errored /\ p.results = q.results
              /\ Len(p.tasks) = Len(q.tasks)
              /\ p.completed = q.completed - 1
              /\ Cardinality(Finished(p)) = Cardinality(Finished(q)) - 1
              /\ Pending(p) = Pending(q)
              /\ TaskSet(p) \subseteq TaskSet(q) \cup {NewTask(q.tasks[1].input)}
              /\ Ready(p) \subseteq Ready(q)
         /\ q.tasks[1].st # "temp" =>
              /\ p.errored /\ p.tasks = <<>> /\ p.results = <<>>
              /\ Pending(p) = <<>> /\ TaskSet(p) = {} /\ Ready(p) = {}
<1> DEFINE p == FrontError(q)
           t == NewTask(q.tasks[1].input)
<1>0. /\ q \in QueueType(S) /\ q.tasks \in Seq(TaskType(S))
      /\ ~q.errored /\ q.completed \in Nat /\ q.tasks # <<>> /\ 1 \in 1..Len(q.tasks)
  BY PendingType, FrontCounted DEF SoundQueue, FrontReady, QueueType, Finished
<1>1. /\ Cardinality(Finished(q)) \in Nat /\ Cardinality(Finished(q)) >= 1
      /\ q.completed >= 1
  BY <1>0, FinishedFinite, FrontCounted DEF SoundQueue
<1>2. /\ p \in QueueType(S) /\ p.completed = q.completed - 1
      /\ q.tasks[1].st = "temp" =>
              /\ Pending(p) = Pending(q)
              /\ Cardinality(Finished(p)) = Cardinality(Finished(q)) - 1
              /\ p.errored = q.errored
              /\ Len(p.tasks) = Len(q.tasks)
              /\ p.results = q.results
      /\ q.tasks[1].st # "temp" =>
              /\ Pending(p) = <<>>
              /\ p.tasks = <<>> /\ p.results = <<>>
              /\ Finished(p) = {}
              /\ p.errored
  BY <1>0, <1>1, FrontErrorFacts
<1>3. CASE q.tasks[1].st = "temp"
  <2>1. p.tasks = [q.tasks EXCEPT ![1] = t]
    BY <1>0, <1>3 DEF FrontError, Relaunch, Retrieve, QueueType
  <2>2. t.st = "running"
    BY DEF NewTask
  <2> HIDE DEF p, t
  <2>3. TaskSet(p) \subseteq TaskSet(q) \cup {t}
    BY <1>0, <1>2, <1>3, <2>1 DEF TaskSet
  <2>4. Ready(p) \subseteq Ready(q)
    BY <1>2, <1>3, <2>2, <2>3 DEF Ready
  <2>5. SoundQueue(S, p)
    BY <1>0, <1>1, <1>2, <1>3 DEF SoundQueue
  <2> QED
    BY <1>0, <1>2, <1>3, <2>3, <2>4, <2>5 DEF p, t
<1>4. CASE q.tasks[1].st # "temp"
  <2> HIDE DEF p
  <2>1. TaskSet(p) = {}
    BY <1>2, <1>4 DEF TaskSet
  <2>2. Ready(p) = {}
    BY <1>2, <1>4, <2>1 DEF Ready
  <2>3. Cardinality(Finished(p)) = 0
    BY <1>2, <1>4, FS_EmptySet
  <2>4. SoundQueue(S, p)
    BY <1>0, <1>1, <1>2, <1>4, <2>3 DEF SoundQueue
  <2> QED
    BY <1>0, <1>2, <1>4, <2>1, <2>2, <2>4 DEF p
<1> QED
  BY <1>3, <1>4

\* clear: nothing is left.
LEMMA ClearSound ==
  ASSUME NEW S, NEW q, SoundQueue(S, q)
  PROVE  LET p == Clear(q) IN
         /\ SoundQueue(S, p) /\ p.errored = q.errored /\ p.completed = q.completed
         /\ p.tasks = <<>> /\ p.results = <<>>
         /\ Pending(p) = <<>> /\ TaskSet(p) = {} /\ Ready(p) = {}
<1> DEFINE p == Clear(q)
<1>1. /\ p \in QueueType(S) /\ p.tasks = <<>> /\ p.results = <<>> /\ Finished(p) = {}
      /\ p.completed = q.completed /\ p.errored = q.errored /\ Pending(p) = <<>>
  BY ClearFacts DEF SoundQueue
<1>2. q.completed \in Nat /\ Cardinality(Finished(p)) = 0
  BY <1>1, FS_EmptySet DEF SoundQueue, QueueType
<1> HIDE DEF p
<1>3. TaskSet(p) = {}
  BY <1>1 DEF TaskSet
<1>4. Ready(p) = {}
  BY <1>1, <1>3 DEF Ready
<1> QED
  BY <1>1, <1>2, <1>3, <1>4 DEF p, SoundQueue
=============================================================================
