----------------------------- MODULE TaskQueue -----------------------------
(***************************************************************************)
(* The data structure ConcurrentTasks of core/src/raw/futures_util.rs, as  *)
(* a record and the effect of each piece of its methods on it.  A module   *)
(* that owns a ConcurrentTasks (the state machine of the structure itself, *)
(* the multipart writer, ...) keeps one such record in a variable and      *)
(* splits a method at its `.await`.                                        *)
(*                                                                         *)
(*   tasks      VecDeque<Task>: the handles, oldest first.  A task is      *)
(*              "running" until its future has resolved to "ok", to a      *)
(*              temporary error "temp" or to another error "perm".         *)
(*   results    VecDeque<O>: outputs collected by `execute`, not yet       *)
(*              fetched by `next`.  An output is named by its input.       *)
(*   completed  completed_but_unretrieved, the shared atomic counter.      *)
(*   errored    set for good by the first error that is not temporary.     *)
(*   detached   futures whose handle was dropped while they ran.  The      *)
(*              executor drops such a future the next time it polls it,    *)
(*              but a poll that is under way may still finish it and bump  *)
(*              the counter.                                               *)
(*                                                                         *)
(* `create_task` bumps the counter inside the future, just before the      *)
(* handle can see the result: the two are one step here, since the owner   *)
(* observes the handle only by awaiting it.                                *)
(***************************************************************************)
EXTENDS Naturals, Sequences, FiniteSets

Outcomes == {"ok", "temp", "perm"}

TaskType(Inputs) == [input : Inputs, st : {"running"} \cup Outcomes]

QueueType(Inputs) ==
  [tasks     : Seq(TaskType(Inputs)),
   results   : Seq(Inputs),
   completed : Nat,
   errored   : BOOLEAN,
   detached  : Nat]

NewTask(i) == [input |-> i, st |-> "running"]

NewQueue ==
  [tasks |-> <<>>, results |-> <<>>, completed |-> 0,
   errored |-> FALSE, detached |-> 0]

Running(q) == {k \in 1..Len(q.tasks) : q.tasks[k].st = "running"}

Finished(q) == {k \in 1..Len(q.tasks) : q.tasks[k].st # "running"}

TaskInputs(q) == [k \in 1..Len(q.tasks) |-> q.tasks[k].input]

\* Everything taken in and not yet handed to the owner, oldest first.
Pending(q) == q.results \o TaskInputs(q)

Min2(a, b) == IF a <= b THEN a ELSE b

IsConcurrent(concurrent) == concurrent > 1

\* Mutant: off by one.
HasRemainingOneMore(q, concurrent, prefetch) ==
  Len(q.tasks) <= concurrent + Min2(q.completed, prefetch)

\* Mutant: the counter is taken for slots in use, as in the field's example.
HasRemainingCountsDone(q, concurrent, prefetch) == Len(q.tasks) + q.completed < concurrent

HasRemaining(q, concurrent, prefetch) ==
  Len(q.tasks) < concurrent + Min2(q.completed, prefetch)

HasResult(q) == q.results # <<>>

\* execute's last line: a new task at the back.
PushTask(q, i) == [q EXCEPT !.tasks = Append(@, NewTask(i))]

\* Dropping the handles detaches the futures that still run; the counter is
\* left as it is.
Clear(q) ==
  [q EXCEPT !.tasks = <<>>, !.results = <<>>,
            !.detached = @ + Cardinality(Running(q))]

FrontReady(q) == q.tasks # <<>> /\ q.tasks[1].st # "running"

\* What `execute` and `next` do first once the front task has resolved.
Retrieve(q) == [q EXCEPT !.completed = @ - 1]

PopFront(q) == [q EXCEPT !.tasks = Tail(@)]

\* Mutant: the failed task is dropped.
RelaunchForgets(q) == PopFront(q)

\* A temporary error: the front task is replaced by a new one, same input.
Relaunch(q) == [q EXCEPT !.tasks[1] = NewTask(q.tasks[1].input)]

\* Any other error.
Fail(q) == [Clear(q) EXCEPT !.errored = TRUE]

\* The error arm shared by `execute` and `next`.
FrontError(q) ==
  IF q.tasks[1].st = "temp" THEN Relaunch(Retrieve(q)) ELSE Fail(Retrieve(q))

\* The Ok arm of `execute`: the front task's output joins the results.
FrontToResults(q) ==
  PopFront([Retrieve(q) EXCEPT !.results = Append(@, q.tasks[1].input)])

\* The Ok arm of `next`: the front task's output goes to the owner.
FrontToOwner(q) == PopFront(Retrieve(q))

\* Mutant: only a success is counted.
ResolveCountsOk(q, k, outcome) ==
  [q EXCEPT !.tasks[k].st = outcome,
            !.completed = IF outcome = "ok" THEN @ + 1 ELSE @]

\* The executor resolves the k-th task.
Resolve(q, k, outcome) ==
  [q EXCEPT !.tasks[k].st = outcome, !.completed = @ + 1]

\* A detached future ends: dropped by the executor, or resolved (counted).
EndDetached(q, counted) ==
  [q EXCEPT !.detached = @ - 1, !.completed = @ + (IF counted THEN 1 ELSE 0)]
=============================================================================
