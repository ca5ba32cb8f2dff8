-------------------------- MODULE ConcurrentTasks --------------------------
(***************************************************************************)
(* ConcurrentTasks of core/src/raw/futures_util.rs, driven by one owner.   *)
(*                                                                         *)
(* Every method takes &mut self, so the owner has at most one call under   *)
(* way.  The executor resolves tasks at any moment, in any order.  A call  *)
(* suspended at its `.await` may be dropped there (a timeout, a select!).  *)
(* The owner calls execute, next and clear in any order: after             *)
(* has_remaining() returned true, as ChunkedReader and the copiers do, or  *)
(* without asking, as the writers do.                                      *)
(***************************************************************************)
EXTENDS TaskQueue

CONSTANTS Concurrents,  \* usizes that may be given to ConcurrentTasks::new
          Prefetch,     \* usize given to ConcurrentTasks::new
          MaxInputs,    \* bound: inputs the owner submits
          MaxTemp,      \* bound: temporary errors
          MaxDrops,     \* bound: suspended calls dropped
          MaxClears     \* bound: calls of clear()

ASSUME TasksAssumption ==
  /\ Concurrents \subseteq Nat
  /\ Prefetch \in Nat
  /\ MaxInputs \in Nat
  /\ MaxTemp \in Nat
  /\ MaxDrops \in Nat
  /\ MaxClears \in Nat

VARIABLES concurrent, \* the field of that name
          q,          \* the other fields of the ConcurrentTasks
          call,       \* the owner's suspended call
          reply,      \* what the last finished call returned
          last,       \* the largest input submitted with success
          accepted,   \* history: inputs execute returned Ok for, minus those
                      \*   given up by clear() or by a permanent error
          delivered,  \* history: outputs next returned
          unasked,    \* history: execute was called with no slot remaining
          temps, drops, clears  \* how much of each bound is used

vars == <<concurrent, q, call, reply, last, accepted, delivered, unasked,
          temps, drops, clears>>

Inputs == 1..MaxInputs

Idle == [kind |-> "idle"]

Init ==
  /\ concurrent \in Concurrents
  /\ q = NewQueue
  /\ call = Idle
  /\ reply = "none"
  /\ last = 0
  /\ accepted = <<>>
  /\ delivered = <<>>
  /\ unasked = FALSE
  /\ temps = 0 /\ drops = 0 /\ clears = 0

frame == <<concurrent, unasked, temps, drops, clears>>

Return(r) == call' = Idle /\ reply' = r

Suspend(c) == call' = c /\ reply' = "none"

\* execute returned Ok for input i.
Accepted(i) == accepted' = Append(accepted, i) /\ last' = i

---------------------------------------------------------------------------
(* execute(input) *)

ExecuteRefused ==
  /\ q.errored
  /\ Return("refused")
  /\ UNCHANGED <<q, last, accepted>>

ExecuteInline(i) ==
  /\ ~q.errored
  /\ ~IsConcurrent(concurrent)
  /\ Suspend([kind |-> "inline", input |-> i])
  /\ UNCHANGED <<q, last, accepted>>

ExecutePush(i) ==
  /\ ~q.errored
  /\ IsConcurrent(concurrent)
  /\ HasRemaining(q, concurrent, Prefetch)
  /\ q' = PushTask(q, i)
  /\ Accepted(i)
  /\ Return("ok")

ExecuteWait(i) ==
  /\ ~q.errored
  /\ IsConcurrent(concurrent)
  /\ ~HasRemaining(q, concurrent, Prefetch)
  /\ Suspend([kind |-> "execute", input |-> i])
  /\ UNCHANGED <<q, last, accepted>>

Execute(i) ==
  /\ call = Idle
  /\ i > last
  /\ unasked' = (unasked \/ ~HasRemaining(q, concurrent, Prefetch))
  /\ \/ ExecuteRefused \/ ExecuteInline(i) \/ ExecutePush(i) \/ ExecuteWait(i)
  /\ UNCHANGED <<concurrent, delivered, temps, drops, clears>>

\* The inline future resolves.  An error is returned and nothing is kept.
InlineResume(outcome) ==
  /\ call.kind = "inline"
  /\ \/ /\ outcome = "ok"
        /\ q' = [q EXCEPT !.results = Append(@, call.input)]
        /\ Accepted(call.input)
        /\ Return("ok")
        /\ UNCHANGED temps
     \/ /\ outcome = "temp" /\ temps < MaxTemp
        /\ temps' = temps + 1
        /\ Return("temp")
        /\ UNCHANGED <<q, last, accepted>>
     \/ /\ outcome = "perm"
        /\ Return("perm")
        /\ UNCHANGED <<q, last, accepted, temps>>
  /\ UNCHANGED <<concurrent, delivered, unasked, drops, clears>>

\* The error arm, common to execute and next: a permanent error gives up
\* everything that was in flight.
ResumeError ==
  /\ q.tasks[1].st # "ok"
  /\ q' = FrontError(q)
  /\ Return(q.tasks[1].st)
  /\ accepted' = IF q.tasks[1].st = "perm" THEN delivered ELSE accepted
  /\ UNCHANGED <<last, delivered>>

ExecuteResumeOk ==
  /\ q.tasks[1].st = "ok"
  /\ q' = PushTask(FrontToResults(q), call.input)
  /\ Accepted(call.input)
  /\ Return("ok")
  /\ UNCHANGED delivered

ExecuteResume ==
  /\ call.kind = "execute"
  /\ FrontReady(q)
  /\ ExecuteResumeOk \/ ResumeError
  /\ UNCHANGED frame

---------------------------------------------------------------------------
(* next() *)

NextRefused ==
  /\ q.errored
  /\ Return("refused")
  /\ UNCHANGED <<q, delivered>>

NextBuffered ==
  /\ ~q.errored
  /\ HasResult(q)
  /\ q' = [q EXCEPT !.results = Tail(@)]
  /\ delivered' = Append(delivered, Head(q.results))
  /\ Return("ok")

\* Mutant: tasks are awaited before the buffered results are handed out.
NextWaitFirst ==
  /\ ~q.errored
  /\ q.tasks # <<>>
  /\ Suspend([kind |-> "next"])
  /\ UNCHANGED <<q, delivered>>

NextWait ==
  /\ ~q.errored
  /\ ~HasResult(q)
  /\ q.tasks # <<>>
  /\ Suspend([kind |-> "next"])
  /\ UNCHANGED <<q, delivered>>

NextNone ==
  /\ ~q.errored
  /\ ~HasResult(q)
  /\ q.tasks = <<>>
  /\ Return("none")
  /\ UNCHANGED <<q, delivered>>

NextCall ==
  /\ call = Idle
  /\ NextRefused \/ NextBuffered \/ NextWait \/ NextNone
  /\ UNCHANGED <<last, accepted, frame>>

NextResumeOk ==
  /\ q.tasks[1].st = "ok"
  /\ q' = FrontToOwner(q)
  /\ delivered' = Append(delivered, q.tasks[1].input)
  /\ Return("ok")
  /\ UNCHANGED <<last, accepted>>

NextResume ==
  /\ call.kind = "next"
  /\ FrontReady(q)
  /\ NextResumeOk \/ ResumeError
  /\ UNCHANGED frame

---------------------------------------------------------------------------
(* The owner drops a suspended call, or clears the queue.                  *)

\* Mutant: the front task was taken out of the queue before it was awaited.
DropCallTaken ==
  /\ call # Idle
  /\ drops < MaxDrops
  /\ drops' = drops + 1
  /\ q' = IF call.kind = "inline" THEN q ELSE PopFront(q)
  /\ Return("dropped")
  /\ UNCHANGED <<concurrent, last, accepted, delivered, unasked, temps, clears>>

DropCall ==
  /\ call # Idle
  /\ drops < MaxDrops
  /\ drops' = drops + 1
  /\ Return("dropped")
  /\ UNCHANGED <<concurrent, q, last, accepted, delivered, unasked, temps, clears>>

ClearCall ==
  /\ call = Idle
  /\ clears < MaxClears
  /\ clears' = clears + 1
  /\ q' = Clear(q)
  /\ accepted' = delivered
  /\ Return("ok")
  /\ UNCHANGED <<concurrent, last, delivered, unasked, temps, drops>>

---------------------------------------------------------------------------
(* The executor.                                                           *)

TaskResolve(k, outcome) ==
  /\ k \in Running(q)
  /\ temps' = IF outcome = "temp" THEN temps + 1 ELSE temps
  /\ temps' <= MaxTemp
  /\ q' = Resolve(q, k, outcome)
  /\ UNCHANGED <<concurrent, call, reply, last, accepted, delivered, unasked, drops, clears>>

DetachedEnd(counted) ==
  /\ q.detached > 0
  /\ q' = EndDetached(q, counted)
  /\ UNCHANGED <<call, reply, last, accepted, delivered, frame>>

Next ==
  \/ \E i \in Inputs : Execute(i)
  \/ \E outcome \in Outcomes : InlineResume(outcome)
  \/ ExecuteResume
  \/ NextCall
  \/ NextResume
  \/ DropCall
  \/ ClearCall
  \/ \E k \in 1..Len(q.tasks), outcome \in Outcomes : TaskResolve(k, outcome)
  \/ \E counted \in BOOLEAN : DetachedEnd(counted)

Spec == Init /\ [][Next]_vars

(***************************************************************************)
(* Fairness.  The Execute trait demands that the executor keeps every      *)
(* future progressing (types/execute/api.rs:57), so a running task is      *)
(* resolved.  An owner polls the call it made, and one that drains         *)
(* (MultipartWriter::close, the readers) calls next again and again,       *)
(* between whatever other calls it makes: strong fairness, since a call    *)
(* under way disables it.  Nothing forces it to submit, drop or clear.     *)
(***************************************************************************)
Fairness ==
  /\ WF_vars(\E k \in 1..Len(q.tasks), o \in Outcomes : TaskResolve(k, o))
  /\ WF_vars(\E o \in Outcomes : InlineResume(o))
  /\ WF_vars(ExecuteResume)
  /\ WF_vars(NextResume)
  /\ SF_vars(NextCall)

FairSpec == Spec /\ Fairness

---------------------------------------------------------------------------
(* Properties *)

CallType ==
  {Idle} \cup [kind : {"next"}] \cup [kind : {"inline", "execute"}, input : Inputs]

\* The type of every variable.
TypeOK ==
  /\ concurrent \in Concurrents
  /\ q \in QueueType(Inputs)
  /\ call \in CallType
  /\ reply \in {"none", "ok", "temp", "perm", "refused", "dropped"}
  /\ last \in 0..MaxInputs
  /\ accepted \in Seq(Inputs)
  /\ delivered \in Seq(Inputs)
  /\ unasked \in BOOLEAN
  /\ temps \in 0..MaxTemp
  /\ drops \in 0..MaxDrops
  /\ clears \in 0..MaxClears

\* Nothing is lost, duplicated or reordered: what next() returned, then the
\* buffered results, then the queued tasks' inputs are exactly the inputs
\* execute() returned Ok for, in that order, whatever order the tasks resolve
\* in and whichever suspended call was dropped (futures_util.rs:105-110).
Conserved == accepted = delivered \o Pending(q)

\* The counter never goes below the number of resolved tasks that wait to be
\* collected, so fetch_sub(1) (futures_util.rs:249,291) never wraps; until
\* something was cleared it is exactly that number, which is what
\* has_remaining() takes it for.
CounterSound ==
  /\ Cardinality(Finished(q)) <= q.completed
  /\ (clears = 0 /\ ~q.errored) => q.completed = Cardinality(Finished(q))

\* The queue of tasks never holds more than concurrent running and prefetch
\* resolved ones, even with a counter that clear() left too large.
QueueBounded == Len(q.tasks) <= concurrent + Prefetch

\* A call suspended on the front task finds one when it resumes, so neither
\* expect("tasks must be available") can fail (futures_util.rs:247,260,299).
FrontAvailable == call.kind \in {"execute", "next"} => q.tasks # <<>>

\* The queue can be relied on: the counter, the bound and the awaited front
\* task are right at every moment, also after clear() left a counter that is
\* too large, in any order in which tasks resolve and calls are dropped.
QueueSafe == CounterSound /\ QueueBounded /\ FrontAvailable

\* An owner that asks has_remaining() before every execute (buffer_stream.rs,
\* multipart_copy.rs) never has more than `concurrent` tasks running, as long
\* as no task was relaunched after a temporary error and nothing was cleared.
GuardedConcurrency ==
  (~unasked /\ temps = 0 /\ clears = 0)
    => Cardinality(Running(q)) <= concurrent

\* "The maximum number of concurrent tasks" (futures_util.rs:135): what the
\* field's comment says of `concurrent` for every owner.
ConcurrentIsMaximum == Cardinality(Running(q)) <= concurrent

\* After a permanent error nothing is accepted or delivered any more
\* (futures_util.rs:148-151).
ErroredIsFinal ==
  [][q.errored => /\ q'.errored
                  /\ accepted' = accepted
                  /\ delivered' = delivered]_vars

Pipe == INSTANCE OrderedTasks
          WITH queue <- Pending(q), out <- delivered, broken <- q.errored

\* ConcurrentTasks implements the first-in first-out pipe.
ImplementsPipe == Pipe!AbsSpec

\* With an executor that makes progress and an owner that keeps draining, an
\* accepted input is delivered, unless it is given up by a clear or by a
\* permanent error.
AcceptedSettles ==
  \A i \in Inputs :
    (i \in {accepted[k] : k \in 1..Len(accepted)})
      ~> \/ i \in {delivered[k] : k \in 1..Len(delivered)}
         \/ i \notin {accepted[k] : k \in 1..Len(accepted)}
=============================================================================
