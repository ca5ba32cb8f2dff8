----------------------------- MODULE RetryRead ------------------------------
(***************************************************************************)
(* Reading through a stack of layers: RetryLayer (core/layers/retry) over  *)
(* ConcurrentLimitLayer (core/layers/concurrent-limit) over the            *)
(* CompleteReader that every operator has (core/src/layers/complete.rs)    *)
(* and an HttpBody (core/src/raw/http_util/body.rs).                       *)
(*                                                                         *)
(* Several jobs share one semaphore.  A job opens Need readers one after   *)
(* the other and keeps them (a user that merges or compares objects), then *)
(* reads each to its end.  The reader that ConcurrentLimitLayer hands out  *)
(* holds its permit until it is dropped, also between two reads.           *)
(*                                                                         *)
(* Bytes are offsets of an object of Size bytes.  The service is external: *)
(* a request fails for a while ("temp", a timeout of TimeoutLayer          *)
(* included) or for good ("perm"), or hands out a body, which may break    *)
(* off before the end or go on behind it.  A future that waits may be      *)
(* dropped by the user.                                                    *)
(***************************************************************************)
EXTENDS Integers, FiniteSets

CONSTANTS Jobs,
          Need,       \* readers a job keeps open at a time
          Permits,    \* given to ConcurrentLimitLayer::new
          Size,       \* of every object that is read
          MaxTimes,   \* max_times of the backoff builder
          MaxExtra,   \* bound: bytes a body has behind the range asked for
          MaxErrors,  \* bound: failures of the service
          MaxDrops    \* bound: suspended calls dropped

ASSUME RetryAssumption ==
  /\ IsFiniteSet(Jobs)
  /\ Need \in Nat \ {0} /\ Permits \in Nat /\ Size \in Nat
  /\ MaxTimes \in Nat /\ MaxExtra \in Nat /\ MaxErrors \in Nat /\ MaxDrops \in Nat

Handles == Jobs \X (1..Need)

VARIABLES
  sized,      \* the range of the reads has a size
  lengthKnown,\* HttpBody.size.is_some()
  free,       \* permits in the semaphore
  pc,         \* where a job is
  cur,        \* which of its readers a job works on
  attempt,    \* retries of the call under way
  wrapper,    \* RetryWrapper.inner: "none" before it exists, "some", "taken"
  open,       \* RetryReader.reader.is_some(); such a reader holds a permit
  at,         \* the offset of the next byte of that reader
  left,       \* size - read of CompleteReader, size - consumed of HttpBody
  range,      \* RetryReader.args.range(): its offset; it ends at Size
  got,        \* history: bytes returned to the job
  result,     \* history: what the last read of a reader returned
  errors, drops

reading == <<wrapper, open, at, left, range, got, result>>
vars == <<sized, lengthKnown, free, pc, cur, attempt, reading, errors, drops>>

Init ==
  /\ sized \in BOOLEAN /\ lengthKnown \in BOOLEAN
  /\ free = Permits
  /\ pc = [j \in Jobs |-> "user"]
  /\ cur = [j \in Jobs |-> 1]
  /\ attempt = [j \in Jobs |-> 0]
  /\ wrapper = [h \in Handles |-> "none"]
  /\ open = [h \in Handles |-> FALSE]
  /\ at = [h \in Handles |-> 0]
  /\ left = [h \in Handles |-> 0]
  /\ range = [h \in Handles |-> 0]
  /\ got = [h \in Handles |-> 0]
  /\ result = [h \in Handles |-> "none"]
  /\ errors = 0 /\ drops = 0

Cur(j) == <<j, cur[j]>>
Goto(j, where) == pc' = [pc EXCEPT ![j] = where]

\* The call of job j is over; cur stays on the reader until it is done with.
HandBack(j, r) ==
  /\ Goto(j, "user")
  /\ attempt' = [attempt EXCEPT ![j] = 0]
  /\ result' = [result EXCEPT ![Cur(j)] = r]

---------------------------------------------------------------------------
(* RetryLayer.  An attempt either uses the reader or opens one: the first  *)
(* time through accessor.read, later inside RetryReader::read.  A          *)
(* temporary error is followed by another attempt, max_times at most.      *)

Transient(kind) == kind = "temp"

\* Mutant: one retry too many.
RetryOneMore(j, kind) ==
  \/ /\ Transient(kind) /\ attempt[j] <= MaxTimes
     /\ Goto(j, "backoff")
     /\ attempt' = [attempt EXCEPT ![j] = @ + 1]
     /\ UNCHANGED <<result, wrapper>>
  \/ /\ ~(Transient(kind) /\ attempt[j] <= MaxTimes)
     /\ HandBack(j, "err")
     /\ wrapper' = [wrapper EXCEPT ![Cur(j)] = IF @ = "taken" THEN "some" ELSE @]

\* A failed attempt is repeated or its error is returned, and the wrapper
\* takes the RetryReader back if there is one.
Retry(j, kind) ==
  \/ /\ Transient(kind) /\ attempt[j] < MaxTimes
     /\ Goto(j, "backoff")
     /\ attempt' = [attempt EXCEPT ![j] = @ + 1]
     /\ UNCHANGED <<result, wrapper>>
  \/ /\ ~(Transient(kind) /\ attempt[j] < MaxTimes)
     /\ HandBack(j, "err")
     /\ wrapper' = [wrapper EXCEPT ![Cur(j)] = IF @ = "taken" THEN "some" ELSE @]

ServiceFails == errors < MaxErrors /\ errors' = errors + 1

Backoff(j) ==
  /\ pc[j] = "backoff"
  /\ Goto(j, IF open[Cur(j)] THEN "body" ELSE "acquire")
  /\ UNCHANGED <<sized, lengthKnown, free, cur, attempt, reading, errors, drops>>

---------------------------------------------------------------------------
(* ConcurrentLimitLayer: a permit is acquired before the inner operation   *)
(* and given back when the operation fails or its reader is dropped.       *)

Acquire(j) ==
  /\ pc[j] = "acquire"
  /\ free > 0
  /\ free' = free - 1
  /\ Goto(j, "open")
  /\ UNCHANGED <<sized, lengthKnown, cur, attempt, reading, errors, drops>>

\* A TimeoutLayer between the two gives up waiting for the permit.
AcquireTimeout(j) ==
  /\ pc[j] = "acquire"
  /\ ServiceFails
  /\ Retry(j, "temp")
  /\ UNCHANGED <<sized, lengthKnown, free, cur, open, at, left, range, got, drops>>

\* The inner operation hands out a reader for the range asked for.
\* accessor.read returns to the job, RetryReader::read goes on with it.  A
\* range that starts at or behind the end is empty.
OpenOk(j) ==
  LET h == Cur(j) IN
  /\ pc[j] = "open"
  /\ open' = [open EXCEPT ![h] = TRUE]
  /\ at' = [at EXCEPT ![h] = range[h]]
  /\ left' = [left EXCEPT ![h] = IF range[h] < Size THEN Size - range[h] ELSE 0]
  /\ \/ /\ wrapper[h] = "none"
        /\ wrapper' = [wrapper EXCEPT ![h] = "some"]
        /\ HandBack(j, "none")
     \/ /\ wrapper[h] # "none"
        /\ Goto(j, "body")
        /\ UNCHANGED <<wrapper, attempt, result>>
  /\ UNCHANGED <<sized, lengthKnown, free, cur, range, got, errors, drops>>

\* Mutant: the permit of a failed open is not given back.
OpenFailsLeaks(j, kind) ==
  /\ pc[j] = "open"
  /\ ServiceFails
  /\ Retry(j, kind)
  /\ UNCHANGED <<sized, lengthKnown, free, cur, open, at, left, range, got, drops>>

OpenFails(j, kind) ==
  /\ pc[j] = "open"
  /\ ServiceFails
  /\ free' = free + 1
  /\ Retry(j, kind)
  /\ UNCHANGED <<sized, lengthKnown, cur, open, at, left, range, got, drops>>

\* What is left of a range that was read to its end is asked for again, and
\* BytesRange cannot be printed into the header of that request.
EmptyRequest(h) == sized /\ range[h] = Size /\ Size > 0

\* format! panics: the job unwinds and drops what it holds.
OpenPanics(j) ==
  /\ pc[j] = "open"
  /\ EmptyRequest(Cur(j))
  /\ Goto(j, "panic")
  /\ free' = free + 1 + Cardinality({h \in {j} \X (1..Need) : open[h]})
  /\ open' = [h \in Handles |-> open[h] /\ h[1] # j]
  /\ UNCHANGED <<sized, lengthKnown, cur, attempt, wrapper, at, left, range, got,
                 result, errors, drops>>

---------------------------------------------------------------------------
(* RetryReader::read on an open reader.                                    *)

\* n bytes are returned and the range moves on by as many.
Advance(j, n) ==
  LET h == Cur(j) IN
  /\ at' = [at EXCEPT ![h] = @ + n]
  /\ left' = [left EXCEPT ![h] = @ - n]
  /\ range' = [range EXCEPT ![h] = @ + n]
  /\ got' = [got EXCEPT ![h] = @ + n]
  /\ wrapper' = [wrapper EXCEPT ![h] = "some"]
  /\ HandBack(j, "data")
  /\ UNCHANGED <<sized, lengthKnown, free, cur, open, drops>>

BodyData(j) ==
  LET h == Cur(j) IN
  /\ pc[j] = "body"
  /\ \E n \in 1..left[h] : Advance(j, n)
  /\ UNCHANGED errors

\* The body has more than the range asked for.  CompleteReader and HttpBody
\* count the bytes and check them at the end of the body only; a range without
\* a size takes them.
BodyTooMuch(j) ==
  LET h == Cur(j) IN
  /\ pc[j] = "body"
  /\ ~sized /\ lengthKnown
  /\ ServiceFails
  /\ \E n \in 1..(left[h] + MaxExtra) : n > left[h] /\ Advance(j, n)

\* A range with a size does not: BytesRange::advance panics before anything is
\* checked, and the job unwinds.
AdvancePanics(j) ==
  /\ pc[j] = "body"
  /\ sized /\ MaxExtra > 0
  /\ ServiceFails
  /\ Goto(j, "overrun")
  /\ free' = free + Cardinality({h \in {j} \X (1..Need) : open[h]})
  /\ open' = [h \in Handles |-> open[h] /\ h[1] # j]
  /\ UNCHANGED <<sized, lengthKnown, cur, attempt, wrapper, at, left, range, got,
                 result, drops>>

\* Mutant: CompleteReader does not check.
BodyCheckTrusts(h) == IF lengthKnown /\ left[h] # 0 THEN "temp" ELSE "ok"

\* HttpBody::check, then CompleteReader::check, on an empty buffer: too little
\* and too much are errors of both.
BodyCheck(h) ==
  CASE lengthKnown /\ left[h] # 0 -> "temp"
    [] ~lengthKnown /\ sized /\ left[h] # 0 -> "perm"
    [] OTHER -> "ok"

\* The body ends and the checks, if any, let it pass.
BodyEnd(j) ==
  LET h == Cur(j) IN
  /\ pc[j] = "body"
  /\ left[h] <= 0 \/ errors < MaxErrors
  /\ BodyCheck(h) = "ok"
  /\ wrapper' = [wrapper EXCEPT ![h] = "some"]
  /\ errors' = IF left[h] <= 0 THEN errors ELSE errors + 1
  /\ HandBack(j, "eof")
  /\ UNCHANGED <<sized, lengthKnown, free, cur, open, at, left, range, got, drops>>

\* Mutant: the failed reader is kept while a new one is opened.
FailedReaderKept(j, kind) ==
  /\ pc[j] = "body"
  /\ open' = [open EXCEPT ![Cur(j)] = FALSE]
  /\ Retry(j, kind)
  /\ UNCHANGED <<sized, lengthKnown, free, cur, at, left, range, got, drops>>

\* A failed read: `?` drops the reader, and its permit with it, before
\* anything is tried again.
FailedReader(j, kind) ==
  /\ pc[j] = "body"
  /\ open' = [open EXCEPT ![Cur(j)] = FALSE]
  /\ free' = free + 1
  /\ Retry(j, kind)
  /\ UNCHANGED <<sized, lengthKnown, cur, at, left, range, got, drops>>

BodyFails(j, kind) == ServiceFails /\ FailedReader(j, kind)

\* The body breaks off and the check finds out.
BodyBreaksOff(j) ==
  /\ left[Cur(j)] > 0
  /\ BodyCheck(Cur(j)) # "ok"
  /\ BodyFails(j, BodyCheck(Cur(j)))

\* The end of a body that had too much, which was returned already.
BodyOverlong(j) ==
  /\ left[Cur(j)] < 0
  /\ BodyCheck(Cur(j)) # "ok"
  /\ FailedReader(j, BodyCheck(Cur(j)))
  /\ UNCHANGED errors

---------------------------------------------------------------------------
(* The job.                                                                *)

\* accessor.read, one reader after the other.
UserOpen(j) ==
  /\ pc[j] = "user"
  /\ \E i \in 1..Need :
       /\ wrapper[<<j, i>>] = "none" /\ result[<<j, i>>] = "none"
       /\ \A k \in 1..(i - 1) : wrapper[<<j, k>>] = "some"
       /\ cur' = [cur EXCEPT ![j] = i]
  /\ Goto(j, "acquire")
  /\ UNCHANGED <<sized, lengthKnown, free, attempt, reading, errors, drops>>

Opened(j) == \A i \in 1..Need : wrapper[<<j, i>>] # "none"

\* A read of the first reader that is not at its end.  RetryWrapper::read
\* takes the inner reader for the time of the call.
UserRead(j, i) ==
  /\ pc[j] = "user"
  /\ Opened(j)
  /\ wrapper[<<j, i>>] = "some" /\ result[<<j, i>>] # "eof"
  /\ \A k \in 1..(i - 1) : result[<<j, k>>] = "eof"
  /\ cur' = [cur EXCEPT ![j] = i]
  /\ wrapper' = [wrapper EXCEPT ![<<j, i>>] = "taken"]
  /\ Goto(j, IF open[<<j, i>>] THEN "body" ELSE "acquire")
  /\ UNCHANGED <<sized, lengthKnown, free, attempt, open, at, left, range, got,
                 result, errors, drops>>

\* The job drops all its readers: at the end, or after an error.
UserEnds(j) ==
  /\ pc[j] = "user"
  /\ \/ \A i \in 1..Need : result[<<j, i>>] = "eof"
     \/ \E i \in 1..Need : result[<<j, i>>] = "err"
  /\ Goto(j, "end")
  /\ free' = free + Cardinality({h \in {j} \X (1..Need) : open[h]})
  /\ open' = [h \in Handles |-> open[h] /\ h[1] # j]
  /\ UNCHANGED <<sized, lengthKnown, cur, attempt, wrapper, at, left, range, got,
                 result, errors, drops>>

\* The job drops the call it waits for, and with it the reader and the permit
\* the future holds.  RetryWrapper stays without its inner: every later call
\* returns "retry layer is in bad state".
UserDrops(j) ==
  LET h == Cur(j) IN
  /\ pc[j] \in {"acquire", "open", "body", "backoff"}
  /\ drops < MaxDrops /\ drops' = drops + 1
  /\ free' = IF pc[j] = "open" \/ open[h] THEN free + 1 ELSE free
  /\ open' = [open EXCEPT ![h] = FALSE]
  /\ HandBack(j, "err")
  /\ UNCHANGED <<sized, lengthKnown, cur, wrapper, at, left, range, got, errors>>

Step(j) ==
  \/ Backoff(j) \/ OpenOk(j) \/ BodyData(j) \/ BodyEnd(j) \/ BodyBreaksOff(j)
  \/ \E kind \in {"temp", "perm"} : OpenFails(j, kind) \/ BodyFails(j, kind)
  \/ AcquireTimeout(j) \/ OpenPanics(j)
  \/ BodyTooMuch(j) \/ AdvancePanics(j) \/ BodyOverlong(j)

User(j) == UserOpen(j) \/ UserEnds(j) \/ \E i \in 1..Need : UserRead(j, i)

Next == \E j \in Jobs : Step(j) \/ Acquire(j) \/ User(j) \/ UserDrops(j)

Spec == Init /\ [][Next]_vars

(***************************************************************************)
(* Fairness.  An awaited request ends and a backoff sleep elapses.  The    *)
(* semaphore serves its waiters in order (mea), so a job that waits while  *)
(* permits keep coming back gets one.  A job goes on with its work; it is  *)
(* never forced to drop a call.                                            *)
(***************************************************************************)
Fairness ==
  \A j \in Jobs : WF_vars(Step(j)) /\ SF_vars(Acquire(j)) /\ WF_vars(User(j))

FairSpec == Spec /\ Fairness

---------------------------------------------------------------------------
(* Properties *)

\* The type of every variable; no call makes more than max_times retries.
TypeOK ==
  /\ sized \in BOOLEAN /\ lengthKnown \in BOOLEAN
  /\ free \in 0..Permits
  /\ pc \in [Jobs -> {"user", "acquire", "open", "body", "backoff", "end", "panic",
                      "overrun"}]
  /\ cur \in [Jobs -> 1..Need]
  /\ attempt \in [Jobs -> 0..MaxTimes]
  /\ wrapper \in [Handles -> {"none", "some", "taken"}]
  /\ open \in [Handles -> BOOLEAN]
  /\ at \in [Handles -> Nat] /\ left \in [Handles -> Int]
  /\ range \in [Handles -> Nat] /\ got \in [Handles -> Nat]
  /\ result \in [Handles -> {"none", "data", "eof", "err"}]
  /\ errors \in 0..MaxErrors /\ drops \in 0..MaxDrops

\* Every permit is in the semaphore, with an open that is under way, or with
\* an open reader: none is lost by a failed open, a failed read, a dropped
\* call or a panic, and none is given back twice
\* (concurrent-limit/src/lib.rs:265, retry/src/lib.rs:486).
PermitsConserved ==
  free + Cardinality({j \in Jobs : pc[j] = "open"})
       + Cardinality({h \in Handles : open[h]}) = Permits

\* What a reader returns is the object from its first byte on, whatever
\* failed in between: the next byte of an open reader is the first one not
\* returned yet, and a reader opened again starts there; a range with a size
\* returns nothing behind its end (retry/src/lib.rs:495, bytes_range.rs:80).
Resumes ==
  \A h \in Handles :
    /\ range[h] = got[h]
    /\ sized => got[h] <= Size
    /\ open[h] => /\ at[h] = got[h]
                  /\ at[h] + left[h] >= Size
                  /\ sized => at[h] + left[h] = Size

\* The end is reported only when the whole object was returned, also when a
\* connection broke off, as long as the range has a size or the response a
\* length (complete.rs:196, body.rs:105).
EofMeansComplete ==
  (sized \/ lengthKnown) =>
    \A h \in Handles : result[h] = "eof" => got[h] >= Size /\ (sized => got[h] = Size)

\* A read that failed on the way and was repeated returns what an
\* undisturbed one returns.
ReadsObject == Resumes /\ EofMeansComplete

\* "A zero-size range can't be represented as a valid HTTP Range"
\* (bytes_range.rs:150): no request is made for one.
NoEmptyRequest == \A j \in Jobs : pc[j] = "open" => ~EmptyRequest(Cur(j))

\* "reader got too much data" (complete.rs:208), "http response got too much
\* data" (body.rs:119): a body that has more than was asked for is an error of
\* the read, never a panic and never an end that nobody was told about.
TooMuchIsReported ==
  /\ \A j \in Jobs : pc[j] # "overrun"
  /\ lengthKnown => \A h \in Handles : result[h] = "eof" => got[h] <= Size

\* Every job ends if one permit is left when each job holds all but one of
\* the readers it needs: a failed reader gives its permit back before a new
\* one is asked for.  With fewer permits jobs wait for each other.
AllFinish ==
  Permits > Cardinality(Jobs) * (Need - 1)
    => \A j \in Jobs : <>(pc[j] \in {"end", "panic", "overrun"})
=============================================================================
