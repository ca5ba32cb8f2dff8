-------------------------- MODULE RetryReadProofs ---------------------------
(***************************************************************************)
(* The safety of RetryRead for every set of jobs, every number of readers  *)
(* and permits, every size and every number of retries, failures and       *)
(* dropped calls.                                                          *)
(*                                                                         *)
(* Neither the permits nor the bytes can be accounted for on their own: a  *)
(* permit is given back once only because the place of a job says whether  *)
(* its reader is open (Places), and the end of a reader says something of  *)
(* the object only because the reader continues where the job is           *)
(* (Resumes).                                                              *)
(***************************************************************************)
EXTENDS RetryRead, FiniteSetTheorems, TLAPS

\* Where a job is tells whether the reader it works on is open; a reader that
\* was never handed out is not.
Places ==
  /\ \A j \in Jobs : pc[j] = "body" => open[Cur(j)]
  /\ \A j \in Jobs : pc[j] \in {"acquire", "open"} => ~open[Cur(j)]
  /\ \A h \in Handles : wrapper[h] = "none" => ~open[h]

\* TypeOK without the upper bound of free, which is a consequence of
\* PermitsConserved.
Types ==
  /\ sized \in BOOLEAN /\ lengthKnown \in BOOLEAN
  /\ free \in Nat
  /\ pc \in [Jobs -> {"user", "acquire", "open", "body", "backoff", "end", "panic",
                      "overrun"}]
  /\ cur \in [Jobs -> 1..Need]
  /\ attempt \in [Jobs -> 0..MaxTimes]
  /\ wrapper \in [Handles -> {"none", "some", "taken"}]
  /\ open \in [Handles -> BOOLEAN]
  /\ at \in [Handles -> Nat] /\ left \in [Handles -> Int]
  /\ range \in [Handles -> Nat] /\ got \in [Handles -> Nat]
  /\ result \in [Handles -> {"none", "data", "eof", "err"}]
  /\ errors \in 0..MaxErrors /\ drops \in 0..MaxDrops

IInv == Types /\ Places /\ PermitsConserved /\ Resumes /\ EofMeansComplete

---------------------------------------------------------------------------
(* Sets of permit holders.                                                 *)

Opening == {j \in Jobs : pc[j] = "open"}
Open == {h \in Handles : open[h]}
OpenOf(j) == {h \in {j} \X (1..Need) : open[h]}

\* The reader a job works on is one of its own.
LEMMA CurHandle ==
  ASSUME Types, NEW j \in Jobs
  PROVE  Cur(j) \in Handles /\ \A k \in Jobs : Cur(k) = Cur(j) => k = j
  BY DEF Types, Cur, Handles

\* There are finitely many holders.
LEMMA HoldersFinite ==
  /\ IsFiniteSet(Handles)
  /\ IsFiniteSet(Opening) /\ Cardinality(Opening) \in Nat
  /\ IsFiniteSet(Open) /\ Cardinality(Open) \in Nat
<1>1. IsFiniteSet(1..Need)
  BY FS_Interval, RetryAssumption
<1>2. IsFiniteSet(Handles)
  BY <1>1, FS_Product, RetryAssumption DEF Handles
<1>3. IsFiniteSet(Opening)
  BY FS_Subset, RetryAssumption DEF Opening
<1>4. IsFiniteSet(Open)
  BY <1>2, FS_Subset DEF Open
<1> QED
  BY <1>2, <1>3, <1>4, FS_CardinalityType

LEMMA OpenOfFinite ==
  ASSUME NEW j \in Jobs
  PROVE  OpenOf(j) = Open \cap OpenOf(j) /\ Cardinality(OpenOf(j)) \in Nat
<1>1. OpenOf(j) \subseteq Open
  BY DEF OpenOf, Open, Handles
<1>2. IsFiniteSet(OpenOf(j))
  BY <1>1, HoldersFinite, FS_Subset
<1> QED
  BY <1>1, <1>2, FS_CardinalityType

\* PermitsConserved in terms of the holders.
LEMMA Conserves ==
  PermitsConserved <=> free + Cardinality(Opening) + Cardinality(Open) = Permits
  BY DEF PermitsConserved, Opening, Open

\* The same of the next state.
LEMMA ConservesNext ==
  /\ PermitsConserved' <=> free' + Cardinality(Opening') + Cardinality(Open') = Permits
  /\ Opening' = {j \in Jobs : pc'[j] = "open"}
  /\ Open' = {h \in Handles : open'[h]}
  BY DEF PermitsConserved, Opening, Open

---------------------------------------------------------------------------
(* Types and places.                                                       *)

\* The outcome of a failed attempt: where the job goes and what changes.
LEMMA RetryOutcome ==
  ASSUME Types, NEW j \in Jobs, NEW kind \in {"temp", "perm"}, Retry(j, kind)
  PROVE  /\ pc' \in [Jobs -> {"user", "acquire", "open", "body", "backoff", "end", "panic",
                              "overrun"}]
         /\ pc'[j] \in {"backoff", "user"}
         /\ \A k \in Jobs : k # j => pc'[k] = pc[k]
         /\ attempt' \in [Jobs -> 0..MaxTimes]
         /\ wrapper' \in [Handles -> {"none", "some", "taken"}]
         /\ \A h \in Handles : wrapper'[h] = "none" <=> wrapper[h] = "none"
         /\ result' \in [Handles -> {"none", "data", "eof", "err"}]
         /\ \A h \in Handles : result'[h] \in {result[h], "err"}
<1>1. Cur(j) \in Handles
  BY CurHandle
<1>2. CASE Transient(kind) /\ attempt[j] < MaxTimes
  BY <1>1, <1>2, RetryAssumption DEF Retry, Goto, Types
<1>3. CASE ~(Transient(kind) /\ attempt[j] < MaxTimes)
  BY <1>1, <1>3, RetryAssumption DEF Retry, HandBack, Goto, Types
<1> QED
  BY <1>2, <1>3

\* A body hands out n bytes: within what is left, or more where nothing knows
\* the size of the range.
LEMMA AdvanceCases ==
  ASSUME Types, NEW j \in Jobs, BodyData(j) \/ BodyTooMuch(j)
  PROVE  /\ pc[j] = "body" /\ errors' \in 0..MaxErrors
         /\ \E n \in Nat : (sized => n <= left[Cur(j)]) /\ Advance(j, n)
<1>1. Cur(j) \in Handles
  BY CurHandle
<1>2. CASE BodyData(j)
  BY <1>1, <1>2 DEF BodyData, Types
<1>3. CASE BodyTooMuch(j)
  BY <1>1, <1>3, RetryAssumption DEF BodyTooMuch, ServiceFails, Types
<1> QED
  BY <1>2, <1>3

\* A body that ends too early or too late fails like any other.
LEMMA CheckFails ==
  ASSUME NEW j \in Jobs, BodyBreaksOff(j) \/ BodyOverlong(j)
  PROVE  \E kind \in {"temp", "perm"} :
           FailedReader(j, kind) /\ (ServiceFails \/ UNCHANGED errors)
<1>1. BodyCheck(Cur(j)) # "ok"
  BY DEF BodyBreaksOff, BodyOverlong
<1>2. BodyCheck(Cur(j)) \in {"temp", "perm"}
  BY <1>1 DEF BodyCheck
<1> QED
  BY <1>2 DEF BodyBreaksOff, BodyOverlong, BodyFails

\* Every step keeps the types.
LEMMA TypesStep ==
  ASSUME Types, Places, Resumes, Next
  PROVE  Types'
<1> PICK j \in Jobs : Step(j) \/ Acquire(j) \/ User(j) \/ UserDrops(j)
  BY DEF Next
<1>h. Cur(j) \in Handles
  BY CurHandle
<1>o. Cardinality(OpenOf(j)) \in Nat
  BY OpenOfFinite
<1>1. CASE Backoff(j)
  BY <1>1 DEF Backoff, Goto, reading, Types
<1>2. CASE Acquire(j)
  BY <1>2 DEF Acquire, Goto, reading, Types
<1>3. CASE AcquireTimeout(j)
  BY <1>3, RetryOutcome, RetryAssumption DEF AcquireTimeout, ServiceFails, Types
<1>4. CASE OpenOk(j)
  BY <1>4, <1>h, RetryAssumption DEF OpenOk, HandBack, Goto, Types
<1>5. ASSUME NEW kind \in {"temp", "perm"}, OpenFails(j, kind) PROVE Types'
  BY <1>5, RetryOutcome, RetryAssumption DEF OpenFails, ServiceFails, Types
<1>6. CASE OpenPanics(j)
  <2>1. free' = free + 1 + Cardinality(OpenOf(j))
    BY <1>6 DEF OpenPanics, OpenOf
  <2>2. free' \in Nat
    BY <1>o, <2>1 DEF Types
  <2> QED
    BY <1>6, <2>2 DEF OpenPanics, Goto, Types
<1>7. CASE BodyData(j) \/ BodyTooMuch(j)
  <2>1. PICK n \in Nat : Advance(j, n)
    BY <1>7, AdvanceCases
  <2>2. errors' \in 0..MaxErrors
    BY <1>7, AdvanceCases
  <2>3. /\ at' \in [Handles -> Nat] /\ left' \in [Handles -> Int]
        /\ range' \in [Handles -> Nat] /\ got' \in [Handles -> Nat]
    BY <1>h, <2>1 DEF Advance, Types
  <2> QED
    BY <1>h, <2>1, <2>2, <2>3, RetryAssumption DEF Advance, HandBack, Goto, Types
<1>8. CASE BodyEnd(j)
  BY <1>8, <1>h, RetryAssumption DEF BodyEnd, HandBack, Goto, Types
<1>9. ASSUME NEW kind \in {"temp", "perm"}, FailedReader(j, kind),
             ServiceFails \/ UNCHANGED errors
      PROVE  Types'
  <2>1. open' \in [Handles -> BOOLEAN]
    BY <1>9 DEF FailedReader, Types
  <2>2. errors' \in 0..MaxErrors
    BY <1>9, RetryAssumption DEF ServiceFails, Types
  <2> QED
    BY <1>9, <2>1, <2>2, RetryOutcome DEF FailedReader, Types
<1>10. CASE BodyBreaksOff(j) \/ BodyOverlong(j)
  BY <1>9, <1>10, CheckFails
<1>11. CASE UserOpen(j)
  BY <1>11 DEF UserOpen, Goto, reading, Types
<1>12. ASSUME NEW i \in 1..Need, UserRead(j, i) PROVE Types'
  BY <1>12 DEF UserRead, Goto, Types, Handles
<1>13. CASE UserEnds(j) \/ AdvancePanics(j)
  <2>1. free' = free + Cardinality(OpenOf(j))
    BY <1>13 DEF UserEnds, AdvancePanics, OpenOf
  <2>2. free' \in Nat
    BY <1>o, <2>1 DEF Types
  <2>3. errors' \in 0..MaxErrors
    BY <1>13, RetryAssumption DEF UserEnds, AdvancePanics, ServiceFails, Types
  <2> QED
    BY <1>13, <2>2, <2>3 DEF UserEnds, AdvancePanics, Goto, Types
<1>14. CASE UserDrops(j)
  BY <1>14, <1>h, RetryAssumption DEF UserDrops, HandBack, Goto, Types
<1> QED
  BY <1>1, <1>2, <1>3, <1>4, <1>5, <1>6, <1>7, <1>8, <1>9, <1>10, <1>11, <1>12, <1>13,
     <1>14 DEF Step, User, BodyFails

\* Every step keeps the places.
LEMMA PlacesStep ==
  ASSUME Types, Places, Types', Next
  PROVE  Places'
<1> PICK j \in Jobs : Step(j) \/ Acquire(j) \/ User(j) \/ UserDrops(j)
  BY DEF Next
<1>h. Cur(j) \in Handles /\ \A k \in Jobs : Cur(k) \in Handles
  BY CurHandle
<1>k. \A k \in Jobs : k # j => Cur(k) # Cur(j)
  BY CurHandle
\* A step that leaves cur alone keeps the reader every job works on.
<1>c. ASSUME UNCHANGED cur PROVE \A k \in Jobs : Cur(k)' = Cur(k)
  BY <1>c DEF Cur
\* A failed attempt: the reader is closed or left alone.
<1>f. ASSUME NEW kind \in {"temp", "perm"}, Retry(j, kind), UNCHANGED cur,
             open' = open \/ open' = [open EXCEPT ![Cur(j)] = FALSE]
      PROVE  Places'
  <2>1. \A h \in Handles : open'[h] => open[h]
    BY <1>f, <1>h DEF Types
  <2>2. \A k \in Jobs : k # j => open'[Cur(k)] = open[Cur(k)]
    BY <1>f, <1>h, <1>k DEF Types
  <2> QED
    BY <1>f, <1>c, <1>h, <2>1, <2>2, RetryOutcome DEF Places
<1>1. CASE Backoff(j)
  BY <1>1, <1>c, <1>h DEF Backoff, Goto, reading, Types, Places
<1>2. CASE Acquire(j)
  BY <1>2, <1>c, <1>h DEF Acquire, Goto, reading, Types, Places
<1>3. CASE AcquireTimeout(j)
  BY <1>3, <1>f DEF AcquireTimeout
<1>4. CASE OpenOk(j)
  <2>1. UNCHANGED cur /\ open' = [open EXCEPT ![Cur(j)] = TRUE]
    BY <1>4 DEF OpenOk
  <2>2. pc'[j] \in {"user", "body"} /\ \A k \in Jobs : k # j => pc'[k] = pc[k]
    BY <1>4 DEF OpenOk, HandBack, Goto, Types
  <2>3. \A h \in Handles : wrapper'[h] = "none" => wrapper[h] = "none" /\ h # Cur(j)
    BY <1>4, <1>h DEF OpenOk, Types
  <2> QED
    BY <1>c, <1>h, <1>k, <2>1, <2>2, <2>3 DEF Types, Places
<1>5. ASSUME NEW kind \in {"temp", "perm"}, OpenFails(j, kind) PROVE Places'
  BY <1>5, <1>f DEF OpenFails
<1>6. CASE OpenPanics(j) \/ AdvancePanics(j) \/ UserEnds(j)
  <2>1. /\ UNCHANGED <<cur, wrapper>>
        /\ open' = [h \in Handles |-> open[h] /\ h[1] # j]
        /\ \E where \in {"panic", "overrun", "end"} : pc' = [pc EXCEPT ![j] = where]
    BY <1>6 DEF OpenPanics, AdvancePanics, UserEnds, Goto
  <2>2. \A k \in Jobs : k # j => open'[Cur(k)] = open[Cur(k)]
    BY <2>1, <1>h DEF Cur, Types
  <2>3. \A h \in Handles : open'[h] => open[h]
    BY <2>1
  <2>4. pc'[j] \in {"panic", "overrun", "end"} /\ \A k \in Jobs : k # j => pc'[k] = pc[k]
    BY <2>1 DEF Types
  <2>5. \A k \in Jobs : Cur(k)' = Cur(k)
    BY <1>c, <2>1
  <2>6. \A h \in Handles : wrapper'[h] = "none" => ~open'[h]
    BY <2>1 DEF Places
  <2> QED
    BY <1>h, <2>2, <2>4, <2>5, <2>6 DEF Places
<1>7. CASE BodyData(j) \/ BodyTooMuch(j) \/ BodyEnd(j)
  <2>1. UNCHANGED <<cur, open>>
    BY <1>7, AdvanceCases DEF Advance, BodyEnd
  <2>2. pc' = [pc EXCEPT ![j] = "user"] /\ wrapper' = [wrapper EXCEPT ![Cur(j)] = "some"]
    BY <1>7, AdvanceCases DEF Advance, BodyEnd, HandBack, Goto
  <2> QED
    BY <1>c, <1>h, <2>1, <2>2 DEF Types, Places
<1>9. ASSUME NEW kind \in {"temp", "perm"}, FailedReader(j, kind) PROVE Places'
  BY <1>9, <1>f DEF FailedReader
<1>10. CASE BodyBreaksOff(j) \/ BodyOverlong(j)
  BY <1>9, <1>10, CheckFails
<1>11. CASE UserOpen(j)
  <2>1. PICK i \in 1..Need : wrapper[<<j, i>>] = "none" /\ cur' = [cur EXCEPT ![j] = i]
    BY <1>11 DEF UserOpen
  <2>2. UNCHANGED <<open, wrapper>> /\ pc' = [pc EXCEPT ![j] = "acquire"]
    BY <1>11 DEF UserOpen, Goto, reading
  <2>3. <<j, i>> \in Handles /\ Cur(j)' = <<j, i>> /\ \A k \in Jobs : k # j => Cur(k)' = Cur(k)
    BY <2>1 DEF Cur, Handles, Types
  <2> QED
    BY <1>h, <2>1, <2>2, <2>3 DEF Types, Places
<1>12. ASSUME NEW i \in 1..Need, UserRead(j, i) PROVE Places'
  <2>1. /\ UNCHANGED open
        /\ cur' = [cur EXCEPT ![j] = i]
        /\ wrapper' = [wrapper EXCEPT ![<<j, i>>] = "taken"]
        /\ pc' = [pc EXCEPT ![j] = IF open[<<j, i>>] THEN "body" ELSE "acquire"]
    BY <1>12 DEF UserRead, Goto
  <2>2. <<j, i>> \in Handles /\ Cur(j)' = <<j, i>> /\ \A k \in Jobs : k # j => Cur(k)' = Cur(k)
    BY <2>1 DEF Cur, Handles, Types
  <2>3. \A h \in Handles : wrapper'[h] = "none" => wrapper[h] = "none"
    BY <2>1, <2>2 DEF Types
  <2>4. pc'[j] \in {"body", "acquire"} /\ (pc'[j] = "body" <=> open[<<j, i>>])
        /\ \A k \in Jobs : k # j => pc'[k] = pc[k]
    BY <2>1, <2>2 DEF Types
  <2> QED
    BY <1>h, <2>1, <2>2, <2>3, <2>4 DEF Types, Places
<1>14. CASE UserDrops(j)
  <2>1. /\ UNCHANGED <<cur, wrapper>> /\ open' = [open EXCEPT ![Cur(j)] = FALSE]
        /\ pc' = [pc EXCEPT ![j] = "user"]
    BY <1>14 DEF UserDrops, HandBack, Goto
  <2> QED
    BY <1>c, <1>h, <1>k, <2>1 DEF Types, Places
<1> QED
  BY <1>1, <1>2, <1>3, <1>4, <1>5, <1>6, <1>7, <1>9, <1>10, <1>11, <1>12, <1>14
  DEF Step, User, BodyFails

---------------------------------------------------------------------------
(* Permits.                                                                *)

\* A permit that moves between the semaphore, an open that is under way and a
\* reader is still the same permit.
LEMMA PermitMoves ==
  ASSUME PermitsConserved, Types, NEW j, NEW h,
         \/ free' = free /\ Opening' = Opening /\ Open' = Open
         \/ free' = free - 1 /\ j \notin Opening /\ Opening' = Opening \cup {j} /\ Open' = Open
         \/ free' = free + 1 /\ j \in Opening /\ Opening' = Opening \ {j} /\ Open' = Open
         \/ free' = free + 1 /\ h \in Open /\ Open' = Open \ {h} /\ Opening' = Opening
         \/ /\ free' = free
            /\ j \in Opening /\ Opening' = Opening \ {j}
            /\ h \notin Open /\ Open' = Open \cup {h}
  PROVE  PermitsConserved'
<1> DEFINE a == Cardinality(Opening)
           b == Cardinality(Open)
<1>1. free + a + b = Permits /\ free \in Nat /\ a \in Nat /\ b \in Nat
  BY Conserves, HoldersFinite DEF Types
<1>2. /\ j \notin Opening => Cardinality(Opening \cup {j}) = a + 1
      /\ j \in Opening => Cardinality(Opening \ {j}) = a - 1
  BY HoldersFinite, FS_AddElement, FS_RemoveElement
<1>3. /\ h \notin Open => Cardinality(Open \cup {h}) = b + 1
      /\ h \in Open => Cardinality(Open \ {h}) = b - 1
  BY HoldersFinite, FS_AddElement, FS_RemoveElement
<1> HIDE DEF a, b
<1>4. free' + Cardinality(Opening') + Cardinality(Open') = Permits
  <2>1. CASE free' = free /\ Opening' = Opening /\ Open' = Open
    BY <1>1, <2>1 DEF a, b
  <2>2. CASE free' = free - 1 /\ j \notin Opening /\ Opening' = Opening \cup {j} /\ Open' = Open
    <3>1. Cardinality(Opening') = a + 1 /\ Cardinality(Open') = b
      BY <1>2, <2>2 DEF b
    <3> QED
      BY <1>1, <2>2, <3>1
  <2>3. CASE free' = free + 1 /\ j \in Opening /\ Opening' = Opening \ {j} /\ Open' = Open
    <3>1. Cardinality(Opening') = a - 1 /\ Cardinality(Open') = b
      BY <1>2, <2>3 DEF b
    <3> QED
      BY <1>1, <2>3, <3>1
  <2>4. CASE free' = free + 1 /\ h \in Open /\ Open' = Open \ {h} /\ Opening' = Opening
    <3>1. Cardinality(Open') = b - 1 /\ Cardinality(Opening') = a
      BY <1>3, <2>4 DEF a
    <3> QED
      BY <1>1, <2>4, <3>1
  <2>5. CASE /\ free' = free
             /\ j \in Opening /\ Opening' = Opening \ {j}
             /\ h \notin Open /\ Open' = Open \cup {h}
    <3>1. Cardinality(Opening') = a - 1 /\ Cardinality(Open') = b + 1
      BY <1>2, <1>3, <2>5
    <3> QED
      BY <1>1, <2>5, <3>1
  <2> QED
    BY <2>1, <2>2, <2>3, <2>4, <2>5
<1> QED
  BY <1>4, ConservesNext

\* A job that ends gives back what all its readers hold, and its own permit
\* if an open was under way.
LEMMA PermitsOfJob ==
  ASSUME PermitsConserved, Types, NEW j \in Jobs,
         Open' = Open \ OpenOf(j),
         \/ /\ j \notin Opening /\ Opening' = Opening
            /\ free' = free + Cardinality(OpenOf(j))
         \/ /\ j \in Opening /\ Opening' = Opening \ {j}
            /\ free' = free + 1 + Cardinality(OpenOf(j))
  PROVE  PermitsConserved'
<1> DEFINE a == Cardinality(Opening)
           b == Cardinality(Open)
           c == Cardinality(OpenOf(j))
<1>1. free + a + b = Permits /\ free \in Nat /\ a \in Nat /\ b \in Nat /\ c \in Nat
  BY Conserves, HoldersFinite, OpenOfFinite DEF Types
<1>2. Cardinality(Open') = b - c
  <2>1. Cardinality(Open \ OpenOf(j)) = b - Cardinality(Open \cap OpenOf(j))
    BY HoldersFinite, FS_Difference
  <2>2. Open \cap OpenOf(j) = OpenOf(j)
    BY OpenOfFinite
  <2> QED
    BY <2>1, <2>2
<1>3. j \in Opening => Cardinality(Opening \ {j}) = a - 1
  BY HoldersFinite, FS_RemoveElement
<1>4. CASE j \notin Opening /\ Opening' = Opening /\ free' = free + c
  <2>1. Cardinality(Opening') = a
    BY <1>4
  <2> HIDE DEF a, b, c
  <2>2. free' + Cardinality(Opening') + Cardinality(Open') = Permits
    BY <1>1, <1>2, <1>4, <2>1
  <2> QED
    BY <2>2, ConservesNext
<1>5. CASE j \in Opening /\ Opening' = Opening \ {j} /\ free' = free + 1 + c
  <2>1. Cardinality(Opening') = a - 1
    BY <1>3, <1>5
  <2> HIDE DEF a, b, c
  <2>2. free' + Cardinality(Opening') + Cardinality(Open') = Permits
    BY <1>1, <1>2, <1>5, <2>1
  <2> QED
    BY <2>2, ConservesNext
<1> QED
  BY <1>4, <1>5

\* Every step keeps the permits.
LEMMA PermitsStep ==
  ASSUME Types, Places, PermitsConserved, Next
  PROVE  PermitsConserved'
<1> PICK j \in Jobs : Step(j) \/ Acquire(j) \/ User(j) \/ UserDrops(j)
  BY DEF Next
<1> DEFINE h == Cur(j)
<1>h. h \in Handles
  BY CurHandle
<1> HIDE DEF h
\* Which sets a step changes.
<1>a. ASSUME NEW where, pc' = [pc EXCEPT ![j] = where]
      PROVE  /\ where = "open" => Opening' = Opening \cup {j}
             /\ where # "open" => Opening' = Opening \ {j}
  BY <1>a, ConservesNext DEF Opening, Types
<1>b. /\ open' = open => Open' = Open
      /\ open' = [open EXCEPT ![h] = TRUE] => Open' = Open \cup {h}
      /\ open' = [open EXCEPT ![h] = FALSE] => Open' = Open \ {h}
  BY <1>h, ConservesNext DEF Open, Types
<1>c. (j \in Opening <=> pc[j] = "open") /\ (h \in Open <=> open[h])
  BY <1>h DEF Opening, Open
<1>d. j \notin Opening => Opening \ {j} = Opening
  OBVIOUS
<1>e. h \notin Open => Open \ {h} = Open
  OBVIOUS
<1>f. ASSUME NEW kind \in {"temp", "perm"}, Retry(j, kind) PROVE Opening' = Opening \ {j}
  BY <1>f, RetryOutcome, ConservesNext DEF Opening
<1>1. CASE Backoff(j)
  <2>1. free' = free /\ Opening' = Opening \ {j} /\ Open' = Open /\ j \notin Opening
    <3>1. \E where \in {"body", "acquire"} : pc' = [pc EXCEPT ![j] = where]
      BY <1>1 DEF Backoff, Goto
    <3>2. Opening' = Opening \ {j}
      BY <3>1, <1>a
    <3> QED
      BY <1>1, <3>2, <1>b, <1>c DEF Backoff, reading
  <2> QED
    BY <2>1, <1>d, PermitMoves
<1>2. CASE Acquire(j)
  <2>1. free' = free - 1 /\ Opening' = Opening \cup {j} /\ Open' = Open /\ j \notin Opening
    BY <1>2, <1>a, <1>b, <1>c DEF Acquire, Goto, reading
  <2> QED
    BY <2>1, PermitMoves
<1>3. CASE AcquireTimeout(j)
  <2>1. free' = free /\ Opening' = Opening \ {j} /\ Open' = Open /\ j \notin Opening
    BY <1>3, <1>f, <1>b, <1>c DEF AcquireTimeout
  <2> QED
    BY <2>1, <1>d, PermitMoves
<1>4. CASE OpenOk(j)
  <2>1. free' = free /\ j \in Opening /\ Open' = Open \cup {h} /\ h \notin Open
    BY <1>4, <1>b, <1>c DEF OpenOk, Places, h
  <2>2. Opening' = Opening \ {j}
    BY <1>4, <1>a DEF OpenOk, HandBack, Goto
  <2> QED
    BY <2>1, <2>2, PermitMoves
<1>5. ASSUME NEW kind \in {"temp", "perm"}, OpenFails(j, kind) PROVE PermitsConserved'
  <2>1. free' = free + 1 /\ j \in Opening /\ Opening' = Opening \ {j} /\ Open' = Open
    BY <1>5, <1>f, <1>b, <1>c DEF OpenFails
  <2> QED
    BY <2>1, PermitMoves
<1>6. CASE OpenPanics(j) \/ AdvancePanics(j) \/ UserEnds(j)
  <2>1. Open' = Open \ OpenOf(j)
    <3>1. open' = [g \in Handles |-> open[g] /\ g[1] # j]
      BY <1>6 DEF OpenPanics, AdvancePanics, UserEnds
    <3>2. \A g \in Handles : g \in OpenOf(j) <=> open[g] /\ g[1] = j
      BY DEF OpenOf, Handles
    <3> QED
      BY <3>1, <3>2, ConservesNext DEF Open
  <2>2. CASE OpenPanics(j)
    <3>1. j \in Opening /\ Opening' = Opening \ {j} /\ free' = free + 1 + Cardinality(OpenOf(j))
      <4>1. pc[j] = "open" /\ pc' = [pc EXCEPT ![j] = "panic"]
        BY <2>2 DEF OpenPanics, Goto
      <4>2. free' = free + 1 + Cardinality(OpenOf(j))
        BY <2>2 DEF OpenPanics, OpenOf
      <4>3. Opening' = Opening \ {j}
        BY <4>1, ConservesNext DEF Opening, Types
      <4> QED
        BY <4>1, <4>2, <4>3, <1>c
    <3> QED
      BY <2>1, <3>1, PermitsOfJob
  <2>3. CASE AdvancePanics(j) \/ UserEnds(j)
    <3>1. j \notin Opening /\ Opening' = Opening \ {j} /\ free' = free + Cardinality(OpenOf(j))
      <4>1. /\ pc[j] # "open"
            /\ \E where \in {"overrun", "end"} : pc' = [pc EXCEPT ![j] = where]
        BY <2>3 DEF AdvancePanics, UserEnds, Goto
      <4>2. free' = free + Cardinality(OpenOf(j))
        BY <2>3 DEF AdvancePanics, UserEnds, OpenOf
      <4>3. Opening' = Opening \ {j}
        BY <4>1, ConservesNext DEF Opening, Types
      <4> QED
        BY <4>1, <4>2, <4>3, <1>c
    <3> QED
      BY <2>1, <3>1, <1>d, PermitsOfJob
  <2> QED
    BY <1>6, <2>2, <2>3
<1>7. CASE BodyData(j) \/ BodyTooMuch(j) \/ BodyEnd(j)
  <2>1. /\ pc[j] = "body" /\ pc' = [pc EXCEPT ![j] = "user"]
        /\ free' = free /\ open' = open
    BY <1>7, AdvanceCases DEF Advance, BodyEnd, HandBack, Goto
  <2>2. free' = free /\ Opening' = Opening \ {j} /\ Open' = Open /\ j \notin Opening
    <3>1. Opening' = Opening \ {j}
      BY <2>1, ConservesNext DEF Opening, Types
    <3> QED
      BY <2>1, <3>1, <1>b, <1>c
  <2> QED
    BY <2>2, <1>d, PermitMoves
<1>9. ASSUME NEW kind \in {"temp", "perm"}, FailedReader(j, kind) PROVE PermitsConserved'
  <2>1. free' = free + 1 /\ Opening' = Opening \ {j} /\ j \notin Opening
    BY <1>9, <1>f, <1>c DEF FailedReader
  <2>2. h \in Open /\ Open' = Open \ {h}
    BY <1>9, <1>b, <1>c DEF FailedReader, Places, h
  <2> QED
    BY <2>1, <2>2, <1>d, PermitMoves
<1>10. CASE BodyBreaksOff(j) \/ BodyOverlong(j)
  BY <1>9, <1>10, CheckFails
<1>11. CASE UserOpen(j) \/ \E i \in 1..Need : UserRead(j, i)
  <2>1. free' = free /\ Opening' = Opening \ {j} /\ Open' = Open /\ j \notin Opening
    <3>1. \E where \in {"body", "acquire"} : pc' = [pc EXCEPT ![j] = where]
      BY <1>11 DEF UserOpen, UserRead, Goto
    <3>2. Opening' = Opening \ {j}
      BY <3>1, <1>a
    <3> QED
      BY <1>11, <3>2, <1>b, <1>c DEF UserOpen, UserRead, reading
  <2> QED
    BY <2>1, <1>d, PermitMoves
<1>14. CASE UserDrops(j)
  <2>1. Opening' = Opening \ {j} /\ Open' = Open \ {h}
    <3>1. pc' = [pc EXCEPT ![j] = "user"] /\ open' = [open EXCEPT ![h] = FALSE]
      BY <1>14 DEF UserDrops, HandBack, Goto, h
    <3>2. Opening' = Opening \ {j}
      BY <3>1, ConservesNext DEF Opening, Types
    <3> QED
      BY <3>1, <3>2, <1>b
  <2>2. free' = IF j \in Opening \/ h \in Open THEN free + 1 ELSE free
    BY <1>14, <1>c DEF UserDrops, h
  <2>3. ~(j \in Opening /\ h \in Open)
    BY <1>c DEF Places, h
  <2> QED
    BY <2>1, <2>2, <2>3, <1>d, <1>e, PermitMoves
<1> QED
  BY <1>1, <1>2, <1>3, <1>4, <1>5, <1>6, <1>7, <1>9, <1>10, <1>11, <1>14
  DEF Step, User, BodyFails

---------------------------------------------------------------------------
(* Bytes.                                                                  *)

\* A step that moves no bytes, and opens no reader, keeps both invariants.
LEMMA NothingRead ==
  ASSUME Types, Resumes, EofMeansComplete,
         UNCHANGED <<sized, lengthKnown, at, left, range, got>>,
         \A h \in Handles : open'[h] => open[h],
         \A h \in Handles : result'[h] = "eof" => result[h] = "eof"
  PROVE  Resumes' /\ EofMeansComplete'
<1>1. Resumes'
  BY DEF Resumes
<1>2. EofMeansComplete'
  BY DEF EofMeansComplete
<1> QED
  BY <1>1, <1>2

\* Every step keeps the place in the object and the meaning of its end.
LEMMA BytesStep ==
  ASSUME Types, Places, Resumes, EofMeansComplete, Next
  PROVE  Resumes' /\ EofMeansComplete'
<1> PICK j \in Jobs : Step(j) \/ Acquire(j) \/ User(j) \/ UserDrops(j)
  BY DEF Next
<1> DEFINE h == Cur(j)
<1>h. h \in Handles
  BY CurHandle
<1> HIDE DEF h
<1>1. CASE Backoff(j) \/ Acquire(j) \/ UserOpen(j) \/ \E i \in 1..Need : UserRead(j, i)
  BY <1>1, NothingRead DEF Backoff, Acquire, UserOpen, UserRead, reading
<1>3. CASE AcquireTimeout(j)
  <2>1. \A g \in Handles : result'[g] \in {result[g], "err"}
    BY <1>3, RetryOutcome DEF AcquireTimeout
  <2> QED
    BY <1>3, <2>1, NothingRead DEF AcquireTimeout
<1>4. CASE OpenOk(j)
  <2>1. /\ open' = [open EXCEPT ![h] = TRUE]
        /\ at' = [at EXCEPT ![h] = range[h]]
        /\ left' = [left EXCEPT ![h] = IF range[h] < Size THEN Size - range[h] ELSE 0]
        /\ UNCHANGED <<sized, lengthKnown, range, got>>
    BY <1>4 DEF OpenOk, h
  <2>2. result' = result \/ result' = [result EXCEPT ![h] = "none"]
    BY <1>4 DEF OpenOk, HandBack, h
  <2>3. Resumes'
    BY <1>h, <2>1, RetryAssumption DEF Resumes, Types
  <2>4. \A g \in Handles : result'[g] = "eof" => result[g] = "eof"
    BY <1>h, <2>2 DEF Types
  <2>5. EofMeansComplete'
    BY <2>1, <2>4 DEF EofMeansComplete
  <2> QED
    BY <2>3, <2>5
<1>5. ASSUME NEW kind \in {"temp", "perm"}, OpenFails(j, kind)
      PROVE  Resumes' /\ EofMeansComplete'
  <2>1. \A g \in Handles : result'[g] \in {result[g], "err"}
    BY <1>5, RetryOutcome DEF OpenFails
  <2> QED
    BY <1>5, <2>1, NothingRead DEF OpenFails
<1>6. CASE OpenPanics(j) \/ AdvancePanics(j) \/ UserEnds(j)
  BY <1>6, NothingRead DEF OpenPanics, AdvancePanics, UserEnds
<1>7. CASE BodyData(j) \/ BodyTooMuch(j)
  <2>p. pc[j] = "body" /\ open[h]
    BY <1>7, AdvanceCases DEF Places, h
  <2>n. PICK n \in Nat : (sized => n <= left[h]) /\ Advance(j, n)
    BY <1>7, AdvanceCases DEF h
  <2>1. /\ at' = [at EXCEPT ![h] = @ + n]
        /\ left' = [left EXCEPT ![h] = @ - n]
        /\ range' = [range EXCEPT ![h] = @ + n]
        /\ got' = [got EXCEPT ![h] = @ + n]
    BY <2>n DEF Advance, h
  <2>2. /\ result' = [result EXCEPT ![h] = "data"]
        /\ UNCHANGED <<sized, lengthKnown, open>>
    BY <2>n DEF Advance, HandBack, h
  <2>3. Resumes'
    BY <1>h, <2>p, <2>n, <2>1, <2>2, RetryAssumption DEF Resumes, Types
  <2>4. EofMeansComplete'
    BY <1>h, <2>1, <2>2 DEF EofMeansComplete, Types
  <2> QED
    BY <2>3, <2>4
<1>8. CASE BodyEnd(j)
  <2>1. /\ result' = [result EXCEPT ![h] = "eof"]
        /\ UNCHANGED <<sized, lengthKnown, open, at, left, range, got>>
        /\ BodyCheck(h) = "ok"
    BY <1>8 DEF BodyEnd, HandBack, h
  <2>2. at[h] = got[h] /\ at[h] + left[h] >= Size /\ (sized => at[h] + left[h] = Size)
    BY <1>8, <1>h DEF BodyEnd, Places, Resumes, h
  <2>3. (sized \/ lengthKnown) => got[h] >= Size /\ (sized => got[h] = Size)
    BY <1>h, <2>1, <2>2, RetryAssumption DEF BodyCheck, Types
  <2>4. Resumes'
    BY <2>1 DEF Resumes
  <2>5. EofMeansComplete'
    BY <1>h, <2>1, <2>3 DEF EofMeansComplete, Types
  <2> QED
    BY <2>4, <2>5
<1>9. ASSUME NEW kind \in {"temp", "perm"}, FailedReader(j, kind)
      PROVE  Resumes' /\ EofMeansComplete'
  <2>1. \A g \in Handles : result'[g] \in {result[g], "err"}
    BY <1>9, RetryOutcome DEF FailedReader
  <2>2. /\ open' = [open EXCEPT ![h] = FALSE]
        /\ UNCHANGED <<sized, lengthKnown, at, left, range, got>>
    BY <1>9 DEF FailedReader, h
  <2>3. \A g \in Handles : open'[g] => open[g]
    BY <1>h, <2>2 DEF Types
  <2> QED
    BY <2>1, <2>2, <2>3, NothingRead
<1>10. CASE BodyBreaksOff(j) \/ BodyOverlong(j)
  BY <1>9, <1>10, CheckFails
<1>14. CASE UserDrops(j)
  <2>1. /\ open' = [open EXCEPT ![h] = FALSE]
        /\ result' = [result EXCEPT ![h] = "err"]
        /\ UNCHANGED <<sized, lengthKnown, at, left, range, got>>
    BY <1>14 DEF UserDrops, HandBack, h
  <2>2. /\ \A g \in Handles : open'[g] => open[g]
        /\ \A g \in Handles : result'[g] = "eof" => result[g] = "eof"
    BY <1>h, <2>1 DEF Types
  <2> QED
    BY <2>1, <2>2, NothingRead
<1> QED
  BY <1>1, <1>3, <1>4, <1>5, <1>6, <1>7, <1>8, <1>9, <1>10, <1>14
  DEF Step, User, BodyFails

---------------------------------------------------------------------------
(* The invariant and what it says.                                         *)

LEMMA InitIInv == Init => IInv
<1> SUFFICES ASSUME Init PROVE IInv
  OBVIOUS
<1>1. Types
  BY RetryAssumption DEF Init, Types
<1>2. Places
  <2>1. \A j \in Jobs : pc[j] = "user"
    BY DEF Init
  <2>2. \A h \in Handles : ~open[h]
    BY DEF Init
  <2> QED
    BY <2>1, <2>2 DEF Places
<1>3. PermitsConserved
  <2>1. {j \in Jobs : pc[j] = "open"} = {} /\ {h \in Handles : open[h]} = {}
    BY DEF Init
  <2>2. Cardinality({}) = 0
    BY FS_EmptySet
  <2> QED
    BY <2>1, <2>2, RetryAssumption DEF Init, PermitsConserved
<1>4. Resumes /\ EofMeansComplete
  BY RetryAssumption DEF Init, Resumes, EofMeansComplete
<1> QED
  BY <1>1, <1>2, <1>3, <1>4 DEF IInv

LEMMA NextIInv == IInv /\ [Next]_vars => IInv'
<1> SUFFICES ASSUME IInv, [Next]_vars PROVE IInv'
  OBVIOUS
<1>1. CASE Next
  <2>1. Types'
    BY <1>1, TypesStep DEF IInv
  <2>2. Places'
    BY <1>1, <2>1, PlacesStep DEF IInv
  <2>3. PermitsConserved'
    BY <1>1, PermitsStep DEF IInv
  <2>4. Resumes' /\ EofMeansComplete'
    BY <1>1, BytesStep DEF IInv
  <2> QED
    BY <2>1, <2>2, <2>3, <2>4 DEF IInv
<1>2. CASE UNCHANGED vars
  BY <1>2 DEF vars, reading, IInv, Types, Places, Cur, PermitsConserved, Resumes,
     EofMeansComplete
<1> QED
  BY <1>1, <1>2

\* The inductive invariant of the stack of layers (retry/src/lib.rs,
\* concurrent-limit/src/lib.rs).
THEOREM Inductive == Spec => []IInv
  BY InitIInv, NextIInv, PTL DEF Spec

\* The types; in particular the semaphore never holds more permits than it
\* was made with, and no call is retried more than max_times times.
THEOREM TypeCorrect == Spec => []TypeOK
<1>1. IInv => TypeOK
  <2> SUFFICES ASSUME IInv PROVE TypeOK
    OBVIOUS
  <2>1. free <= Permits
    <3>1. /\ free \in Nat /\ Cardinality(Opening) \in Nat /\ Cardinality(Open) \in Nat
          /\ free + Cardinality(Opening) + Cardinality(Open) = Permits
      BY HoldersFinite, Conserves DEF IInv, Types
    <3> QED
      BY <3>1, RetryAssumption
  <2> QED
    BY <2>1, RetryAssumption DEF IInv, Types, TypeOK
<1>2. QED
  BY <1>1, Inductive, PTL

\* No permit of ConcurrentLimitLayer is lost or given back twice, whatever
\* fails, is retried, is dropped or panics, for any number of jobs.
THEOREM PermitsAreConserved == Spec => []PermitsConserved
<1>1. IInv => PermitsConserved
  BY DEF IInv
<1>2. QED
  BY <1>1, Inductive, PTL

\* A reader that is opened again after a failure continues with the first
\* byte not returned yet, and its end is reported only when all bytes were
\* returned, as long as a size is known.
THEOREM RetriedReadsObject == Spec => []ReadsObject
<1>1. IInv => ReadsObject
  BY DEF IInv, ReadsObject
<1>2. QED
  BY <1>1, Inductive, PTL
=============================================================================
