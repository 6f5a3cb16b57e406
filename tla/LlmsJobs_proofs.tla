-------------------------- MODULE LlmsJobs_proofs --------------------------
(***************************************************************************)
(* Theorems about LlmsJobs for any number of jobs, attempts and URLs.      *)
(* BilledOnce is not inductive: a claim of a job that was already billed   *)
(* would break it.  The invariant says what the row of a job can be while  *)
(* a worker has it at a given step, hence that only an unbilled job is     *)
(* ever pending, and when an attempt can still make up for a failure.      *)
(***************************************************************************)
EXTENDS LlmsJobs, TLAPS

Claimed == {"acquire", "poll", "process", "generate", "upload", "complete", "fail"}

\* A call that has not inserted its row has none; River has jobs with a row.
StartInv(j) ==
    /\ start[j] \in {"idle", "lookup", "serve", "insert"} => status[j] = "none"
    /\ queue[j] # "none" => start[j] \in {"queued", "orphaned"} /\ status[j] # "none"
    /\ start[j] = "enqueue" => status[j] # "none"
    /\ cancel[j] = "write" => status[j] # "none"

\* A worker has a running job, and an available one has an attempt left.
QueueInv(j) ==
    /\ queue[j] = "none" => attempt[j] = 0
    /\ queue[j] = "available" => attempt[j] < MaxAttempts
    /\ work[j] # "idle" => queue[j] = "running"

\* What the row is while a worker has claimed it.
WorkInv(j) ==
    /\ work[j] \in {"acquire", "poll", "process"} => status[j] \in {"crawling", "cancelled"}
    /\ work[j] \in Claimed => status[j] \in {"crawling", "processing", "cancelled"}
    /\ work[j] \in {"bill", "return"} => status[j] # "pending"

\* A billed job is not pending again, and billing follows the upload.
BillInv(j) ==
    /\ billed[j] \in {0, 1}
    /\ work[j] \in Claimed \cup {"bill"} => billed[j] = 0
    /\ work[j] \in {"complete", "bill"} => j \in uploaded
    /\ billed[j] = 1 => j \in uploaded /\ queue[j] # "none" /\ status[j] # "pending"

\* An active row is claimed, still to be claimed, or stuck.
SettleInv(j) ==
    /\ status[j] \in {"crawling", "processing"} => work[j] \in Claimed \/ j \in stuck
    /\ status[j] = "pending" =>
        \/ queue[j] \in {"none", "available"}
        \/ queue[j] = "running" /\ (work[j] = "claim" \/ attempt[j] < MaxAttempts)
        \/ j \in stuck

JobInv(j) == StartInv(j) /\ QueueInv(j) /\ WorkInv(j) /\ BillInv(j) /\ SettleInv(j)

IInv == TypeOK /\ \A j \in Job : JobInv(j)

-----------------------------------------------------------------------------
\* The invariant holds before the first call.
LEMMA InitIInv == Init => IInv
<1> SUFFICES ASSUME Init PROVE IInv
  OBVIOUS
<1>1. TypeOK
  BY JobsAssumption DEF Init, TypeOK, Status, Active, Terminal, Finished, StartPC, WorkPC
<1>2. ASSUME NEW j \in Job PROVE JobInv(j)
  BY DEF Init, JobInv, StartInv, QueueInv, WorkInv, BillInv, SettleInv, Claimed
<1> QED
  BY <1>1, <1>2 DEF IInv

\* What a step of j leaves alone for k keeps the invariant for k.
LEMMA Untouched ==
    ASSUME NEW k \in Job, JobInv(k),
           status'[k] = status[k], start'[k] = start[k], cancel'[k] = cancel[k],
           queue'[k] = queue[k], attempt'[k] = attempt[k], work'[k] = work[k],
           billed'[k] = billed[k], k \in uploaded => k \in uploaded',
           k \in stuck => k \in stuck'
    PROVE  JobInv(k)'
BY DEF JobInv, StartInv, QueueInv, WorkInv, BillInv, SettleInv

\* A step of StartJob or CancelJob keeps the invariant.
LEMMA CallStep ==
    ASSUME NEW j \in Job, IInv, 
           \/ StartCount(j) \/ StartLookup(j) \/ StartServe(j) \/ StartCopy(j)
           \/ StartInsert(j) \/ StartEnqueue(j) \/ CancelRead(j) \/ CancelWrite(j)
    PROVE  IInv'
<1> USE DEF rows, river
<1>1. TypeOK'
  <2> USE DEF IInv, TypeOK, Status, Active, Terminal, StartPC, WorkPC, Finished
  <2>1. CASE StartCount(j)
    BY <2>1, JobsAssumption DEF StartCount, StartAt
  <2>2. CASE StartLookup(j)
    BY <2>2, JobsAssumption DEF StartLookup, StartAt
  <2>3. CASE StartServe(j)
    BY <2>3, JobsAssumption DEF StartServe, StartAt, SetStatus
  <2>4. CASE StartCopy(j)
    BY <2>4, JobsAssumption DEF StartCopy, StartAt
  <2>5. CASE StartInsert(j)
    BY <2>5, JobsAssumption DEF StartInsert, StartAt, SetStatus
  <2>6. CASE StartEnqueue(j)
    BY <2>6, JobsAssumption DEF StartEnqueue, StartAt
  <2>7. CASE CancelRead(j)
    BY <2>7, JobsAssumption DEF CancelRead
  <2>8. CASE CancelWrite(j)
    BY <2>8, JobsAssumption DEF CancelWrite, SetStatus
  <2> QED
    BY <2>1, <2>2, <2>3, <2>4, <2>5, <2>6, <2>7, <2>8
<1>2. JobInv(j)'
  <2>0. JobInv(j) /\ TypeOK
    BY DEF IInv
  <2> USE <2>0 DEF JobInv, StartInv, QueueInv, WorkInv, BillInv, SettleInv, Claimed, TypeOK
  <2>1. CASE StartCount(j)
    BY <2>1, JobsAssumption DEF StartCount, StartAt
  <2>2. CASE StartLookup(j)
    BY <2>2, JobsAssumption DEF StartLookup, StartAt
  <2>3. CASE StartServe(j)
    BY <2>3, JobsAssumption DEF StartServe, StartAt, SetStatus
  <2>4. CASE StartCopy(j)
    BY <2>4, JobsAssumption DEF StartCopy, StartAt
  <2>5. CASE StartInsert(j)
    BY <2>5, JobsAssumption DEF StartInsert, StartAt, SetStatus
  <2>6. CASE StartEnqueue(j)
    BY <2>6, JobsAssumption DEF StartEnqueue, StartAt
  <2>7. CASE CancelRead(j)
    BY <2>7, JobsAssumption DEF CancelRead, Active
  <2>8. CASE CancelWrite(j)
    BY <2>8, JobsAssumption DEF CancelWrite, SetStatus
  <2> QED
    BY <2>1, <2>2, <2>3, <2>4, <2>5, <2>6, <2>7, <2>8
<1>3. ASSUME NEW k \in Job, k # j PROVE JobInv(k)'
  <2>0. JobInv(k) /\ TypeOK
    BY DEF IInv
  <2> USE DEF TypeOK
  <2>1. CASE StartCount(j)
    BY <2>0, <2>1, <1>3, Untouched DEF StartCount, StartAt
  <2>2. CASE StartLookup(j)
    BY <2>0, <2>2, <1>3, Untouched DEF StartLookup, StartAt
  <2>3. CASE StartServe(j)
    BY <2>0, <2>3, <1>3, Untouched DEF StartServe, StartAt, SetStatus
  <2>4. CASE StartCopy(j)
    BY <2>0, <2>4, <1>3, Untouched DEF StartCopy, StartAt
  <2>5. CASE StartInsert(j)
    BY <2>0, <2>5, <1>3, Untouched DEF StartInsert, StartAt, SetStatus
  <2>6. CASE StartEnqueue(j)
    BY <2>0, <2>6, <1>3, Untouched DEF StartEnqueue, StartAt
  <2>7. CASE CancelRead(j)
    BY <2>0, <2>7, <1>3, Untouched DEF CancelRead
  <2>8. CASE CancelWrite(j)
    BY <2>0, <2>8, <1>3, Untouched DEF CancelWrite, SetStatus
  <2> QED
    BY <2>1, <2>2, <2>3, <2>4, <2>5, <2>6, <2>7, <2>8
<1> QED
  BY <1>1, <1>2, <1>3 DEF IInv

\* A step of a worker keeps it: the claim is what BillInv and WorkInv rest on.
LEMMA WorkerStep ==
    ASSUME NEW j \in Job, IInv, 
           \/ Claim(j) \/ Acquire(j) \/ Poll(j) \/ Process(j) \/ Generate(j)
           \/ Upload(j) \/ Complete(j) \/ Bill(j) \/ Fail(j) \/ Report(j)
    PROVE  IInv'
<1> USE DEF rows, river
<1>1. TypeOK'
  <2> USE DEF IInv, TypeOK, Status, Active, Terminal, StartPC, WorkPC, Finished
  <2>1. CASE Claim(j)
    BY <2>1, JobsAssumption DEF Claim, WorkAt, SetStatus, Strand
  <2>2. CASE Acquire(j)
    BY <2>2, JobsAssumption DEF Acquire, WorkAt
  <2>3. CASE Poll(j)
    BY <2>3, JobsAssumption DEF Poll, WorkAt
  <2>4. CASE Process(j)
    BY <2>4, JobsAssumption DEF Process, WorkAt, SetStatus
  <2>5. CASE Generate(j)
    BY <2>5, JobsAssumption DEF Generate, WorkAt
  <2>6. CASE Upload(j)
    BY <2>6, JobsAssumption DEF Upload, WorkAt
  <2>7. CASE Complete(j)
    BY <2>7, JobsAssumption DEF Complete, WorkAt, SetStatus, TrySetStatus
  <2>8. CASE Bill(j)
    BY <2>8, JobsAssumption DEF Bill, WorkAt
  <2>9. CASE Fail(j)
    BY <2>9, JobsAssumption DEF Fail, WorkAt, SetStatus, TrySetStatus
  <2>10. CASE Report(j)
    BY <2>10, JobsAssumption DEF Report, WorkAt, Retry
  <2> QED
    BY <2>1, <2>2, <2>3, <2>4, <2>5, <2>6, <2>7, <2>8, <2>9, <2>10
<1>2. JobInv(j)'
  <2>0. JobInv(j) /\ TypeOK
    BY DEF IInv
  <2> USE <2>0 DEF JobInv, StartInv, QueueInv, WorkInv, BillInv, SettleInv, Claimed, TypeOK
  <2>1. CASE Claim(j)
    BY <2>1, JobsAssumption DEF Claim, WorkAt, SetStatus, Strand
  <2>2. CASE Acquire(j)
    BY <2>2, JobsAssumption DEF Acquire, WorkAt
  <2>3. CASE Poll(j)
    BY <2>3, JobsAssumption DEF Poll, WorkAt
  <2>4. CASE Process(j)
    BY <2>4, JobsAssumption DEF Process, WorkAt, SetStatus
  <2>5. CASE Generate(j)
    BY <2>5, JobsAssumption DEF Generate, WorkAt
  <2>6. CASE Upload(j)
    BY <2>6, JobsAssumption DEF Upload, WorkAt
  <2>7. CASE Complete(j)
    BY <2>7, JobsAssumption DEF Complete, WorkAt, SetStatus, TrySetStatus
  <2>8. CASE Bill(j)
    BY <2>8, JobsAssumption DEF Bill, WorkAt
  <2>9. CASE Fail(j)
    BY <2>9, JobsAssumption DEF Fail, WorkAt, SetStatus, TrySetStatus
  <2>10. CASE Report(j)
    BY <2>10, JobsAssumption DEF Report, WorkAt, Retry
  <2> QED
    BY <2>1, <2>2, <2>3, <2>4, <2>5, <2>6, <2>7, <2>8, <2>9, <2>10
<1>3. ASSUME NEW k \in Job, k # j PROVE JobInv(k)'
  <2>0. JobInv(k) /\ TypeOK
    BY DEF IInv
  <2> USE DEF TypeOK
  <2>1. CASE Claim(j)
    BY <2>0, <2>1, <1>3, Untouched DEF Claim, WorkAt, SetStatus, Strand
  <2>2. CASE Acquire(j)
    BY <2>0, <2>2, <1>3, Untouched DEF Acquire, WorkAt
  <2>3. CASE Poll(j)
    BY <2>0, <2>3, <1>3, Untouched DEF Poll, WorkAt
  <2>4. CASE Process(j)
    BY <2>0, <2>4, <1>3, Untouched DEF Process, WorkAt, SetStatus
  <2>5. CASE Generate(j)
    BY <2>0, <2>5, <1>3, Untouched DEF Generate, WorkAt
  <2>6. CASE Upload(j)
    BY <2>0, <2>6, <1>3, Untouched DEF Upload, WorkAt
  <2>7. CASE Complete(j)
    BY <2>0, <2>7, <1>3, Untouched DEF Complete, WorkAt, SetStatus, TrySetStatus
  <2>8. CASE Bill(j)
    BY <2>0, <2>8, <1>3, Untouched DEF Bill, WorkAt
  <2>9. CASE Fail(j)
    BY <2>0, <2>9, <1>3, Untouched DEF Fail, WorkAt, SetStatus, TrySetStatus
  <2>10. CASE Report(j)
    BY <2>0, <2>10, <1>3, Untouched DEF Report, WorkAt, Retry
  <2> QED
    BY <2>1, <2>2, <2>3, <2>4, <2>5, <2>6, <2>7, <2>8, <2>9, <2>10
<1> QED
  BY <1>1, <1>2, <1>3 DEF IInv

\* A fetch, a crash or a rescue keeps it.
LEMMA RiverStep ==
    ASSUME NEW j \in Job, IInv, Fetch(j) \/ Crash(j) \/ Rescue(j)
    PROVE  IInv'
<1> USE DEF rows, river
<1>1. TypeOK'
  <2> USE DEF IInv, TypeOK, Status, Active, Terminal, StartPC, WorkPC, Finished
  <2>1. CASE Fetch(j)
    BY <2>1, JobsAssumption DEF Fetch, WorkAt, JobInv, QueueInv
  <2>2. CASE Crash(j)
    BY <2>2, JobsAssumption DEF Crash, WorkAt, Strand
  <2>3. CASE Rescue(j)
    BY <2>3, JobsAssumption DEF Rescue, Retry
  <2> QED
    BY <2>1, <2>2, <2>3
<1>2. JobInv(j)'
  <2>0. JobInv(j) /\ TypeOK
    BY DEF IInv
  <2> USE <2>0 DEF JobInv, StartInv, QueueInv, WorkInv, BillInv, SettleInv, Claimed, TypeOK
  <2>1. CASE Fetch(j)
    BY <2>1, JobsAssumption DEF Fetch, WorkAt
  <2>2. CASE Crash(j)
    BY <2>2, JobsAssumption DEF Crash, WorkAt, Strand
  <2>3. CASE Rescue(j)
    BY <2>3, JobsAssumption DEF Rescue, Retry
  <2> QED
    BY <2>1, <2>2, <2>3
<1>3. ASSUME NEW k \in Job, k # j PROVE JobInv(k)'
  <2>0. JobInv(k) /\ TypeOK
    BY DEF IInv
  <2> USE DEF TypeOK
  <2>1. CASE Fetch(j)
    BY <2>0, <2>1, <1>3, Untouched DEF Fetch, WorkAt
  <2>2. CASE Crash(j)
    BY <2>0, <2>2, <1>3, Untouched DEF Crash, WorkAt, Strand
  <2>3. CASE Rescue(j)
    BY <2>0, <2>3, <1>3, Untouched DEF Rescue, Retry
  <2> QED
    BY <2>1, <2>2, <2>3
<1> QED
  BY <1>1, <1>2, <1>3 DEF IInv

\* The inductive invariant holds in every reachable state.
THEOREM Invariant == Spec => []IInv
<1>1. IInv /\ [Next]_vars => IInv'
  <2> SUFFICES ASSUME IInv, [Next]_vars PROVE IInv'
    OBVIOUS
  <2>1. ASSUME NEW j \in Job, StartCount(j) \/ CancelRead(j) \/ Handler(j) PROVE IInv'
    BY <2>1, CallStep DEF Handler
  <2>2. ASSUME NEW j \in Job, Worker(j) PROVE IInv'
    BY <2>2, WorkerStep DEF Worker
  <2>3. ASSUME NEW j \in Job, Fetch(j) \/ Crash(j) \/ Rescue(j) PROVE IInv'
    BY <2>3, RiverStep
  <2>4. ASSUME NEW u \in Url, Expire(u) PROVE IInv'
    <3>1. TypeOK'
      BY <2>4 DEF Expire, IInv, TypeOK, river
    <3>2. ASSUME NEW k \in Job PROVE JobInv(k)'
      BY <2>4, Untouched DEF Expire, IInv, river
    <3> QED
      BY <3>1, <3>2 DEF IInv
  <2>5. CASE UNCHANGED vars
    <3>1. TypeOK'
      BY <2>5 DEF vars, rows, river, IInv, TypeOK
    <3>2. ASSUME NEW k \in Job PROVE JobInv(k)'
      BY <2>5, Untouched DEF vars, rows, river, IInv
    <3> QED
      BY <3>1, <3>2 DEF IInv
  <2> QED
    BY <2>1, <2>2, <2>3, <2>4, <2>5 DEF Next
<1> QED
  BY InitIInv, <1>1, PTL DEF Spec

-----------------------------------------------------------------------------
\* Every variable keeps its type, and no job is tried more than MaxAttempts times.
THEOREM TypeCorrect == Spec => []TypeOK
<1>1. IInv => TypeOK
  BY DEF IInv
<1> QED
  BY Invariant, <1>1, PTL

\* However often River runs a job, its tokens are charged once, for a file that is there.
THEOREM ChargedOnce == Spec => []BilledOnce
<1>1. IInv => BilledOnce
  BY DEF IInv, JobInv, BillInv, StartInv, BilledOnce
<1> QED
  BY Invariant, <1>1, PTL

\* When River is done with a job its row is settled or known to be stuck.
THEOREM Settles == Spec => []RowSettles
<1>1. IInv => RowSettles
  <2> SUFFICES ASSUME IInv, NEW j \in Job, queue[j] \in Finished, j \notin stuck
               PROVE  status[j] \notin Active
    BY DEF RowSettles
  <2>1. SettleInv(j) /\ QueueInv(j)
    BY DEF IInv, JobInv
  <2>2. queue[j] \notin {"none", "available", "running"}
    BY DEF Finished
  <2>3. work[j] \notin Claimed
    BY <2>1, <2>2 DEF QueueInv, Claimed
  <2> QED
    BY <2>1, <2>2, <2>3 DEF SettleInv, Active
<1> QED
  BY Invariant, <1>1, PTL

\* A row that has completed or failed changes no more, but for a late cancel.
THEOREM EndsAreFinal == Spec => NeverRevived
<1>1. IInv /\ [Next]_vars =>
        [\A j \in Job : status[j] \in {"completed", "failed"}
                            => status'[j] \in {status[j], "cancelled"}]_vars
  <2> SUFFICES ASSUME IInv, Next, NEW k \in Job, status[k] \in {"completed", "failed"}
               PROVE  status'[k] \in {status[k], "cancelled"}
    BY DEF vars
  <2>0. JobInv(k) /\ TypeOK
    BY DEF IInv
  <2>1. PICK j \in Job : \/ StartServe(j) \/ StartInsert(j) \/ CancelWrite(j) \/ Claim(j)
                         \/ Process(j) \/ Complete(j) \/ Fail(j) \/ UNCHANGED status
    BY DEF Next, Handler, Worker, StartCount, StartLookup, StartCopy, StartEnqueue, CancelRead,
           Fetch, Acquire, Poll, Generate, Upload, Bill, Report, Crash, Rescue, Expire, rows
  <2> USE <2>0, <2>1 DEF JobInv, StartInv, WorkInv, Claimed, TypeOK
  <2>2. CASE StartServe(j) \/ StartInsert(j) \/ CancelWrite(j)
    BY <2>2 DEF StartServe, StartInsert, CancelWrite, SetStatus
  <2>3. CASE Claim(j) \/ Process(j)
    BY <2>3 DEF Claim, Process, SetStatus
  <2>4. CASE Complete(j) \/ Fail(j)
    BY <2>4 DEF Complete, Fail, SetStatus, TrySetStatus
  <2>5. CASE UNCHANGED status
    BY <2>5
  <2> QED
    BY <2>1, <2>2, <2>3, <2>4, <2>5
<1> QED
  BY Invariant, <1>1, PTL DEF Spec, NeverRevived
=============================================================================
