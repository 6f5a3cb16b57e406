------------------------------ MODULE LlmsJobs ------------------------------
(***************************************************************************)
(* Generation of llms.txt files (api/internal/llms/service.go): the row of *)
(* a job in llms_jobs, the River queue that runs it (api/cmd/worker), and  *)
(* the HTTP handlers that start and cancel it.  The jobs of one user.  A   *)
(* step is one SQL statement, or one call of another service.  It may fail,*)
(* because a context expired too, and whether it took effect then is open. *)
(* What the code makes of the error is modelled: several are ignored.      *)
(***************************************************************************)
EXTENDS Naturals, FiniteSets

CONSTANTS Job,          \* job ids, and the StartJob call that makes each
          Url,          \* normalized URL, depth and level: the cache's key
          MaxActive,    \* jobs a user may have active at once
          MaxAttempts   \* River attempts of a job

ASSUME JobsAssumption == MaxActive \in Nat \ {0} /\ MaxAttempts \in Nat \ {0}

VARIABLES
    status,     \* llms_jobs.status; "none": no row
    url,        \* what each call asks for
    results,    \* keys of llms_result_cache that have not expired
    start,      \* per job: its StartJob call
    cancel,     \* per job: a CancelJob call
    queue,      \* per job: its River job
    attempt,    \* per job: attempts River has made
    work,       \* per job: the worker that runs it
    uploaded,   \* jobs whose file is in R2
    billed,     \* per job: increments of the ai-token-used meter
    stuck       \* jobs that no worker will write a final status of

rows == <<status, results, uploaded, billed>>
river == <<queue, attempt>>
vars == <<rows, url, start, cancel, river, work, stuck>>

Active == {"pending", "crawling", "processing"}
Terminal == {"completed", "failed", "cancelled"}
Status == {"none"} \cup Active \cup Terminal
ActiveJobs == {j \in Job : status[j] \in Active}
Finished == {"completed", "discarded"}

Init ==
    /\ status = [j \in Job |-> "none"]
    /\ url \in [Job -> Url]
    /\ results = {}
    /\ start = [j \in Job |-> "idle"]
    /\ cancel = [j \in Job |-> "idle"]
    /\ queue = [j \in Job |-> "none"]
    /\ attempt = [j \in Job |-> 0]
    /\ work = [j \in Job |-> "idle"]
    /\ uploaded = {}
    /\ billed = [j \in Job |-> 0]
    /\ stuck = {}

StartAt(j, l) == start' = [start EXCEPT ![j] = l]
WorkAt(j, l) == work' = [work EXCEPT ![j] = l]
SetStatus(j, s) == status' = [status EXCEPT ![j] = s]
\* An UPDATE of the status whose error is ignored.
TrySetStatus(j, s) == \/ SetStatus(j, s) /\ UNCHANGED stuck
                      \/ UNCHANGED status /\ stuck' = stuck \cup {j}
\* An attempt that ends without a final status: only a pending row is claimed
\* again, and only if River has an attempt left.
Strand(j) == stuck' = IF status'[j] = "pending" /\ attempt[j] < MaxAttempts
                      THEN stuck ELSE stuck \cup {j}

-----------------------------------------------------------------------------
\* StartJob counts the user's active jobs ...
StartCount(j) ==
    /\ start[j] = "idle"
    /\ StartAt(j, IF Cardinality(ActiveJobs) >= MaxActive THEN "refused" ELSE "lookup")
    /\ UNCHANGED <<rows, url, cancel, river, work, stuck>>

\* ... looks into the result cache (an error counts as a miss) ...
StartLookup(j) ==
    /\ start[j] = "lookup"
    /\ \/ url[j] \in results /\ StartAt(j, "serve")
       \/ StartAt(j, "insert")
    /\ UNCHANGED <<rows, url, cancel, river, work, stuck>>

\* ... and serves the cached result: a completed row, then the upload, whose
\* error is ignored ...
StartServe(j) ==
    /\ start[j] = "serve"
    /\ \/ SetStatus(j, "completed") /\ StartAt(j, "copy")
       \/ SetStatus(j, "completed") /\ StartAt(j, "refused")
       \/ UNCHANGED status /\ StartAt(j, "refused")
    /\ UNCHANGED <<results, uploaded, billed, url, cancel, river, work, stuck>>

StartCopy(j) ==
    /\ start[j] = "copy"
    /\ uploaded' \in {uploaded, uploaded \cup {j}}
    /\ StartAt(j, "served")
    /\ UNCHANGED <<status, results, billed, url, cancel, river, work, stuck>>

\* ... or inserts a pending row and then a River job.  If that fails the row
\* stays and the caller is told so.
StartInsert(j) ==
    /\ start[j] = "insert"
    /\ \/ SetStatus(j, "pending") /\ StartAt(j, "enqueue")
       \/ SetStatus(j, "pending") /\ StartAt(j, "refused")
       \/ UNCHANGED status /\ StartAt(j, "refused")
    /\ UNCHANGED <<results, uploaded, billed, url, cancel, river, work, stuck>>

StartEnqueue(j) ==
    /\ start[j] = "enqueue"
    /\ \/ queue' = [queue EXCEPT ![j] = "available"] /\ StartAt(j, "queued")
       \/ queue' = [queue EXCEPT ![j] = "available"] /\ StartAt(j, "orphaned")
       \/ UNCHANGED queue /\ StartAt(j, "orphaned")
    /\ UNCHANGED <<rows, url, cancel, attempt, work, stuck>>

\* CancelJob reads the status and, if it is not terminal, overwrites it.
CancelRead(j) ==
    /\ cancel[j] = "idle" /\ status[j] \in Active
    /\ cancel' = [cancel EXCEPT ![j] = "write"]
    /\ UNCHANGED <<rows, url, start, river, work, stuck>>

CancelWrite(j) ==
    /\ cancel[j] = "write"
    /\ cancel' = [cancel EXCEPT ![j] = "idle"]
    /\ SetStatus(j, "cancelled") \/ UNCHANGED status
    /\ UNCHANGED <<results, uploaded, billed, url, start, river, work, stuck>>

\* Cached results expire.
Expire(u) ==
    /\ u \in results
    /\ results' = results \ {u}
    /\ UNCHANGED <<status, uploaded, billed, url, start, cancel, river, work, stuck>>

-----------------------------------------------------------------------------
\* River gives the job to a worker.
Fetch(j) ==
    /\ queue[j] = "available"
    /\ queue' = [queue EXCEPT ![j] = "running"]
    /\ attempt' = [attempt EXCEPT ![j] = @ + 1]
    /\ WorkAt(j, "claim")
    /\ UNCHANGED <<rows, url, start, cancel, stuck>>

\* Mutant: the claim does not ask for a pending row.
ClaimAny(j) ==
    /\ work[j] = "claim"
    /\ \/ SetStatus(j, "crawling") /\ WorkAt(j, "acquire") /\ UNCHANGED stuck
       \/ UNCHANGED status /\ WorkAt(j, "error") /\ Strand(j)
    /\ UNCHANGED <<results, uploaded, billed, url, start, cancel, river>>

\* RunJob claims a pending row; any other row it leaves alone.
Claim(j) ==
    /\ work[j] = "claim"
    /\ \/ /\ status[j] = "pending" /\ SetStatus(j, "crawling")
          /\ \/ WorkAt(j, "acquire") /\ UNCHANGED stuck
             \/ WorkAt(j, "error") /\ Strand(j)
       \/ status[j] # "pending" /\ WorkAt(j, "return") /\ UNCHANGED <<status, stuck>>
       \/ UNCHANGED status /\ WorkAt(j, "error") /\ Strand(j)
    /\ UNCHANGED <<results, uploaded, billed, url, start, cancel, river>>

\* runJob takes the pages from the cache, a clone or a crawl it polls.
Acquire(j) ==
    /\ work[j] = "acquire"
    /\ \E l \in {"process", "poll", "fail"} : WorkAt(j, l)
    /\ UNCHANGED <<rows, url, start, cancel, river, stuck>>

\* pollCrawl ends when the crawl does, or with its context.
Poll(j) ==
    /\ work[j] = "poll"
    /\ \E l \in {"process", "fail"} : WorkAt(j, l)
    /\ UNCHANGED <<rows, url, start, cancel, river, stuck>>

\* updateStatus does not look at the status it overwrites.
Process(j) ==
    /\ work[j] = "process"
    /\ \/ SetStatus(j, "processing") /\ WorkAt(j, "generate")
       \/ SetStatus(j, "processing") /\ WorkAt(j, "fail")
       \/ UNCHANGED status /\ WorkAt(j, "fail")
    /\ UNCHANGED <<results, uploaded, billed, url, start, cancel, river, stuck>>

\* The agent writes the text, which goes to the result cache if it can.
Generate(j) ==
    /\ work[j] = "generate"
    /\ \/ WorkAt(j, "upload") /\ results' \in {results, results \cup {url[j]}}
       \/ WorkAt(j, "fail") /\ UNCHANGED results
    /\ UNCHANGED <<status, uploaded, billed, url, start, cancel, river, stuck>>

\* Mutant: the error of the upload is ignored.
UploadIgnored(j) ==
    /\ work[j] = "upload"
    /\ uploaded' \in {uploaded, uploaded \cup {j}}
    /\ WorkAt(j, "complete")
    /\ UNCHANGED <<status, results, billed, url, start, cancel, river, stuck>>

Upload(j) ==
    /\ work[j] = "upload"
    /\ \/ uploaded' = uploaded \cup {j} /\ WorkAt(j, "complete")
       \/ uploaded' \in {uploaded, uploaded \cup {j}} /\ WorkAt(j, "fail")
    /\ UNCHANGED <<status, results, billed, url, start, cancel, river, stuck>>

Complete(j) ==
    /\ work[j] = "complete"
    /\ TrySetStatus(j, "completed")
    /\ WorkAt(j, "bill")
    /\ UNCHANGED <<results, uploaded, billed, url, start, cancel, river>>

Bill(j) ==
    /\ work[j] = "bill"
    /\ billed' \in {billed, [billed EXCEPT ![j] = @ + 1]}
    /\ WorkAt(j, "return")
    /\ UNCHANGED <<status, results, uploaded, url, start, cancel, river, stuck>>

\* Mutant: a failed job keeps its status.
FailSilently(j) ==
    /\ work[j] = "fail"
    /\ WorkAt(j, "error")
    /\ UNCHANGED <<rows, url, start, cancel, river, stuck>>

\* RunJob marks the job as failed and returns the error.
Fail(j) ==
    /\ work[j] = "fail"
    /\ TrySetStatus(j, "failed")
    /\ WorkAt(j, "error")
    /\ UNCHANGED <<results, uploaded, billed, url, start, cancel, river>>

\* River tries a job again until its attempts are used up.
Retry(j) == queue' = [queue EXCEPT ![j] = IF attempt[j] < MaxAttempts THEN "available" ELSE "discarded"]

\* What River makes of the attempt.
Report(j) ==
    /\ work[j] \in {"return", "error"}
    /\ WorkAt(j, "idle")
    /\ \/ work[j] = "return" /\ queue' = [queue EXCEPT ![j] = "completed"]
       \/ work[j] = "error" /\ Retry(j)
    /\ UNCHANGED <<rows, url, start, cancel, attempt, stuck>>

\* The worker process dies; River rescues the job later.
Crash(j) ==
    /\ work[j] # "idle"
    /\ WorkAt(j, "idle")
    /\ UNCHANGED <<rows, url, start, cancel, river>>
    /\ Strand(j)

\* Mutant: a stuck job is rescued without end.
RescueAlways(j) ==
    /\ queue[j] = "running" /\ work[j] = "idle"
    /\ queue' = [queue EXCEPT ![j] = "available"]
    /\ attempt' = [attempt EXCEPT ![j] = 0]
    /\ UNCHANGED <<rows, url, start, cancel, work, stuck>>

Rescue(j) ==
    /\ queue[j] = "running" /\ work[j] = "idle"
    /\ Retry(j)
    /\ UNCHANGED <<rows, url, start, cancel, attempt, work, stuck>>

-----------------------------------------------------------------------------
Handler(j) == \/ StartLookup(j) \/ StartServe(j) \/ StartCopy(j)
              \/ StartInsert(j) \/ StartEnqueue(j) \/ CancelWrite(j)

Worker(j) == \/ Claim(j) \/ Acquire(j) \/ Poll(j) \/ Process(j) \/ Generate(j)
             \/ Upload(j) \/ Complete(j) \/ Bill(j) \/ Fail(j) \/ Report(j)

Next == \/ \E j \in Job : \/ StartCount(j) \/ CancelRead(j) \/ Handler(j)
                          \/ Fetch(j) \/ Worker(j) \/ Crash(j) \/ Rescue(j)
        \/ \E u \in Url : Expire(u)

Spec == Init /\ [][Next]_vars

\* A job in the queue is always one party's to move: River fetches or rescues
\* it, or its worker runs.  No call has to be made, or to return.
FairSpec == /\ Spec
            /\ \A j \in Job : WF_vars(Fetch(j) \/ Worker(j) \/ Rescue(j))

-----------------------------------------------------------------------------
StartPC == {"idle", "lookup", "serve", "copy", "served", "insert", "enqueue",
            "queued", "orphaned", "refused"}
WorkPC == {"idle", "claim", "acquire", "poll", "process", "generate", "upload",
           "complete", "bill", "fail", "return", "error"}

\* Every variable has its type, and a job is tried MaxAttempts times at most.
TypeOK ==
    /\ status \in [Job -> Status] /\ url \in [Job -> Url]
    /\ results \subseteq Url /\ uploaded \subseteq Job /\ stuck \subseteq Job
    /\ start \in [Job -> StartPC] /\ cancel \in [Job -> {"idle", "write"}]
    /\ queue \in [Job -> {"none", "available", "running"} \cup Finished]
    /\ attempt \in [Job -> 0..MaxAttempts]
    /\ work \in [Job -> WorkPC]
    /\ billed \in [Job -> Nat]

\* However often River runs a job, the user is billed once at most, and only
\* for a file that is there (service.go, RunJob's claim).
BilledOnce == \A j \in Job : /\ billed[j] <= 1
                             /\ billed[j] = 1 => /\ j \in uploaded
                                                 /\ start[j] \in {"queued", "orphaned"}

\* When River is done with a job its row is not active, unless its worker
\* crashed or a statement failed where no later attempt makes up for it: with
\* the row claimed, or on the last attempt (service.go:100-126).
RowSettles == \A j \in Job : queue[j] \in Finished /\ j \notin stuck => status[j] \notin Active

\* No retry revives a job that has ended (service.go:101-102).
NeverRevived ==
    [][\A j \in Job : status[j] \in {"completed", "failed"}
                         => status'[j] \in {status[j], "cancelled"}]_vars

\* Every job in the queue leaves it, whatever crashes.
QueueDrains == \A j \in Job : queue[j] = "available" ~> queue[j] \in Finished

\* service.go:101-102 and 668-671: a cancelled job stays cancelled.
CancelledStays ==
    [][\A j \in Job : status[j] = "cancelled" => status'[j] = "cancelled"]_vars
=============================================================================
