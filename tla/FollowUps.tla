------------------------------ MODULE FollowUps ------------------------------
(***************************************************************************)
(* What happens after a user answers one of Kim's actionables: the API     *)
(* process stores the answer and enqueues a River job, the worker process  *)
(* runs the agent for it inside tracked.RunSync, which keeps a row of      *)
(* life_agent_runs and publishes its changes on an in-process bus, and     *)
(* the Kim drawer in the browser shows the rows: it lists them once, then  *)
(* reads a stream of events from the API process, while a pulse polls      *)
(* whether any run is in progress.                                         *)
(*                                                                         *)
(* Bounds: MaxResponses answers, MaxCrashes deaths of the worker process.  *)
(***************************************************************************)
EXTENDS Naturals, Sequences, FiniteSets

CONSTANTS
    Actionable,     \* rows of life_actionables, none with a deferred action
    Choice,         \* what a user can pick or type
    MaxAttempts,    \* attempts River gives a follow-up
    BusCap,         \* events the channel of a subscriber holds
    MaxResponses,
    MaxCrashes,
    None

ASSUME FollowUpsAssumption ==
    /\ MaxAttempts \in Nat \ {0}
    /\ BusCap \in Nat \ {0}
    /\ MaxResponses \in Nat
    /\ MaxCrashes \in Nat
    /\ None \notin Choice

VARIABLES
    act,      \* life_actionables: status and response of every actionable
    req,      \* the requests to RespondToActionable, in the order they came
    job,      \* river_job: the follow-up of a request, if it was enqueued
    att,      \* the attempt of a job that the worker process is running
    row,      \* life_agent_runs: the row of every attempt
    lost,     \* history: the rows whose attempt can no longer update them
    unreported, \* history: the attempts finished, but not reported when the worker died
    drawer,   \* the activity section of the Kim drawer
    pulse,    \* the pulse dot
    crashes

vars == <<act, req, job, att, row, lost, unreported, drawer, pulse, crashes>>
workerVars == <<job, att, row, lost, unreported, crashes>>
browserVars == <<drawer, pulse>>

Job == 1..MaxResponses
Run == Job \X (1..MaxAttempts)
NoAttempt == [pc |-> "none", err |-> FALSE, read |-> None]
NothingShown == [r \in Run |-> "absent"]

\* the run of the attempt a job is at
RunOf(n) == <<n, job[n].attempt>>

AnyRunning == \E r \in Run : row[r] = "running"

Init ==
    /\ act = [a \in Actionable |-> [status |-> "pending", response |-> None]]
    /\ req = <<>>
    /\ job = [n \in Job |-> [state |-> "none", attempt |-> 0]]
    /\ att = [n \in Job |-> NoAttempt]
    /\ row = [r \in Run |-> "absent"]
    /\ lost = {}
    /\ unreported = {}
    /\ drawer = [phase |-> "closed", shows |-> NothingShown, list |-> NothingShown,
                 chan |-> <<>>]
    /\ pulse = [on |-> FALSE, answer |-> None]
    /\ crashes = 0

-----------------------------------------------------------------------------
(* The bus: one per process, and only the API process has subscribers.     *)

Subscribed == drawer.phase \in {"subscribed", "live"}

\* Bus.Publish in process p: each subscriber of that process that has room
Publish(p, r) ==
    IF p = "server" /\ Subscribed /\ Len(drawer.chan) < BusCap
    THEN drawer' = [drawer EXCEPT !.chan = Append(@, [run |-> r, status |-> row'[r]])]
    ELSE UNCHANGED drawer

\* publishSnapshot runs where RunSync runs, and that is the worker process
PublishSnapshot(r) == Publish("worker", r)

-----------------------------------------------------------------------------
(* The answer of a user.  The client sends the fields of its answer beside *)
(* "action"; the handler reads a field "data", which no client sends.      *)

Body(action, choice) ==
    IF choice = None THEN [action |-> action] ELSE [action |-> action, value |-> choice]

Decoded(body) ==
    [action |-> body.action,
     data |-> IF "data" \in DOMAIN body THEN body.data ELSE None]

NewStatus(action) == IF action = "dismiss" THEN "dismissed" ELSE "confirmed"

\* A card is answered.  The card may be stale: another device or an earlier
\* request may have answered the actionable, and the UPDATE does not look.
Respond(a, action, choice) ==
    /\ Len(req) < MaxResponses
    /\ choice = None <=> action \in {"confirm", "dismiss"}
    /\ LET answer == Decoded(Body(action, choice))
       IN  /\ act' = [act EXCEPT ![a] =
                         [status |-> NewStatus(action),
                          response |-> [action |-> answer.action, data |-> answer.data,
                                        effects |-> None]]]
           /\ req' = Append(req, [of |-> a, chosen |-> choice, data |-> answer.data,
                                  pc |-> IF action = "dismiss" THEN "done" ELSE "enqueue"])
    /\ UNCHANGED <<workerVars, browserVars>>

\* The follow-up is inserted, in a transaction of its own.
Enqueue(n) ==
    /\ n \in DOMAIN req /\ req[n].pc = "enqueue"
    /\ req' = [req EXCEPT ![n].pc = "done"]
    /\ job' = [job EXCEPT ![n].state = "available"]
    /\ UNCHANGED <<act, att, row, lost, unreported, crashes, browserVars>>

\* The insert fails, which is logged, or the API process dies before it.
EnqueueLost(n) ==
    /\ n \in DOMAIN req /\ req[n].pc = "enqueue"
    /\ req' = [req EXCEPT ![n].pc = "done"]
    /\ UNCHANGED <<act, workerVars, browserVars>>

\* "Skip": dismisses what is still pending, and asks nothing of the agent.
BulkDismiss(S) ==
    LET hit == {a \in S : act[a].status = "pending"}
    IN  /\ hit # {}
        /\ act' = [a \in Actionable |->
                     IF a \in hit
                     THEN [status |-> "dismissed",
                           response |-> [action |-> "dismiss", data |-> None, effects |-> None]]
                     ELSE act[a]]
        /\ UNCHANGED <<req, workerVars, browserVars>>

-----------------------------------------------------------------------------
(* The worker process: RunSync around the agent, one attempt at a time.    *)

Step(n, pc) == att' = [att EXCEPT ![n].pc = pc]

\* River hands the job to the worker.
Claim(n) ==
    /\ job[n].state = "available"
    /\ job' = [job EXCEPT ![n] = [state |-> "running", attempt |-> @.attempt + 1]]
    /\ Step(n, "insert")
    /\ UNCHANGED <<act, req, row, lost, unreported, crashes, browserVars>>

\* The row is inserted as running and published; when the insert fails the
\* work goes on without a row.
InsertRow(n) ==
    /\ att[n].pc = "insert"
    /\ Step(n, "agent")
    /\ \/ /\ row' = [row EXCEPT ![RunOf(n)] = "running"]
          /\ PublishSnapshot(RunOf(n))
       \/ UNCHANGED <<row, drawer>>
    /\ UNCHANGED <<act, req, job, lost, unreported, crashes, pulse>>

\* Mutant: an error of the agent returns before finish.
AgentReturnsEarly(n) ==
    /\ att[n].pc = "agent"
    /\ \/ Step(n, "read")
       \/ Step(n, "finish")
       \/ att' = [att EXCEPT ![n].pc = "report", ![n].err = TRUE]
    /\ UNCHANGED <<act, req, job, row, lost, unreported, crashes, browserVars>>

\* The agent returns.  An error, a panic (recovered) and the job's timeout
\* all end the work as failed; effects are saved only when there are any.
AgentReturns(n) ==
    /\ att[n].pc = "agent"
    /\ \/ Step(n, "read")
       \/ Step(n, "finish")
       \/ att' = [att EXCEPT ![n].pc = "finish", ![n].err = TRUE]
    /\ UNCHANGED <<act, req, job, row, lost, unreported, crashes, browserVars>>

\* The response is read to add the effects to it, ...
ReadResponse(n) ==
    /\ att[n].pc = "read"
    /\ att' = [att EXCEPT ![n].pc = "write", ![n].read = act[req[n].of].response]
    /\ UNCHANGED <<act, req, job, row, lost, unreported, crashes, browserVars>>

\* ... and written back whole; an error of the UPDATE is ignored.
WriteResponse(n) ==
    /\ att[n].pc = "write"
    /\ att' = [att EXCEPT ![n].pc = "finish", ![n].read = None]
    /\ \/ act' = [act EXCEPT ![req[n].of].response = [att[n].read EXCEPT !.effects = n]]
       \/ UNCHANGED act
    /\ UNCHANGED <<req, job, row, lost, unreported, crashes, browserVars>>

Outcome(n) == IF att[n].err THEN "failed" ELSE "completed"

\* finish: the row gets its last status, which is published; it does
\* neither when there is no row or the UPDATE fails.
Finish(n) ==
    /\ att[n].pc = "finish"
    /\ Step(n, "report")
    /\ \/ /\ row[RunOf(n)] = "running"
          /\ row' = [row EXCEPT ![RunOf(n)] = Outcome(n)]
          /\ PublishSnapshot(RunOf(n))
          /\ UNCHANGED lost
       \/ /\ lost' = lost \cup {RunOf(n)}
          /\ UNCHANGED <<row, drawer>>
    /\ UNCHANGED <<act, req, job, unreported, crashes, pulse>>

\* Mutant: a failed attempt is always tried again.
AfterAnyFailure(n) == "available"

\* What River makes of an attempt that ended with an error or was rescued
AfterFailure(n) == IF job[n].attempt < MaxAttempts THEN "available" ELSE "discarded"

\* Mutant: RunSync swallows the agent's error.
ReportSwallowed(n) ==
    /\ att[n].pc = "report"
    /\ att' = [att EXCEPT ![n] = NoAttempt]
    /\ job' = [job EXCEPT ![n].state = "completed"]
    /\ UNCHANGED <<act, req, row, lost, unreported, crashes, browserVars>>

\* RunSync returns the agent's error, and River records the end of the attempt.
Report(n) ==
    /\ att[n].pc = "report"
    /\ att' = [att EXCEPT ![n] = NoAttempt]
    /\ job' = [job EXCEPT ![n].state = IF att[n].err THEN AfterFailure(n) ELSE "completed"]
    /\ UNCHANGED <<act, req, row, lost, unreported, crashes, browserVars>>

\* The worker process dies, or is stopped and its drain times out.  What an
\* attempt was doing decides what is left: a row nobody will end, or an
\* ended row of an attempt that River takes for unfinished.
Crash ==
    /\ crashes < MaxCrashes
    /\ \E n \in Job : att[n].pc # "none"
    /\ crashes' = crashes + 1
    /\ lost' = lost \cup {RunOf(n) : n \in {m \in Job : att[m].pc \notin {"none", "report"}}}
    /\ unreported' = unreported \cup {RunOf(n) : n \in {m \in Job : att[m].pc = "report"}}
    /\ att' = [n \in Job |-> NoAttempt]
    /\ UNCHANGED <<act, req, job, row, browserVars>>

\* Mutant: only a job that can be given up is rescued.
RescueLast(n) ==
    /\ job[n].state = "running" /\ att[n].pc = "none" /\ job[n].attempt = MaxAttempts
    /\ job' = [job EXCEPT ![n].state = AfterFailure(n)]
    /\ UNCHANGED <<act, req, att, row, lost, unreported, crashes, browserVars>>

\* River finds a job that nobody has been running for its rescue period.
Rescue(n) ==
    /\ job[n].state = "running" /\ att[n].pc = "none"
    /\ job' = [job EXCEPT ![n].state = AfterFailure(n)]
    /\ UNCHANGED <<act, req, att, row, lost, unreported, crashes, browserVars>>

-----------------------------------------------------------------------------
(* The activity section.  It is mounted while the drawer is open: closing  *)
(* it unmounts the component, aborts the stream and drops its state.       *)

DrawerStep(d) == drawer' = d /\ UNCHANGED <<act, req, workerVars, pulse>>

Open ==
    /\ drawer.phase = "closed"
    /\ DrawerStep([drawer EXCEPT !.phase = "listing"])

Close ==
    /\ drawer.phase # "closed"
    /\ DrawerStep([phase |-> "closed", shows |-> NothingShown, list |-> NothingShown,
                   chan |-> <<>>])

\* ListAgentRuns reads the rows; the answer is on its way.
ListRead ==
    /\ drawer.phase = "listing"
    /\ DrawerStep([drawer EXCEPT !.phase = "listed", !.list = row])

\* hydrate ends, with the rows or with a swallowed error, and connect begins.
Hydrated ==
    /\ drawer.phase \in {"listing", "listed"}
    /\ DrawerStep([drawer EXCEPT
           !.phase = "connecting",
           !.shows = IF drawer.phase = "listed" THEN drawer.list ELSE @,
           !.list = NothingShown])

\* StreamLifeAgentRuns subscribes to the bus of the API process and sends
\* its first frame, "ready".
Subscribe ==
    /\ drawer.phase = "connecting"
    /\ DrawerStep([drawer EXCEPT !.phase = "subscribed"])

\* The next frame is read: "ready", then an event per snapshot, which
\* replaces or adds its run.
ReadFrame ==
    /\ drawer.phase \in {"subscribed", "live"}
    /\ drawer.phase = "live" => drawer.chan # <<>>
    /\ DrawerStep(
         IF drawer.phase = "subscribed" THEN [drawer EXCEPT !.phase = "live"]
         ELSE [drawer EXCEPT !.chan = Tail(@),
                             !.shows[Head(drawer.chan).run] = Head(drawer.chan).status])

\* The request fails or the stream ends; the subscription goes with it.
StreamEnds ==
    /\ drawer.phase \in {"connecting", "subscribed", "live"}
    /\ DrawerStep([drawer EXCEPT !.phase = "backoff", !.chan = <<>>])

\* Mutant: the backoff ends only for a drawer that has shown a run.
ReconnectIfShown ==
    /\ drawer.phase = "backoff" /\ drawer.shows # NothingShown
    /\ DrawerStep([drawer EXCEPT !.phase = "connecting"])

\* The backoff is over: connect again, without hydrating again.
Reconnect ==
    /\ drawer.phase = "backoff"
    /\ DrawerStep([drawer EXCEPT !.phase = "connecting"])

-----------------------------------------------------------------------------
(* The pulse: a poll counts the running rows, and its answer sets the dot. *)

PulseStep(p) == pulse' = p /\ UNCHANGED <<act, req, workerVars, drawer>>

PulseAsk ==
    /\ pulse.answer = None
    /\ PulseStep([pulse EXCEPT !.answer = [running |-> AnyRunning]])

\* Mutant: the dot is lit and never put out.
PulseOnlyLights ==
    /\ pulse.answer # None
    /\ PulseStep([on |-> pulse.on \/ pulse.answer.running, answer |-> None])

PulseAnswer ==
    /\ pulse.answer # None
    /\ PulseStep([on |-> pulse.answer.running, answer |-> None])

PulseFails ==
    /\ pulse.answer # None
    /\ PulseStep([pulse EXCEPT !.answer = None])

-----------------------------------------------------------------------------
UserNext ==
    \/ \E a \in Actionable, action \in {"confirm", "dismiss"} : Respond(a, action, None)
    \/ \E a \in Actionable, action \in {"choose", "input"}, c \in Choice : Respond(a, action, c)
    \/ \E S \in SUBSET Actionable : BulkDismiss(S)
    \/ Open
    \/ Close

ServerNext == \E n \in Job : Enqueue(n) \/ EnqueueLost(n)

WorkerNext ==
    \/ \E n \in Job :
          \/ Claim(n) \/ InsertRow(n) \/ AgentReturns(n) \/ ReadResponse(n)
          \/ WriteResponse(n) \/ Finish(n) \/ Report(n) \/ Rescue(n)
    \/ Crash

StreamNext == ListRead \/ Hydrated \/ Subscribe \/ ReadFrame \/ StreamEnds \/ Reconnect

PulseNext == PulseAsk \/ PulseAnswer \/ PulseFails

Next == UserNext \/ ServerNext \/ WorkerNext \/ StreamNext \/ PulseNext

Spec == Init /\ [][Next]_vars

\* Handlers and attempts run on, River claims and rescues, timers fire, and
\* of the polls of the pulse and the connections of the stream not all fail.
Fairness ==
    /\ \A n \in Job :
          /\ WF_vars(Enqueue(n) \/ EnqueueLost(n))
          /\ WF_vars(Claim(n)) /\ WF_vars(InsertRow(n)) /\ WF_vars(AgentReturns(n))
          /\ WF_vars(ReadResponse(n)) /\ WF_vars(WriteResponse(n)) /\ WF_vars(Finish(n))
          /\ WF_vars(Report(n)) /\ WF_vars(Rescue(n))
    /\ WF_vars(ListRead \/ Hydrated)
    /\ SF_vars(Subscribe) /\ SF_vars(ReadFrame)
    /\ WF_vars(Reconnect)
    /\ WF_vars(PulseAsk)
    /\ SF_vars(PulseAnswer)

FairSpec == Spec /\ Fairness

-----------------------------------------------------------------------------
(* Properties *)

RowStatus == {"absent", "running", "completed", "failed"}
AttemptPC == {"none", "insert", "agent", "read", "write", "finish", "report"}
Action == {"confirm", "choose", "input", "dismiss"}
Response == [action : Action, data : Choice \cup {None}, effects : Job \cup {None}]

ActRecord == [status : {"pending", "confirmed", "dismissed"}, response : Response \cup {None}]
Request == [of : Actionable, chosen : Choice \cup {None}, data : Choice \cup {None},
            pc : {"enqueue", "done"}]
JobRecord == [state : {"none", "available", "running", "completed", "discarded"},
              attempt : 0..MaxAttempts]
Attempt == [pc : AttemptPC, err : BOOLEAN, read : Response \cup {None}]
Frame == [run : Run, status : RowStatus]
Drawer == [phase : {"closed", "listing", "listed", "connecting", "subscribed", "live", "backoff"},
           shows : [Run -> RowStatus], list : [Run -> RowStatus], chan : Seq(Frame)]

\* The state has the shape the code gives it.
TypeOK ==
    /\ act \in [Actionable -> ActRecord]
    /\ req \in Seq(Request) /\ Len(req) <= MaxResponses
    /\ job \in [Job -> JobRecord]
    /\ att \in [Job -> Attempt]
    /\ row \in [Run -> RowStatus]
    /\ lost \subseteq Run
    /\ unreported \subseteq Run
    /\ drawer \in Drawer /\ Len(drawer.chan) <= BusCap
    /\ pulse \in [on : BOOLEAN, answer : [running : BOOLEAN] \cup {None}]
    /\ crashes \in 0..MaxCrashes

\* A row that says "running" is that of an attempt in progress, unless the
\* worker died in the attempt or its UPDATE failed (RunSync and finish,
\* tracked.go): no error, panic or retry leaves the pulse dot lit by itself.
RunningIsAliveOrLost ==
    \A r \in Run : row[r] = "running" =>
        \/ r \in lost
        \/ r = RunOf(r[1]) /\ att[r[1]].pc \in {"agent", "read", "write", "finish"}

\* The job and the row of its last attempt, written apart by River and by
\* finish, tell the same story: a job that ended well has no row that
\* failed, a job that was given up has none that completed.  There are two
\* exceptions: a row nobody could end, and a completed row whose attempt the
\* worker did not live to report, so that River counts it as failed (RunSync
\* "returns fn's error unchanged", tracked.go).
JobAndRowAgree ==
    \A n \in Job :
        /\ job[n].state = "completed" =>
              RunOf(n) \in lost \/ row[RunOf(n)] \in {"absent", "completed"}
        /\ job[n].state = "discarded" =>
              \/ RunOf(n) \in lost
              \/ row[RunOf(n)] \in {"absent", "failed"}
              \/ RunOf(n) \in unreported /\ row[RunOf(n)] = "completed"

\* A follow-up that was enqueued ends, well or given up, whatever fails and
\* if the worker dies on the way (River's retries and rescue).
FollowUpsEnd ==
    \A n \in Job : job[n].state = "available" ~> job[n].state \in {"completed", "discarded"}

\* The pulse dot comes to tell whether a run is in progress, in spite of
\* polls that fail (use-agent-runs-pulse.tsx).
PulseSettles == <>[](pulse.on <=> AnyRunning)

\* A drawer that stays open keeps getting a live stream, whatever listings
\* and connections fail on the way (scheduleReconnect,
\* use-agent-runs-stream.tsx).
DrawerReconnects == []<>(drawer.phase \in {"closed", "live"})

\* CLAIM of agent_runs.go:274: the stream emits an event every time a run
\* changes, so a live drawer comes to show that a run is over.
LiveDrawerSeesTheEnd ==
    \A r \in Run :
        drawer.phase = "live" /\ row[r] = "completed"
          ~> drawer.shows[r] = "completed" \/ drawer.phase # "live"

\* CLAIM of life.go:1515: the handler gets the data of the answer.
AnswerArrives == \A n \in DOMAIN req : req[n].data = req[n].chosen

\* CLAIM of tracked.go:130-132: the worker owns the lifecycle of a run and
\* River tracks its attempts, so a follow-up that was given up is none
\* whose last run is shown as completed.
GivenUpIsNotCompleted ==
    \A n \in Job : job[n].state = "discarded" => row[RunOf(n)] # "completed"
=============================================================================
