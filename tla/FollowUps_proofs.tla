-------------------------- MODULE FollowUps_proofs --------------------------
(***************************************************************************)
(* Theorems about FollowUps for any actionables, choices, numbers of       *)
(* attempts and deaths of the worker.  A row and a job are written in      *)
(* different statements, by RunSync and by River; the invariant says, for  *)
(* every step of an attempt, what each of them is by then.                 *)
(***************************************************************************)
EXTENDS FollowUps, TLAPS

\* An attempt is one of a running job, which is one of a request.
AttemptRuns(n) ==
    /\ att[n].pc # "none" => job[n].state = "running"
    /\ job[n].state # "none" => n \in DOMAIN req /\ req[n].pc = "done"
    /\ job[n].state = "none" => job[n].attempt = 0
    /\ job[n].state = "available" => job[n].attempt < MaxAttempts
    /\ job[n].state \in {"running", "completed", "discarded"} =>
          job[n].attempt \in 1..MaxAttempts

\* A run that has not begun has no row, and one that says "running" is that
\* of the attempt in progress or lost.
RowsOfAttempts(n) ==
    /\ \A k \in 1..MaxAttempts :
          /\ job[n].attempt < k => row[<<n, k>>] = "absent"
          /\ row[<<n, k>>] = "running" =>
                \/ <<n, k>> \in lost
                \/ k = job[n].attempt /\ att[n].pc \in {"agent", "read", "write", "finish"}
    /\ att[n].pc = "insert" => row[RunOf(n)] = "absent"

\* A running job that nobody runs has lost its row or was finished and not
\* reported; one that is about to be reported, or was, has a row that tells
\* its outcome, if it has one.
RowTellsOutcome(n) ==
    /\ job[n].state = "running" /\ att[n].pc = "none" =>
          \/ RunOf(n) \in lost
          \/ RunOf(n) \in unreported /\ row[RunOf(n)] \in {"completed", "failed"}
    /\ att[n].pc = "report" => RunOf(n) \in lost \/ row[RunOf(n)] = Outcome(n)
    /\ job[n].state = "completed" =>
          RunOf(n) \in lost \/ row[RunOf(n)] \in {"absent", "completed"}
    /\ job[n].state = "discarded" =>
          \/ RunOf(n) \in lost
          \/ row[RunOf(n)] \in {"absent", "failed"}
          \/ RunOf(n) \in unreported /\ row[RunOf(n)] = "completed"

Book(n) == AttemptRuns(n) /\ RowsOfAttempts(n) /\ RowTellsOutcome(n)

\* Who answered an actionable left a response, and the worker has read one.
Answered ==
    /\ \A n \in DOMAIN req : act[req[n].of].response \in Response
    /\ \A n \in Job : att[n].pc = "write" => att[n].read \in Response

IInv == TypeOK /\ Answered /\ \A n \in Job : Book(n)

-----------------------------------------------------------------------------
\* The run of an attempt is a run.
LEMMA RunOfType ==
    ASSUME TypeOK, NEW n \in Job, AttemptRuns(n), job[n].state = "running"
    PROVE  RunOf(n) \in Run /\ RunOf(n)[1] = n
  BY DEF TypeOK, AttemptRuns, JobRecord, RunOf, Run

\* The API process has subscribers, the worker process has none.
LEMMA SnapshotsReachNobody == \A r : PublishSnapshot(r) => UNCHANGED drawer
  BY DEF PublishSnapshot, Publish

\* The invariant holds at first.
LEMMA InitIInv == Init => IInv
<1> SUFFICES ASSUME Init PROVE IInv
  OBVIOUS
<1>1. TypeOK
  <2>1. NothingShown \in [Run -> RowStatus]
    BY DEF NothingShown, RowStatus
  <2> QED
    BY <2>1, FollowUpsAssumption DEF Init, TypeOK, NoAttempt, RowStatus, AttemptPC, ActRecord, JobRecord, Attempt, Drawer
<1>2. \A n \in Job : n \notin DOMAIN req
  BY DEF Init
<1> QED
  BY <1>1, <1>2, FollowUpsAssumption
  DEF Init, IInv, Book, AttemptRuns, Answered, RowsOfAttempts, RowTellsOutcome, NoAttempt,
      NothingShown, RunOf, Run

-----------------------------------------------------------------------------
\* What the drawer does to its own state keeps its type.
LEMMA DrawerTypeStep ==
    ASSUME TypeOK, StreamNext \/ Open \/ Close
    PROVE  TypeOK'
<1> USE DEF DrawerStep, Drawer
<1>0. drawer \in Drawer /\ Len(drawer.chan) <= BusCap /\ row \in [Run -> RowStatus]
  BY DEF TypeOK
<1>1. NothingShown \in [Run -> RowStatus]
  BY DEF NothingShown, RowStatus
<1>2. <<>> \in Seq(Frame) /\ Len(<<>>) <= BusCap
  BY FollowUpsAssumption
<1>3. UNCHANGED <<act, req, workerVars, pulse>>
  BY DEF StreamNext, Open, Close, ListRead, Hydrated, Subscribe, ReadFrame, StreamEnds, Reconnect
<1>4. SUFFICES (drawer \in Drawer /\ Len(drawer.chan) <= BusCap)'
  BY <1>3 DEF TypeOK, workerVars
<1>5. CASE Open \/ Subscribe \/ Reconnect
  BY <1>0, <1>5 DEF Open, Subscribe, Reconnect
<1>6. CASE Close
  BY <1>1, <1>2, <1>6 DEF Close
<1>7. CASE ListRead
  BY <1>0, <1>7 DEF ListRead
<1>8. CASE Hydrated
  BY <1>0, <1>1, <1>8 DEF Hydrated
<1>9. CASE StreamEnds
  BY <1>0, <1>2, <1>9 DEF StreamEnds
<1>10. CASE ReadFrame
  <2>1. CASE drawer.phase = "subscribed"
    BY <1>0, <1>10, <2>1 DEF ReadFrame
  <2>2. CASE drawer.phase = "live"
    <3> DEFINE c == drawer.chan
    <3>1. c \in Seq(Frame) /\ Len(c) <= BusCap
      BY <1>0
    <3>2. c # <<>>
      BY <1>10, <2>2 DEF ReadFrame
    <3>3. drawer' = [drawer EXCEPT !.chan = Tail(c), !.shows[Head(c).run] = Head(c).status]
      BY <1>10, <2>2 DEF ReadFrame
    <3> HIDE DEF c
    <3>4. Head(c) \in Frame /\ Tail(c) \in Seq(Frame) /\ Len(Tail(c)) <= BusCap
      BY <3>1, <3>2, FollowUpsAssumption
    <3>5. Head(c).run \in Run /\ Head(c).status \in RowStatus
      BY <3>4 DEF Frame
    <3> QED
      BY <1>0, <3>3, <3>4, <3>5
  <2> QED
    BY <1>10, <2>1, <2>2 DEF ReadFrame
<1> QED
  BY <1>5, <1>6, <1>7, <1>8, <1>9, <1>10 DEF StreamNext

-----------------------------------------------------------------------------
\* Every variable keeps its type.
LEMMA TypeStep == IInv /\ [Next]_vars => TypeOK'
<1> SUFFICES ASSUME TypeOK, \A n \in Job : AttemptRuns(n), Answered, [Next]_vars PROVE TypeOK'
  BY DEF IInv, Book
<1> USE DEF TypeOK, workerVars, browserVars
<1>1. ASSUME NEW a \in Actionable, NEW action \in Action, NEW choice \in Choice \cup {None},
             Respond(a, action, choice)
      PROVE  TypeOK'
  <2> DEFINE answer == Decoded(Body(action, choice))
             entry == [of |-> a, chosen |-> choice, data |-> answer.data,
                       pc |-> IF action = "dismiss" THEN "done" ELSE "enqueue"]
  <2>1. answer.action = action /\ answer.data = None
    BY DEF Decoded, Body
  <2>2. act' \in [Actionable -> ActRecord]
    BY <1>1, <2>1 DEF Respond, NewStatus, Response, ActRecord
  <2>3. entry \in Request
    BY <2>1 DEF Request
  <2>4. req' = Append(req, entry) /\ Len(req) < MaxResponses
    BY <1>1 DEF Respond
  <2> HIDE DEF entry
  <2>5. req' \in Seq(Request) /\ Len(req') <= MaxResponses
    BY <2>3, <2>4, FollowUpsAssumption
  <2> QED
    BY <1>1, <2>2, <2>5 DEF Respond
<1>2. ASSUME NEW S \in SUBSET Actionable, BulkDismiss(S) PROVE TypeOK'
  BY <1>2 DEF BulkDismiss, Response, Action, ActRecord
<1>3. CASE Open \/ Close \/ StreamNext
  BY <1>3, DrawerTypeStep
<1>4. ASSUME NEW n \in Job, Enqueue(n) \/ EnqueueLost(n) PROVE TypeOK'
  <2>1. n \in DOMAIN req /\ req' = [req EXCEPT ![n].pc = "done"]
    BY <1>4 DEF Enqueue, EnqueueLost
  <2>2. [req[n] EXCEPT !.pc = "done"] \in Request
    <3>1. req[n] \in Request
      BY <2>1
    <3> QED
      BY <3>1 DEF Request
  <2>3. req' \in Seq(Request) /\ Len(req') = Len(req)
    BY <2>1, <2>2
  <2>4. job' \in [Job -> JobRecord]
    BY <1>4 DEF Enqueue, EnqueueLost, JobRecord
  <2> QED
    BY <1>4, <2>3, <2>4 DEF Enqueue, EnqueueLost
<1>5. ASSUME NEW n \in Job, Claim(n) PROVE TypeOK'
  <2>1. job[n].attempt + 1 \in 0..MaxAttempts
    BY <1>5, FollowUpsAssumption DEF Claim, AttemptRuns, JobRecord
  <2> QED
    BY <1>5, <2>1 DEF Claim, Step, AttemptPC, Attempt, JobRecord
<1>6. ASSUME NEW n \in Job, InsertRow(n) PROVE TypeOK'
  <2>1. UNCHANGED drawer
    BY <1>6, SnapshotsReachNobody DEF InsertRow
  <2> QED
    BY <1>6, <2>1 DEF InsertRow, Step, AttemptPC, Attempt, RowStatus
<1>7. ASSUME NEW n \in Job, AgentReturns(n) PROVE TypeOK'
  <2>1. CASE Step(n, "read")
    BY <1>7, <2>1 DEF AgentReturns, Step, AttemptPC, Attempt
  <2>3. CASE Step(n, "finish")
    BY <1>7, <2>3 DEF AgentReturns, Step, AttemptPC, Attempt
  <2>2. CASE att' = [att EXCEPT ![n].pc = "finish", ![n].err = TRUE]
    BY <1>7, <2>2 DEF AgentReturns, AttemptPC, Attempt
  <2> QED
    BY <1>7, <2>1, <2>2, <2>3 DEF AgentReturns
<1>8. ASSUME NEW n \in Job, ReadResponse(n) PROVE TypeOK'
  <2>1. n \in DOMAIN req
    BY <1>8 DEF ReadResponse, AttemptRuns
  <2>2. req[n] \in Request
    BY <2>1
  <2>3. act[req[n].of].response \in Response \cup {None}
    BY <2>2 DEF Request, ActRecord
  <2> QED
    BY <1>8, <2>3 DEF ReadResponse, AttemptPC, Attempt
<1>9. ASSUME NEW n \in Job, WriteResponse(n) PROVE TypeOK'
  <2>1. att[n].read \in Response
    BY <1>9 DEF WriteResponse, Answered
  <2>2. [att[n].read EXCEPT !.effects = n] \in Response
    BY <2>1 DEF Response
  <2>3. att' \in [Job -> Attempt]
    BY <1>9 DEF WriteResponse, AttemptPC, Attempt
  <2>4. act' \in [Actionable -> ActRecord]
    <3>1. CASE act' = [act EXCEPT ![req[n].of].response = [att[n].read EXCEPT !.effects = n]]
      BY <2>2, <3>1 DEF ActRecord
    <3> QED
      BY <1>9, <3>1 DEF WriteResponse
  <2> QED
    BY <1>9, <2>3, <2>4 DEF WriteResponse
<1>10. ASSUME NEW n \in Job, Finish(n) PROVE TypeOK'
  <2>1. UNCHANGED drawer
    BY <1>10, SnapshotsReachNobody DEF Finish
  <2>2. RunOf(n) \in Run
    BY <1>10, RunOfType DEF Finish, AttemptRuns
  <2>3. att' \in [Job -> Attempt]
    BY <1>10 DEF Finish, Step, AttemptPC, Attempt
  <2>4. row' \in [Run -> RowStatus] /\ lost' \subseteq Run
    BY <1>10, <2>2 DEF Finish, RowStatus, Outcome
  <2> QED
    BY <1>10, <2>1, <2>3, <2>4 DEF Finish
<1>11. ASSUME NEW n \in Job, Report(n) \/ Rescue(n) PROVE TypeOK'
  <2>1. att' \in [Job -> Attempt]
    <3>1. NoAttempt \in Attempt
      BY DEF NoAttempt, AttemptPC, Attempt
    <3> QED
      BY <1>11, <3>1 DEF Report, Rescue
  <2>2. job' \in [Job -> JobRecord]
    <3>1. PICK state \in {"available", "discarded", "completed"} :
             job' = [job EXCEPT ![n].state = state]
      BY <1>11 DEF Report, Rescue, AfterFailure
    <3>2. [job[n] EXCEPT !.state = state] \in JobRecord
      BY DEF JobRecord
    <3> QED
      BY <3>1, <3>2
  <2> QED
    BY <1>11, <2>1, <2>2 DEF Report, Rescue
<1>12. CASE Crash
  <2>1. \A n \in Job : att[n].pc # "none" => RunOf(n) \in Run
    BY RunOfType DEF AttemptRuns
  <2>2. crashes' \in 0..MaxCrashes
    BY <1>12, FollowUpsAssumption DEF Crash
  <2> QED
    BY <1>12, <2>1, <2>2 DEF Crash, NoAttempt, AttemptPC, Attempt
<1>13. CASE PulseNext
  <2>1. pulse' \in [on : BOOLEAN, answer : [running : BOOLEAN] \cup {None}]
    <3>1. CASE PulseAsk
      BY <3>1 DEF PulseAsk, PulseStep, AnyRunning
    <3>2. CASE PulseAnswer
      <4>1. pulse.answer \in [running : BOOLEAN]
        BY <3>2 DEF PulseAnswer
      <4> QED
        BY <3>2, <4>1 DEF PulseAnswer, PulseStep
    <3>3. CASE PulseFails
      BY <3>3 DEF PulseFails, PulseStep
    <3> QED
      BY <1>13, <3>1, <3>2, <3>3 DEF PulseNext
  <2> QED
    BY <1>13, <2>1 DEF PulseNext, PulseAsk, PulseAnswer, PulseFails, PulseStep
<1>14. CASE UNCHANGED vars
  BY <1>14 DEF vars
<1>15. CASE UserNext
  BY <1>1, <1>2, <1>3, <1>15, Zenon DEF UserNext, Action
<1>16. CASE WorkerNext
  BY <1>5, <1>6, <1>7, <1>8, <1>9, <1>10, <1>11, <1>12, <1>16 DEF WorkerNext
<1> QED
  BY <1>3, <1>4, <1>13, <1>14, <1>15, <1>16 DEF Next, ServerNext

-----------------------------------------------------------------------------
\* A step that leaves a job, its attempt and its rows alone keeps its book.
LEMMA BookUntouched ==
    ASSUME TypeOK, NEW m \in Job, Book(m),
           att'[m] = att[m], job'[m] = job[m], lost \subseteq lost', unreported \subseteq unreported',
           \A k \in 1..MaxAttempts : row'[<<m, k>>] = row[<<m, k>>],
           m \in DOMAIN req /\ req[m].pc = "done" => m \in DOMAIN req' /\ req'[m].pc = "done"
    PROVE  Book(m)'
<1>1. RunOf(m)' = RunOf(m) /\ Outcome(m)' = Outcome(m)
  BY DEF RunOf, Outcome
<1>2. AttemptRuns(m)'
  BY DEF Book, AttemptRuns
<1>3. job[m].state \in {"running", "completed", "discarded"} => row'[RunOf(m)] = row[RunOf(m)]
  BY DEF RunOf, Book, AttemptRuns
<1>4. RowsOfAttempts(m)'
  BY <1>1, <1>3 DEF Book, RowsOfAttempts, AttemptRuns
<1>5. RowTellsOutcome(m)'
  BY <1>1, <1>3 DEF Book, RowTellsOutcome, AttemptRuns
<1> QED
  BY <1>2, <1>4, <1>5 DEF Book

\* A step of the worker on job n is none on another job.
LEMMA OtherBooks ==
    ASSUME IInv, NEW n \in Job, UNCHANGED req, lost \subseteq lost', unreported \subseteq unreported',
           \A m \in Job \ {n} : att'[m] = att[m] /\ job'[m] = job[m],
           \A r \in Run : r[1] # n => row'[r] = row[r],
           NEW m \in Job, m # n
    PROVE  Book(m)'
<1>1. \A k \in 1..MaxAttempts : row'[<<m, k>>] = row[<<m, k>>]
  BY DEF Run
<1> QED
  BY <1>1, BookUntouched DEF IInv

\* The book of a job is kept by every step.
LEMMA BookStep == IInv /\ [Next]_vars => \A n \in Job : Book(n)'
<1> SUFFICES ASSUME IInv, [Next]_vars, NEW m \in Job PROVE Book(m)'
  OBVIOUS
<1>t. TypeOK /\ \A n \in Job : Book(n)
  BY DEF IInv
<1>s. ASSUME UNCHANGED workerVars,
             \A n \in DOMAIN req : req[n].pc = "done" => n \in DOMAIN req' /\ req'[n].pc = "done"
      PROVE  Book(m)'
  BY <1>s, <1>t, BookUntouched DEF workerVars
<1>1. CASE Open \/ Close \/ StreamNext \/ PulseNext \/ UNCHANGED vars
  <2>1. UNCHANGED <<workerVars, req>>
    BY <1>1 DEF Open, Close, DrawerStep, StreamNext, ListRead, Hydrated, Subscribe, ReadFrame,
       StreamEnds, Reconnect, PulseNext, PulseAsk, PulseAnswer, PulseFails, PulseStep, vars, workerVars
  <2> QED
    BY <2>1, <1>s
<1>2. ASSUME NEW a \in Actionable, NEW action \in Action, NEW choice, Respond(a, action, choice)
      PROVE  Book(m)'
  <2>1. UNCHANGED workerVars /\ \E e : req' = Append(req, e)
    BY <1>2 DEF Respond
  <2>2. \A n \in DOMAIN req : n \in DOMAIN req' /\ req'[n] = req[n]
    BY <1>t, <2>1 DEF TypeOK
  <2> QED
    BY <2>1, <2>2, <1>s
<1>3. ASSUME NEW S \in SUBSET Actionable, BulkDismiss(S) PROVE Book(m)'
  BY <1>3, <1>s DEF BulkDismiss
<1>4. ASSUME NEW n \in Job, EnqueueLost(n) PROVE Book(m)'
  BY <1>4, <1>t, <1>s DEF EnqueueLost, TypeOK
<1>5. ASSUME NEW n \in Job, Enqueue(n) PROVE Book(m)'
  <2>1. n \in DOMAIN req /\ req'[n].pc = "done" /\ DOMAIN req' = DOMAIN req
        /\ \A k \in DOMAIN req : req[k].pc = "done" => req'[k].pc = "done"
    <3>1. n \in DOMAIN req /\ req' = [req EXCEPT ![n].pc = "done"]
      BY <1>5 DEF Enqueue
    <3>2. req \in Seq(Request)
      BY <1>t DEF TypeOK
    <3>3. DOMAIN req' = DOMAIN req /\ req'[n] = [req[n] EXCEPT !.pc = "done"]
          /\ \A k \in DOMAIN req : k # n => req'[k] = req[k]
      BY <3>1, <3>2
    <3>4. req[n] \in Request
      BY <3>1, <3>2
    <3> QED
      BY <3>1, <3>3, <3>4 DEF Request
  <2>2. UNCHANGED <<att, row, lost, unreported>>
    BY <1>5 DEF Enqueue
  <2>3. CASE m # n
    BY <1>t, <1>5, <2>1, <2>2, <2>3, BookUntouched DEF Enqueue, TypeOK
  <2>4. CASE m = n
    <3>1. job[n].state = "none" /\ job[n].attempt = 0 /\ att[n].pc = "none"
      BY <1>t, <1>5 DEF Enqueue, Book, AttemptRuns
    <3>2. job'[n] = [state |-> "available", attempt |-> 0]
      BY <1>t, <1>5, <3>1 DEF Enqueue, TypeOK, JobRecord
    <3> QED
      BY <1>t, <2>1, <2>2, <2>4, <3>1, <3>2, FollowUpsAssumption
      DEF Book, AttemptRuns, RowsOfAttempts, RowTellsOutcome
  <2> QED
    BY <2>3, <2>4
<1>6. ASSUME NEW n \in Job, Claim(n) PROVE Book(m)'
  <2>1. UNCHANGED <<req, row, lost, unreported>> /\ n \in DOMAIN req /\ req[n].pc = "done"
    BY <1>t, <1>6 DEF Claim, Book, AttemptRuns
  <2>2. CASE m # n
    BY <1>t, <1>6, <2>1, <2>2, BookUntouched DEF Claim, Step, TypeOK
  <2>3. CASE m = n
    <3> DEFINE k == job[n].attempt + 1
    <3>1. k \in 1..MaxAttempts /\ job[n].attempt \in Nat
      BY <1>t, <1>6, FollowUpsAssumption DEF Claim, Book, AttemptRuns, TypeOK, JobRecord
    <3>2. job'[n] = [state |-> "running", attempt |-> k] /\ att'[n].pc = "insert"
      BY <1>t, <1>6 DEF Claim, Step, TypeOK, Attempt
    <3>3. row[<<n, k>>] = "absent" /\ att[n].pc = "none"
      BY <1>t, <1>6, <3>1 DEF Claim, Book, AttemptRuns, RowsOfAttempts
    <3> HIDE DEF k
    <3>4. AttemptRuns(n)'
      BY <2>1, <3>1, <3>2 DEF AttemptRuns
    <3>5. \A i \in 1..MaxAttempts : k < i => job[n].attempt < i
      BY <3>1 DEF k
    <3>6. RowsOfAttempts(n)'
      <4>1. job'[n].attempt = k /\ att'[n].pc = "insert" /\ RunOf(n)' = <<n, k>>
        BY <3>2 DEF RunOf
      <4>2. \A i \in 1..MaxAttempts :
               /\ k < i => row[<<n, i>>] = "absent"
               /\ row[<<n, i>>] = "running" => <<n, i>> \in lost
        BY <1>t, <3>3, <3>5 DEF Book, RowsOfAttempts
      <4> QED
        BY <2>1, <3>3, <4>1, <4>2 DEF RowsOfAttempts
    <3>7. RowTellsOutcome(n)'
      BY <3>2 DEF RowTellsOutcome
    <3> QED
      BY <2>3, <3>4, <3>6, <3>7 DEF Book
  <2> QED
    BY <2>2, <2>3
<1>7. ASSUME NEW n \in Job, InsertRow(n) PROVE Book(m)'
  <2>1. UNCHANGED <<req, job, lost, unreported>> /\ att[n].pc = "insert" /\ RunOf(n)' = RunOf(n)
    BY <1>7 DEF InsertRow, RunOf
  <2>2. RunOf(n) \in Run /\ RunOf(n) = <<n, job[n].attempt>> /\ job[n].state = "running"
    BY <1>t, <2>1, RunOfType DEF Book, AttemptRuns, RunOf
  <2>3. att'[n].pc = "agent" /\ \A k \in Job \ {n} : att'[k] = att[k]
    BY <1>t, <1>7 DEF InsertRow, Step, TypeOK, Attempt
  <2>4. \A r \in Run : r # RunOf(n) => row'[r] = row[r]
    BY <1>t, <1>7 DEF InsertRow, TypeOK
  <2>5. row'[RunOf(n)] \in {"absent", "running"}
    BY <1>t, <1>7, <2>1, <2>2 DEF InsertRow, TypeOK, Book, RowsOfAttempts
  <2>6. CASE m # n
    BY <2>1, <2>2, <2>3, <2>4, <2>6, OtherBooks
  <2>7. CASE m = n
    <3>1. AttemptRuns(n)'
      BY <1>t, <2>1, <2>2 DEF Book, AttemptRuns
    <3>2. RowsOfAttempts(n)'
      <4> SUFFICES ASSUME NEW k \in 1..MaxAttempts
                   PROVE  /\ job[n].attempt < k => row'[<<n, k>>] = "absent"
                          /\ row'[<<n, k>>] = "running" => <<n, k>> \in lost \/ k = job[n].attempt
        BY <2>1, <2>3 DEF RowsOfAttempts
      <4>1. CASE k = job[n].attempt
        BY <4>1, <1>t DEF TypeOK, JobRecord
      <4>2. CASE k # job[n].attempt
        BY <1>t, <2>1, <2>2, <2>4, <4>2 DEF Book, RowsOfAttempts, Run
      <4> QED
        BY <4>1, <4>2
    <3>3. RowTellsOutcome(n)'
      BY <2>1, <2>2, <2>3 DEF RowTellsOutcome
    <3> QED
      BY <2>7, <3>1, <3>2, <3>3 DEF Book
  <2> QED
    BY <2>6, <2>7
<1>8. ASSUME NEW n \in Job, AgentReturns(n) \/ ReadResponse(n) \/ WriteResponse(n) PROVE Book(m)'
  <2>1. UNCHANGED <<req, job, row, lost, unreported>> /\ RunOf(n)' = RunOf(n)
    BY <1>8 DEF AgentReturns, ReadResponse, WriteResponse, RunOf
  <2>2. att[n].pc \in {"agent", "read", "write"} /\ att'[n].pc \in {"read", "write", "finish"}
    BY <1>t, <1>8 DEF AgentReturns, ReadResponse, WriteResponse, Step, TypeOK, Attempt
  <2>3. \A k \in Job \ {n} : att'[k] = att[k]
    BY <1>t, <1>8 DEF AgentReturns, ReadResponse, WriteResponse, Step, TypeOK
  <2>4. CASE m # n
    BY <2>1, <2>3, <2>4, OtherBooks
  <2>5. CASE m = n
    BY <1>t, <2>1, <2>2, <2>5 DEF Book, AttemptRuns, RowsOfAttempts, RowTellsOutcome
  <2> QED
    BY <2>4, <2>5
<1>9. ASSUME NEW n \in Job, Finish(n) PROVE Book(m)'
  <2>1. UNCHANGED <<req, job, unreported>> /\ att[n].pc = "finish" /\ RunOf(n)' = RunOf(n)
    BY <1>9 DEF Finish, RunOf
  <2>2. RunOf(n) \in Run /\ RunOf(n) = <<n, job[n].attempt>> /\ job[n].state = "running"
    BY <1>t, <2>1, RunOfType DEF Book, AttemptRuns, RunOf
  <2>3. att'[n].pc = "report" /\ att'[n].err = att[n].err /\ \A k \in Job \ {n} : att'[k] = att[k]
    BY <1>t, <1>9 DEF Finish, Step, TypeOK, Attempt
  <2>4. lost \subseteq lost' /\ \A r \in Run : r # RunOf(n) => row'[r] = row[r]
    BY <1>t, <1>9 DEF Finish, TypeOK
  <2>5. \/ row'[RunOf(n)] = Outcome(n)
        \/ RunOf(n) \in lost' /\ row'[RunOf(n)] = row[RunOf(n)]
    BY <1>t, <1>9, <2>2 DEF Finish, TypeOK
  <2>6. CASE m # n
    BY <2>1, <2>2, <2>3, <2>4, <2>6, OtherBooks
  <2>7. CASE m = n
    <3>1. AttemptRuns(n)'
      BY <1>t, <2>1, <2>2 DEF Book, AttemptRuns
    <3>2. RowsOfAttempts(n)'
      <4> SUFFICES ASSUME NEW k \in 1..MaxAttempts
                   PROVE  /\ job[n].attempt < k => row'[<<n, k>>] = "absent"
                          /\ row'[<<n, k>>] = "running" => <<n, k>> \in lost'
        BY <2>1, <2>3 DEF RowsOfAttempts
      <4>1. CASE k = job[n].attempt
        BY <4>1, <1>t, <2>2, <2>5 DEF TypeOK, JobRecord, Outcome
      <4>2. CASE k # job[n].attempt
        BY <1>t, <2>1, <2>2, <2>4, <4>2 DEF Book, RowsOfAttempts, Run
      <4> QED
        BY <4>1, <4>2
    <3>3. RowTellsOutcome(n)'
      BY <2>1, <2>2, <2>3, <2>5 DEF RowTellsOutcome, Outcome
    <3> QED
      BY <2>7, <3>1, <3>2, <3>3 DEF Book
  <2> QED
    BY <2>6, <2>7
<1>10. ASSUME NEW n \in Job, Report(n) \/ Rescue(n) PROVE Book(m)'
  <2>1. UNCHANGED <<req, row, lost, unreported>> /\ \A k \in Job \ {n} : att'[k] = att[k] /\ job'[k] = job[k]
    BY <1>t, <1>10 DEF Report, Rescue, TypeOK
  <2>2. CASE m # n
    BY <2>1, <2>2, OtherBooks
  <2>3. CASE m = n
    <3>1. job[n].state = "running" /\ n \in DOMAIN req /\ req[n].pc = "done"
      BY <1>t, <1>10 DEF Report, Rescue, Book, AttemptRuns
    <3>2. att'[n].pc = "none" /\ job'[n].attempt = job[n].attempt /\ RunOf(n)' = RunOf(n)
      BY <1>t, <1>10 DEF Report, Rescue, NoAttempt, TypeOK, JobRecord, RunOf
    <3>3. job'[n].state \in {AfterFailure(n), "completed"}
      BY <1>t, <1>10 DEF Report, Rescue, TypeOK, JobRecord
    <3>4. job[n].attempt \in 1..MaxAttempts
      BY <1>t, <3>1 DEF Book, AttemptRuns
    <3>5. AttemptRuns(n)'
      BY <2>1, <3>1, <3>2, <3>3, <3>4, FollowUpsAssumption DEF AttemptRuns, AfterFailure
    <3>6. RowsOfAttempts(n)'
      BY <1>t, <1>10, <2>1, <3>1, <3>2 DEF Report, Rescue, Book, RowsOfAttempts
    <3>7. RowTellsOutcome(n)'
      <4>1. CASE RunOf(n) \in lost
        BY <2>1, <3>2, <3>3, <4>1 DEF RowTellsOutcome, AfterFailure
      <4>2. CASE Report(n) /\ row[RunOf(n)] = Outcome(n)
        <5>1. job'[n].state = IF att[n].err THEN AfterFailure(n) ELSE "completed"
          BY <1>t, <4>2 DEF Report, TypeOK, JobRecord
        <5> QED
          BY <2>1, <3>2, <4>2, <5>1 DEF RowTellsOutcome, AfterFailure, Outcome
      <4>3. CASE Rescue(n) /\ RunOf(n) \in unreported /\ row[RunOf(n)] \in {"completed", "failed"}
        <5>1. job'[n].state = AfterFailure(n)
          BY <1>t, <4>3 DEF Rescue, TypeOK, JobRecord
        <5> QED
          BY <2>1, <3>2, <4>3, <5>1 DEF RowTellsOutcome, AfterFailure
      <4> QED
        BY <1>t, <1>10, <3>1, <4>1, <4>2, <4>3 DEF Report, Rescue, Book, RowTellsOutcome
    <3> QED
      BY <2>3, <3>5, <3>6, <3>7 DEF Book
  <2> QED
    BY <2>2, <2>3
<1>11. CASE Crash
  <2>1. UNCHANGED <<req, job, row>> /\ att'[m] = NoAttempt /\ RunOf(m)' = RunOf(m)
    BY <1>11 DEF Crash, RunOf
  <2>2. /\ lost \subseteq lost' /\ unreported \subseteq unreported'
        /\ att[m].pc \notin {"none", "report"} => RunOf(m) \in lost'
        /\ att[m].pc = "report" => RunOf(m) \in unreported'
    BY <1>11 DEF Crash
  <2>3. AttemptRuns(m)'
    BY <1>t, <2>1 DEF Book, AttemptRuns, NoAttempt
  <2>4. RowsOfAttempts(m)'
    BY <1>t, <2>1, <2>2 DEF Book, RowsOfAttempts, NoAttempt, RunOf
  <2>5. RowTellsOutcome(m)'
    BY <1>t, <2>1, <2>2 DEF Book, AttemptRuns, RowTellsOutcome, NoAttempt, Outcome
  <2> QED
    BY <2>3, <2>4, <2>5 DEF Book
<1>12. CASE UserNext
  BY <1>1, <1>2, <1>3, <1>12, Zenon DEF UserNext, Action
<1>13. CASE WorkerNext
  BY <1>6, <1>7, <1>8, <1>9, <1>10, <1>11, <1>13 DEF WorkerNext
<1> QED
  BY <1>1, <1>4, <1>5, <1>12, <1>13 DEF Next, ServerNext

-----------------------------------------------------------------------------
\* A response is never taken away, and the worker keeps what it read.
LEMMA AnsweredStep == IInv /\ [Next]_vars => Answered'
<1> SUFFICES ASSUME IInv, [Next]_vars PROVE Answered'
  OBVIOUS
<1>t. TypeOK /\ Answered
  BY DEF IInv
<1>q. \A n \in DOMAIN req : req[n] \in Request
  BY <1>t DEF TypeOK
<1>r. \A n \in DOMAIN req : req[n] \in Request /\ req[n].of \in Actionable
  BY <1>q DEF Request
<1>s. ASSUME UNCHANGED act, DOMAIN req' \subseteq DOMAIN req,
             \A n \in DOMAIN req : req'[n].of = req[n].of,
             \A n \in Job : att'[n] = att[n] \/ att'[n].pc # "write"
      PROVE  Answered'
  BY <1>t, <1>s DEF Answered
<1>1. CASE Open \/ Close \/ StreamNext \/ PulseNext \/ UNCHANGED vars
  <2>1. UNCHANGED <<act, att, req>>
    BY <1>1 DEF Open, Close, DrawerStep, StreamNext, ListRead, Hydrated, Subscribe, ReadFrame,
       StreamEnds, Reconnect, PulseNext, PulseAsk, PulseAnswer, PulseFails, PulseStep, vars, workerVars
  <2> QED
    BY <2>1, <1>s
<1>2. ASSUME NEW a \in Actionable, NEW action \in Action, NEW choice \in Choice \cup {None},
             Respond(a, action, choice)
      PROVE  Answered'
  <2>1. UNCHANGED att /\ \E e : req' = Append(req, e) /\ e.of = a
    BY <1>2 DEF Respond, workerVars
  <2>2. \A n \in DOMAIN req' : (n \in DOMAIN req /\ req'[n] = req[n]) \/ req'[n].of = a
    BY <1>t, <2>1 DEF TypeOK
  <2>3. act'[a].response \in Response
        /\ \A b \in Actionable : b # a => act'[b] = act[b]
    BY <1>t, <1>2 DEF Respond, Decoded, Body, Response, TypeOK
  <2>4. \A n \in DOMAIN req' : act'[req'[n].of].response \in Response
    BY <1>t, <1>r, <2>2, <2>3 DEF Answered
  <2> QED
    BY <1>t, <2>1, <2>4 DEF Answered
<1>3. ASSUME NEW S \in SUBSET Actionable, BulkDismiss(S) PROVE Answered'
  <2>1. \A a \in Actionable : act'[a].response \in Response \/ act'[a] = act[a]
    BY <1>3 DEF BulkDismiss, Response, Action
  <2>2. UNCHANGED <<req, att>>
    BY <1>3 DEF BulkDismiss, workerVars
  <2> QED
    BY <1>t, <1>r, <2>1, <2>2 DEF Answered
<1>4. ASSUME NEW n \in Job, Enqueue(n) \/ EnqueueLost(n) PROVE Answered'
  <2>1. n \in DOMAIN req /\ req' = [req EXCEPT ![n].pc = "done"] /\ UNCHANGED <<act, att>>
    BY <1>4 DEF Enqueue, EnqueueLost, workerVars
  <2>2. DOMAIN req' = DOMAIN req /\ \A k \in DOMAIN req : req'[k].of = req[k].of
    BY <1>t, <1>r, <2>1 DEF TypeOK, Request
  <2> QED
    BY <2>1, <2>2, <1>s
<1>5. ASSUME NEW n \in Job, Claim(n) \/ InsertRow(n) \/ AgentReturns(n) \/ Finish(n) PROVE Answered'
  BY <1>5, <1>s, <1>t DEF Claim, InsertRow, AgentReturns, Finish, Step, TypeOK, Attempt
<1>6. ASSUME NEW n \in Job, Report(n) \/ Rescue(n) PROVE Answered'
  BY <1>6, <1>s, <1>t DEF Report, Rescue, NoAttempt, TypeOK
<1>7. ASSUME NEW n \in Job, ReadResponse(n) PROVE Answered'
  <2>1. n \in DOMAIN req
    BY <1>7 DEF IInv, Book, AttemptRuns, ReadResponse
  <2> QED
    BY <1>7, <1>t, <2>1 DEF ReadResponse, Answered, TypeOK, Attempt
<1>8. ASSUME NEW n \in Job, WriteResponse(n) PROVE Answered'
  <2>1. att[n].read \in Response
    BY <1>8, <1>t DEF WriteResponse, Answered
  <2>2. [att[n].read EXCEPT !.effects = n] \in Response
    BY <2>1 DEF Response
  <2>3. \A a \in Actionable : act'[a].response \in Response \/ act'[a] = act[a]
    <3> DEFINE res == [att[n].read EXCEPT !.effects = n]
    <3>1. act \in [Actionable -> ActRecord]
      BY <1>t DEF TypeOK
    <3>2. act' = [act EXCEPT ![req[n].of].response = res] \/ UNCHANGED act
      BY <1>8 DEF WriteResponse
    <3>3. res \in Response
      BY <2>2
    <3> HIDE DEF res
    <3> QED
      BY <3>1, <3>2, <3>3 DEF ActRecord
  <2>4. \A k \in Job : att'[k] = att[k] \/ att'[k].pc # "write"
    BY <1>8, <1>t DEF WriteResponse, TypeOK, Attempt
  <2>5. UNCHANGED req
    BY <1>8 DEF WriteResponse
  <2> QED
    BY <1>t, <1>r, <2>3, <2>4, <2>5 DEF Answered
<1>9. CASE Crash
  BY <1>9, <1>s DEF Crash, NoAttempt
<1>10. CASE UserNext
  BY <1>1, <1>2, <1>3, <1>10, Zenon DEF UserNext, Action
<1>11. CASE WorkerNext
  BY <1>5, <1>6, <1>7, <1>8, <1>9, <1>11 DEF WorkerNext
<1> QED
  BY <1>1, <1>4, <1>10, <1>11 DEF Next, ServerNext

\* The inductive invariant holds in every reachable state.
THEOREM Invariant == Spec => []IInv
<1>1. IInv /\ [Next]_vars => IInv'
  BY TypeStep, BookStep, AnsweredStep DEF IInv
<1> QED
  BY InitIInv, <1>1, PTL DEF Spec

-----------------------------------------------------------------------------
\* Every variable keeps its type.
THEOREM TypeCorrect == Spec => []TypeOK
<1>1. IInv => TypeOK
  BY DEF IInv
<1> QED
  BY Invariant, <1>1, PTL

\* No row stays "running" but for a death of the worker or a failed UPDATE.
THEOREM PulseTruthful == Spec => []RunningIsAliveOrLost
<1>1. IInv => RunningIsAliveOrLost
  <2> SUFFICES ASSUME IInv, NEW r \in Run, row[r] = "running"
               PROVE  \/ r \in lost
                      \/ r = RunOf(r[1]) /\ att[r[1]].pc \in {"agent", "read", "write", "finish"}
    BY DEF RunningIsAliveOrLost
  <2>1. PICK n \in Job, k \in 1..MaxAttempts : r = <<n, k>>
    BY DEF Run
  <2> QED
    BY <2>1 DEF IInv, Book, RowsOfAttempts, RunOf
<1> QED
  BY Invariant, <1>1, PTL

\* A job and the row of its last attempt tell different outcomes only where
\* nobody could end the row, or nobody report the attempt that ended it.
THEOREM OutcomesAgree == Spec => []JobAndRowAgree
<1>1. IInv => JobAndRowAgree
  BY DEF IInv, Book, RowTellsOutcome, JobAndRowAgree
<1> QED
  BY Invariant, <1>1, PTL
=============================================================================
