----------------------------- MODULE Life_proofs -----------------------------
(***************************************************************************)
(* Theorems about the two components of the life service whose state the   *)
(* user sees: DayCycles, the planning cycles of a user's days, and KimChat, *)
(* the chat of one tab with the endpoint.  They share no state and stand   *)
(* together for their proofs only.                                         *)
(*                                                                         *)
(* DayCycles, for any profiles, days and numbers of jobs and attempts.     *)
(* AskedOnceADay follows from OneJobADay, which is not inductive: what it  *)
(* needs is what a scan that is about to insert knows of the jobs of its   *)
(* day.  MissedDayHasACause needs what the scans of a cycle's hours have   *)
(* seen.                                                                   *)
(*                                                                         *)
(* KimChat, for any numbers of turns and of loads.  What the quiet screen  *)
(* tells follows from what it tells while one turn is under way: the       *)
(* conversation as it was before the turn, with the turn stored behind it. *)
(* The screen is filtered by a recursive function (Keep), and the lemmas   *)
(* about that go by induction on the length of what is filtered.           *)
(***************************************************************************)
EXTENDS DayCycles, KimChat, WellFoundedInduction, TLAPS

-----------------------------------------------------------------------------
(* The planning cycles of a day.                                           *)


Kept(j) == jobs[j].state \notin {"none", "discarded"} /\ ~jobs[j].slow /\ ~jobs[j].unstamped

\* Jobs are numbered in the order of their insertion.
InOrder == \A j, k \in Job : j < k /\ jobs[k].state # "none" => jobs[j].state # "none"

\* Nothing is from the future.
NotAhead ==
    /\ \A j \in Job : jobs[j].slot <= now
    /\ \A c \in Cycle : last[c] # Never => last[c] <= now
    /\ scan.at <= now

\* An attempt belongs to a running job; a job that waits has attempts left.
AttemptOfRunning ==
    \A j \in Job : /\ jobs[j].step # "none" => jobs[j].state = "running"
                   /\ jobs[j].state = "available" => jobs[j].attempt < MaxAttempts
                   /\ jobs[j].state # "none" <=> jobs[j].cycle \in Cycle
                   /\ jobs[j].state = "none" => jobs[j].attempt = 0

\* A job that is not slow is of this half hour, or is over ...
QuickOrOver == \A j \in Job : Unfinished(j) /\ ~jobs[j].slow => jobs[j].slot = now

\* ... and then its cycle was stamped no earlier than it was inserted.
OverIsStamped ==
    \A j \in Job : jobs[j].state = "completed" /\ Kept(j) =>
        last[jobs[j].cycle] # Never /\ jobs[j].slot <= last[jobs[j].cycle]

\* A scan that found its cycle due in this half hour may only meet jobs of
\* this half hour.
ScanIsRight ==
    scan.pc = "insert" =>
        /\ scan.cycle \in Cycle
        /\ scan.at = now =>
              \A j \in Job :
                  Kept(j) /\ jobs[j].cycle = scan.cycle /\ DayOf(jobs[j].slot) = DayOf(now)
                    => jobs[j].slot = now

\* A cycle is inserted again on the same day only after a job that was
\* given up, slow or not stamped, or by a slow scan.
OneJobADay ==
    \A j, k \in Job :
        (/\ j < k /\ jobs[k].state # "none" /\ SameDay(j, k)
         /\ jobs[j].state # "discarded")
          => jobs[j].slow \/ jobs[j].unstamped \/ jobs[k].late

IInv ==
    /\ TypeOK /\ InOrder /\ NotAhead /\ AttemptOfRunning
    /\ QuickOrOver /\ OverIsStamped /\ ScanIsRight /\ OneJobADay

-----------------------------------------------------------------------------
\* A day begins no later than any of its half hours, and days are counted.
LEMMA DayBegins == \A t \in Nat : DayOf(t) \in Nat /\ DayOf(t) * Day <= t /\ t < (DayOf(t) + 1) * Day
  BY DayCyclesAssumption DEF DayOf

LEMMA TimeIsNat == Time \subseteq Nat
<1>1. Days * Day \in Nat
  BY DayCyclesAssumption
<1> QED
  BY <1>1 DEF Time

LEMMA DayInRange == \A t \in Time : DayOf(t) \in 0..Days
<1> SUFFICES ASSUME NEW t \in Time PROVE DayOf(t) \in 0..Days
  OBVIOUS
<1> DEFINE d == DayOf(t)
<1>1. d \in Nat /\ d * Day <= t
  BY DayBegins, TimeIsNat
<1>2. Days * Day \in Nat /\ t <= Days * Day /\ t \in Nat
  BY DayCyclesAssumption, TimeIsNat DEF Time
<1>3. d * Day <= Days * Day
  <2> d * Day \in Nat
    BY <1>1, DayCyclesAssumption
  <2> QED
    BY <1>1, <1>2
<1> HIDE DEF d
<1>4. d <= Days
  BY <1>1, <1>3, DayCyclesAssumption
<1> QED
  BY <1>1, <1>4, DayCyclesAssumption DEF d

\* The invariant holds when the worker starts.
LEMMA InitIInv == Init => IInv
<1> SUFFICES ASSUME Init PROVE IInv
  OBVIOUS
<1>1. 0 \in Time
  BY DayCyclesAssumption DEF Time
<1>2. TypeOK
  BY <1>1, DayCyclesAssumption DEF Init, TypeOK, NoJob, Cycle
<1> QED
  BY <1>2, DayCyclesAssumption
  DEF Init, IInv, InOrder, NotAhead, AttemptOfRunning, QuickOrOver, OverIsStamped,
      ScanIsRight, OneJobADay, NoJob, Unfinished, Kept, Cycle

\* Every variable keeps its type.
LEMMA TypeStep == IInv /\ [Next]_vars => TypeOK'
<1> SUFFICES ASSUME TypeOK, AttemptOfRunning, ScanIsRight, [Next]_vars PROVE TypeOK'
  BY DEF IInv
<1> USE DEF TypeOK, AttemptOfRunning
<1>0. 0 \in Time /\ Days * Day \in Nat /\ 0 \in 0..MaxAttempts
  BY DayCyclesAssumption DEF Time
<1>1. CASE Tick
  <2>1. now' \in Time
    BY <1>0, <1>1, TimeIsNat DEF Tick, Time
  <2>2. jobs' \in [Job -> [cycle : Cycle \cup {"none"}, slot : Time,
                         state : {"none", "available", "running", "completed", "discarded"},
                         step : {"none", "agent", "stamp"}, attempt : 0..MaxAttempts,
                         slow : BOOLEAN, unstamped : BOOLEAN, late : BOOLEAN]]
    BY <1>1 DEF Tick, Unfinished
  <2> QED
    BY <1>1, <2>1, <2>2 DEF Tick
<1>2. CASE ScanReads
  <2>1. DueCycle \in Cycle \cup {"none"}
    BY DEF DueCycle, Cycle
  <2> QED
    BY <1>2, <2>1 DEF ScanReads
<1>3. CASE ScanSkips \/ ScanFails
  BY <1>0, <1>3 DEF ScanSkips, ScanFails, ScanEnds
<1>4. ASSUME NEW j \in Job, ScanInserts(j) PROVE TypeOK'
  BY <1>0, <1>4 DEF ScanInserts, ScanEnds, NoJob
<1>5. ASSUME NEW j \in Job, Start(j) PROVE TypeOK'
  BY <1>5, DayCyclesAssumption DEF Start
<1>6. ASSUME NEW j \in Job, AgentAnswers(j) PROVE TypeOK'
  BY <1>6 DEF AgentAnswers
<1>7. ASSUME NEW j \in Job, CycleFails(j) \/ Rescued(j) PROVE TypeOK'
  BY <1>7 DEF CycleFails, Rescued, GivenBack
<1>8. ASSUME NEW j \in Job, Stamp(j) PROVE TypeOK'
  <2>1. jobs[j].cycle \in Cycle
    BY <1>8 DEF Stamp
  <2>2. DayOf(now) \in 0..Days
    BY DayInRange
  <2> QED
    BY <1>8, <2>1, <2>2 DEF Stamp
<1>9. ASSUME NEW j \in Job, StampFails(j) PROVE TypeOK'
  BY <1>9 DEF StampFails
<1>10. CASE UNCHANGED vars
  BY <1>10 DEF vars
<1> QED
  BY <1>1, <1>2, <1>3, <1>4, <1>5, <1>6, <1>7, <1>8, <1>9, <1>10 DEF Next

\* Order, time and attempts.
LEMMA OrderStep == IInv /\ [Next]_vars => (InOrder /\ NotAhead /\ AttemptOfRunning)'
<1> SUFFICES ASSUME IInv, [Next]_vars PROVE (InOrder /\ NotAhead /\ AttemptOfRunning)'
  OBVIOUS
<1> USE DEF IInv, TypeOK, InOrder, NotAhead, AttemptOfRunning
<1>0. now \in Nat /\ Time \subseteq Nat /\ Never \notin Nat
  BY TimeIsNat, DayCyclesAssumption
<1>1. CASE Tick
  BY <1>0, <1>1 DEF Tick
<1>2. CASE ScanReads
  BY <1>0, <1>2 DEF ScanReads
<1>3. CASE ScanSkips
  BY <1>0, <1>3 DEF ScanSkips, ScanEnds
<1>9. CASE ScanFails
  BY <1>0, <1>9 DEF ScanFails
<1>4. ASSUME NEW j \in Job, ScanInserts(j) PROVE (InOrder /\ NotAhead /\ AttemptOfRunning)'
  BY <1>0, <1>4, DayCyclesAssumption DEF ScanInserts, ScanEnds, NoJob, Job, ScanIsRight
<1>5. ASSUME NEW j \in Job, Start(j) \/ AgentAnswers(j) \/ StampFails(j)
      PROVE (InOrder /\ NotAhead /\ AttemptOfRunning)'
  BY <1>0, <1>5 DEF Start, AgentAnswers, StampFails
<1>6. ASSUME NEW j \in Job, CycleFails(j) \/ Rescued(j)
      PROVE (InOrder /\ NotAhead /\ AttemptOfRunning)'
  BY <1>0, <1>6 DEF CycleFails, Rescued, GivenBack
<1>7. ASSUME NEW j \in Job, Stamp(j) PROVE (InOrder /\ NotAhead /\ AttemptOfRunning)'
  BY <1>0, <1>7 DEF Stamp
<1>8. CASE UNCHANGED vars
  BY <1>8 DEF vars
<1> QED
  BY <1>1, <1>2, <1>3, <1>4, <1>5, <1>6, <1>7, <1>8, <1>9 DEF Next

\* What jobs that are over say of the stamps.
LEMMA StampStep == IInv /\ [Next]_vars => (QuickOrOver /\ OverIsStamped)'
<1> SUFFICES ASSUME IInv, [Next]_vars PROVE (QuickOrOver /\ OverIsStamped)'
  OBVIOUS
<1> USE DEF IInv, TypeOK, NotAhead, AttemptOfRunning, QuickOrOver, OverIsStamped, Kept, Unfinished
<1>0. now \in Nat /\ Time \subseteq Nat /\ Never \notin Nat
  BY TimeIsNat, DayCyclesAssumption
<1>1. CASE Tick
  BY <1>0, <1>1 DEF Tick
<1>2. CASE ScanReads \/ ScanSkips \/ ScanFails
  BY <1>2 DEF ScanReads, ScanSkips, ScanFails
<1>4. ASSUME NEW j \in Job, ScanInserts(j) PROVE (QuickOrOver /\ OverIsStamped)'
  BY <1>4 DEF ScanInserts, NoJob
<1>5. ASSUME NEW j \in Job, Start(j) \/ AgentAnswers(j) \/ StampFails(j)
      PROVE (QuickOrOver /\ OverIsStamped)'
  BY <1>5 DEF Start, AgentAnswers, StampFails
<1>6. ASSUME NEW j \in Job, CycleFails(j) \/ Rescued(j) PROVE (QuickOrOver /\ OverIsStamped)'
  BY <1>6 DEF CycleFails, Rescued, GivenBack
<1>7. ASSUME NEW j \in Job, Stamp(j) PROVE (QuickOrOver /\ OverIsStamped)'
  \* The stamp is of now, and no job was inserted later than that.
  BY <1>0, <1>7 DEF Stamp
<1>8. CASE UNCHANGED vars
  BY <1>8 DEF vars
<1> QED
  BY <1>1, <1>2, <1>4, <1>5, <1>6, <1>7, <1>8 DEF Next

\* A scan that finds its cycle due meets no job of an earlier half hour of
\* the day: that job would be over, and its stamp would be of today.
LEMMA DueMeansFresh ==
    ASSUME IInv, NEW c \in Cycle, Due(c), NEW j \in Job, Kept(j), jobs[j].cycle = c,
           DayOf(jobs[j].slot) = DayOf(now)
    PROVE  jobs[j].slot = now
<1> USE DEF IInv, TypeOK
<1>0. now \in Nat /\ Time \subseteq Nat /\ Never \notin Nat
  BY TimeIsNat, DayCyclesAssumption
<1>6. jobs[j].slot \in Nat
  BY <1>0
<1>1. SUFFICES ASSUME jobs[j].slot # now PROVE FALSE
  OBVIOUS
<1>2. jobs[j].state = "completed"
  BY <1>1 DEF QuickOrOver, Kept, Unfinished
<1>3. last[c] # Never /\ jobs[j].slot <= last[c] /\ last[c] \in Nat
  BY <1>0, <1>2 DEF OverIsStamped
<1>4. DayOf(now) * Day <= jobs[j].slot /\ DayOf(now) * Day \in Nat
  BY <1>0, <1>6, DayBegins, DayCyclesAssumption
<1>5. DayOf(now) * Day <= last[c]
  BY <1>3, <1>4, <1>6
<1> QED
  BY <1>3, <1>5 DEF Due, RanToday

\* What a scan about to insert knows is true until it inserts.
LEMMA ScanStep == IInv /\ [Next]_vars => ScanIsRight'
<1> SUFFICES ASSUME IInv, [Next]_vars PROVE ScanIsRight'
  OBVIOUS
<1> USE DEF IInv, TypeOK, NotAhead, AttemptOfRunning, ScanIsRight
<1>0. now \in Nat /\ Time \subseteq Nat
  BY TimeIsNat
<1>1. CASE Tick
  BY <1>0, <1>1 DEF Tick
<1>2. CASE ScanReads
  <2>1. CASE DueCycle = "none"
    BY <1>2, <2>1 DEF ScanReads
  <2>2. CASE DueCycle # "none"
    <3>1. DueCycle \in Cycle /\ Due(DueCycle)
      BY <2>2 DEF DueCycle, Cycle
    <3>2. scan'.cycle = DueCycle /\ UNCHANGED <<now, jobs>>
      BY <1>2, <2>2 DEF ScanReads
    <3>3. \A j \in Job : Kept(j) /\ jobs[j].cycle = DueCycle /\ DayOf(jobs[j].slot) = DayOf(now)
                          => jobs[j].slot = now
      BY <3>1, DueMeansFresh
    <3> QED
      BY <3>1, <3>2, <3>3 DEF Kept
  <2> QED
    BY <2>1, <2>2
<1>3. ASSUME scan'.pc = "idle" PROVE ScanIsRight'
  BY <1>3
<1>4. ASSUME ScanSkips \/ ScanFails \/ \E j \in Job : ScanInserts(j) PROVE scan'.pc = "idle"
  BY <1>4 DEF ScanSkips, ScanFails, ScanInserts, ScanEnds
<1>5. ASSUME NEW j \in Job, Start(j) \/ AgentAnswers(j) \/ StampFails(j) PROVE ScanIsRight'
  BY <1>5 DEF Start, AgentAnswers, StampFails, Kept
<1>6. ASSUME NEW j \in Job, CycleFails(j) \/ Rescued(j) PROVE ScanIsRight'
  BY <1>6 DEF CycleFails, Rescued, GivenBack, Kept
<1>7. ASSUME NEW j \in Job, Stamp(j) PROVE ScanIsRight'
  BY <1>7 DEF Stamp, Kept
<1>8. CASE UNCHANGED vars
  BY <1>8 DEF vars, Kept
<1> QED
  BY <1>1, <1>2, <1>3, <1>4, <1>5, <1>6, <1>7, <1>8 DEF Next

\* Only an insertion could make a second job, and the scan and the unique
\* period keep it from doing so.
LEMMA OnceStep == IInv /\ [Next]_vars => OneJobADay'
<1> SUFFICES ASSUME IInv, [Next]_vars PROVE OneJobADay'
  OBVIOUS
<1> USE DEF IInv, TypeOK, OneJobADay, SameDay
<1>1. CASE Tick
  BY <1>1 DEF Tick
<1>2. CASE ScanReads \/ ScanSkips \/ ScanFails
  BY <1>2 DEF ScanReads, ScanSkips, ScanFails
<1>4. ASSUME NEW n \in Job, ScanInserts(n) PROVE OneJobADay'
  <2> SUFFICES ASSUME NEW j \in Job, NEW k \in Job, j < k, jobs'[k].state # "none",
                      SameDay(j, k)', jobs'[j].state # "discarded"
               PROVE  jobs'[j].slow \/ jobs'[j].unstamped \/ jobs'[k].late
    OBVIOUS
  <2>1. jobs[n].state = "none" /\ scan.pc = "insert" /\ ~Duplicate(scan.cycle)
    BY <1>4 DEF ScanInserts
  <2>2. CASE n \notin {j, k}
    BY <1>4, <2>2 DEF ScanInserts
  <2>3. CASE n = j
    \* No job comes after the first free number.
    <3>1. jobs[k].state = "none" /\ j # k
      BY <2>1, <2>3 DEF InOrder, Job
    <3> QED
      BY <1>4, <2>3, <3>1 DEF ScanInserts
  <2>4. CASE n = k
    <3>1. jobs'[j] = jobs[j] /\ jobs[j].state # "none"
      BY <1>4, <2>4 DEF ScanInserts, Job
    <3>2. jobs'[k].cycle = scan.cycle /\ jobs'[k].slot = now /\ jobs'[k].late = (scan.at # now)
      BY <1>4, <2>4 DEF ScanInserts, NoJob
    <3>3. jobs[j].cycle = scan.cycle /\ DayOf(jobs[j].slot) = DayOf(now) /\ jobs[j].state # "discarded"
      BY <3>1, <3>2
    <3>4. jobs[j].slot # now
      BY <2>1, <3>3 DEF Duplicate
    <3> QED
      BY <2>1, <3>1, <3>2, <3>3, <3>4 DEF ScanIsRight, Kept
  <2> QED
    BY <2>2, <2>3, <2>4
<1>5. ASSUME NEW j \in Job, Start(j) \/ AgentAnswers(j) \/ StampFails(j) PROVE OneJobADay'
  BY <1>5 DEF Start, AgentAnswers, StampFails, AttemptOfRunning
<1>6. ASSUME NEW j \in Job, CycleFails(j) \/ Rescued(j) PROVE OneJobADay'
  BY <1>6 DEF CycleFails, Rescued, GivenBack, AttemptOfRunning
<1>7. ASSUME NEW j \in Job, Stamp(j) PROVE OneJobADay'
  BY <1>7 DEF Stamp, AttemptOfRunning
<1>8. CASE UNCHANGED vars
  BY <1>8 DEF vars
<1> QED
  BY <1>1, <1>2, <1>4, <1>5, <1>6, <1>7, <1>8 DEF Next

\* The inductive invariant holds in every reachable state.
THEOREM Invariant == Spec => []IInv
<1>1. IInv /\ [Next]_vars => IInv'
  BY TypeStep, OrderStep, StampStep, ScanStep, OnceStep DEF IInv
<1> QED
  BY InitIInv, <1>1, PTL DEF Spec

-----------------------------------------------------------------------------
\* Every variable keeps its type.
THEOREM TypeCorrect == Spec => []TypeOK
<1>1. IInv => TypeOK
  BY DEF IInv
<1> QED
  BY Invariant, <1>1, PTL

\* The agent is asked once a day to plan a cycle, unless an attempt of the
\* earlier job failed, that job outlived its half hour or lost its stamp, or
\* the scan that inserted the later one was slow (schedulerScanWorker,
\* ranToday).
THEOREM OnceADay == Spec => []AskedOnceADay
<1>1. ASSUME IInv PROVE AskedOnceADay
  <2> SUFFICES ASSUME NEW j \in Job, NEW k \in Job, NEW m \in 1..MaxAttempts, NEW n \in 1..MaxAttempts,
                      AskedAgain(j, m, k, n)
               PROVE  Failed(j) \/ jobs[j].slow \/ jobs[j].unstamped \/ jobs[k].late
    BY DEF AskedOnceADay
  <2>1. /\ m \in Nat /\ n \in Nat /\ jobs[j].attempt \in Nat /\ jobs[k].attempt \in Nat
        /\ 1 <= m /\ m <= jobs[j].attempt /\ 1 <= n /\ n <= jobs[k].attempt
    BY <1>1, DayCyclesAssumption DEF IInv, TypeOK, AskedAgain
  <2>2. CASE j = k /\ m < n
    BY <2>1, <2>2 DEF Failed
  <2>3. CASE j < k /\ jobs[j].state = "discarded"
    BY <2>1, <2>3 DEF Failed
  <2>4. CASE j < k /\ jobs[j].state # "discarded"
    <3>1. jobs[k].state # "none"
      BY <1>1, <2>1 DEF IInv, AttemptOfRunning
    <3> QED
      BY <1>1, <2>4, <3>1 DEF IInv, OneJobADay, AskedAgain
  <2> QED
    BY <2>2, <2>3, <2>4 DEF AskedAgain
<1> QED
  BY Invariant, <1>1, PTL
-----------------------------------------------------------------------------
(* A day without a stamp.  Asked and Seen relate a half hour of the past to *)
(* what the scans of that half hour have left behind.                       *)

\* Half hour t is one at which only c could be due.
Asked(c, t) == HoursOfItsOwn(c) /\ (t % Day) \in Window(user, c)

\* The day of t has a stamp of c, or t a job.
Seen(c, t) ==
    \/ <<c, DayOf(t)>> \in ran
    \/ \E j \in Job : jobs[j].state # "none" /\ jobs[j].cycle = c /\ jobs[j].slot = t

\* A scan that is to insert in the half hour in which it read found c due,
\* or its day stamped.
ScanFoundIt ==
    scan.pc = "insert" /\ scan.at = now =>
        \A c \in Cycle : Asked(c, now) => scan.cycle = c \/ <<c, DayOf(now)>> \in ran

\* A scan has ended in this half hour ...
ScanSawIt == scan.done => \A c \in Cycle : Asked(c, now) => Seen(c, now)

\* ... and in every half hour before.
PastSeen == \A c \in Cycle, t \in Time : t < now /\ Asked(c, t) => Seen(c, t)

StampIsRan == \A c \in Cycle : last[c] # Never => <<c, DayOf(last[c])>> \in ran

\* A job that is neither slow nor lost its stamp was stamped on its day.
CompletedRan ==
    \A j \in Job : jobs[j].state = "completed" /\ Kept(j) =>
        <<jobs[j].cycle, DayOf(jobs[j].slot)>> \in ran

MissInv == ScanFoundIt /\ ScanSawIt /\ PastSeen /\ StampIsRan /\ CompletedRan

\* Days do not overlap: a half hour is of the day in which it lies.
LEMMA DayIsUnique ==
    ASSUME NEW t \in Nat, NEW d \in Nat, d * Day <= t, t < (d + 1) * Day
    PROVE  DayOf(t) = d
<1> DEFINE q == DayOf(t)
<1>1. q \in Nat /\ q * Day <= t /\ t < (q + 1) * Day
  BY DayBegins
<1> HIDE DEF q
<1>2. ASSUME NEW a \in Nat, NEW b \in Nat, a < b PROVE (a + 1) * Day <= b * Day
  BY <1>2, DayCyclesAssumption
<1>3. ~(d < q)
  <2> SUFFICES ASSUME d < q PROVE FALSE
    OBVIOUS
  <2>1. (d + 1) * Day <= q * Day
    BY <1>1, <1>2
  <2>2. (d + 1) * Day \in Nat /\ q * Day \in Nat
    BY <1>1, DayCyclesAssumption
  <2> QED
    BY <1>1, <2>1, <2>2
<1>4. ~(q < d)
  <2> SUFFICES ASSUME q < d PROVE FALSE
    OBVIOUS
  <2>1. (q + 1) * Day <= d * Day
    BY <1>1, <1>2
  <2>2. (q + 1) * Day \in Nat /\ d * Day \in Nat
    BY <1>1, DayCyclesAssumption
  <2> QED
    BY <1>1, <2>1, <2>2
<1> QED
  BY <1>1, <1>3, <1>4 DEF q

\* A half hour of the day comes on every day.
LEMMA HourOfDay ==
    ASSUME NEW d \in Nat, NEW h \in 0..(Day - 1)
    PROVE  /\ d * Day + h \in Nat /\ d * Day + h < (d + 1) * Day
           /\ DayOf(d * Day + h) = d /\ (d * Day + h) % Day = h
<1> DEFINE t == d * Day + h
<1>1. t \in Nat /\ d * Day <= t /\ t < (d + 1) * Day
  BY DayCyclesAssumption
<1>2. DayOf(t) = d
  BY <1>1, DayIsUnique
<1>3. t = Day * (t \div Day) + (t % Day)
  BY <1>1, DayCyclesAssumption
<1>4. t % Day = h
  BY <1>1, <1>2, <1>3, DayCyclesAssumption DEF DayOf
<1> QED
  BY <1>1, <1>2, <1>4

LEMMA InitMiss == Init => MissInv
<1> SUFFICES ASSUME Init PROVE MissInv
  OBVIOUS
<1>1. \A t \in Time : ~(t < 0)
  BY TimeIsNat
<1> QED
  BY <1>1 DEF Init, MissInv, ScanFoundIt, ScanSawIt, PastSeen, StampIsRan, CompletedRan, NoJob

\* A scan that reads at an hour of c's own finds c due, or its day stamped.
LEMMA ReadingFinds ==
    ASSUME IInv, StampIsRan, NEW c \in Cycle, Asked(c, now)
    PROVE  DueCycle = c \/ <<c, DayOf(now)>> \in ran
<1> SUFFICES ASSUME DueCycle # c PROVE <<c, DayOf(now)>> \in ran
  OBVIOUS
<1>1. \A b \in Cycle \ {c} : ~Due(b)
  BY DEF Asked, HoursOfItsOwn, Due
<1>2. ~Due(c)
  BY <1>1 DEF DueCycle, Cycle
<1>3. last[c] # Never /\ last[c] >= DayOf(now) * Day
  BY <1>2 DEF Due, Asked, RanToday
<1>4. last[c] \in Nat /\ now \in Nat /\ last[c] <= now
  BY <1>3, TimeIsNat DEF IInv, TypeOK, NotAhead
<1>5. DayOf(now) \in Nat /\ now < (DayOf(now) + 1) * Day
  BY <1>4, DayBegins
<1>6. (DayOf(now) + 1) * Day \in Nat
  BY <1>5, DayCyclesAssumption
<1>7. DayOf(last[c]) = DayOf(now)
  BY <1>3, <1>4, <1>5, <1>6, DayIsUnique
<1> QED
  BY <1>3, <1>7 DEF StampIsRan

\* Who has inserted or met a job of this half hour has seen it.
LEMMA EndingSees ==
    ASSUME IInv, MissInv, scan.pc = "insert", NEW c \in Cycle, Asked(c, now), scan.at = now,
           ScanSkips \/ \E j \in Job : ScanInserts(j)
    PROVE  Seen(c, now)'
<1> USE DEF IInv, TypeOK
<1>1. CASE <<c, DayOf(now)>> \in ran
  BY <1>1 DEF Seen, ScanSkips, ScanInserts
<1>2. CASE <<c, DayOf(now)>> \notin ran
  <2>1. scan.cycle = c
    BY <1>2 DEF MissInv, ScanFoundIt
  <2>2. CASE ScanSkips
    <3>1. PICK j \in Job : jobs[j].cycle = c /\ jobs[j].slot = now
      BY <2>1, <2>2 DEF ScanSkips, Duplicate
    <3>2. jobs[j].state # "none"
      BY <3>1 DEF AttemptOfRunning
    <3> QED
      BY <2>2, <3>1, <3>2 DEF Seen, ScanSkips
  <2>3. ASSUME NEW j \in Job, ScanInserts(j) PROVE Seen(c, now)'
    BY <2>1, <2>3 DEF ScanInserts, NoJob, Seen
  <2> QED
    BY <2>2, <2>3
<1> QED
  BY <1>1, <1>2

\* What has been seen stays seen: stamps are kept, and so are jobs.
LEMMA SeenStays ==
    ASSUME IInv, [Next]_vars, NEW c, NEW t, Seen(c, t)
    PROVE  Seen(c, t)'
<1> USE DEF IInv, TypeOK, Seen
<1>1. CASE Tick
  BY <1>1 DEF Tick
<1>2. CASE ScanReads \/ ScanSkips \/ ScanFails
  BY <1>2 DEF ScanReads, ScanSkips, ScanFails
<1>3. ASSUME NEW j \in Job, ScanInserts(j) PROVE Seen(c, t)'
  BY <1>3 DEF ScanInserts
<1>4. ASSUME NEW j \in Job, Start(j) \/ AgentAnswers(j) \/ StampFails(j) PROVE Seen(c, t)'
  BY <1>4 DEF Start, AgentAnswers, StampFails
<1>5. ASSUME NEW j \in Job, CycleFails(j) \/ Rescued(j) PROVE Seen(c, t)'
  BY <1>5 DEF CycleFails, Rescued, GivenBack
<1>6. ASSUME NEW j \in Job, Stamp(j) PROVE Seen(c, t)'
  BY <1>6 DEF Stamp
<1>7. CASE UNCHANGED vars
  BY <1>7 DEF vars
<1> QED
  BY <1>1, <1>2, <1>3, <1>4, <1>5, <1>6, <1>7 DEF Next

\* The profile is read, never written.
LEMMA SameHours == ASSUME [Next]_vars, NEW c, NEW t PROVE Asked(c, t)' <=> Asked(c, t)
<1>1. UNCHANGED user
  BY DEF Next, vars, Tick, ScanReads, ScanSkips, ScanFails, ScanInserts, Start, AgentAnswers,
         StampFails, CycleFails, Rescued, Stamp
<1> QED
  BY <1>1 DEF Asked, HoursOfItsOwn, Window

LEMMA SawStep ==
    ASSUME IInv, MissInv, [Next]_vars
    PROVE  (ScanFoundIt /\ ScanSawIt /\ PastSeen)'
<1> USE DEF MissInv, ScanFoundIt, ScanSawIt, PastSeen
<1>t. now \in Nat /\ Time \subseteq Nat /\ scan.at \in Nat /\ scan.at <= now
  BY TimeIsNat DEF IInv, TypeOK, NotAhead
<1>1. CASE Tick
  <2>1. now' = now + 1 /\ scan'.at = scan.at /\ ~scan'.done /\ scan.done
    BY <1>1 DEF Tick, IInv, TypeOK
  <2>2. scan'.at # now'
    BY <1>t, <2>1
  <2>3. ASSUME NEW c \in Cycle, NEW t \in Time, t < now', Asked(c, t)' PROVE Seen(c, t)'
    <3>1. t < now \/ t = now
      BY <1>t, <2>1, <2>3
    <3> QED
      BY <2>1, <2>3, <3>1, SameHours, SeenStays
  <2> QED
    BY <2>1, <2>2, <2>3
<1>2. ASSUME UNCHANGED now PROVE PastSeen'
  BY <1>2, SameHours, SeenStays
<1>3. ASSUME UNCHANGED now, UNCHANGED scan PROVE (ScanFoundIt /\ ScanSawIt)'
  <2>1. \A c \in Cycle : <<c, DayOf(now)>> \in ran => <<c, DayOf(now)>> \in ran'
    BY DEF Next, vars, Tick, ScanReads, ScanSkips, ScanFails, ScanInserts, Start, AgentAnswers,
           StampFails, CycleFails, Rescued, Stamp
  <2> QED
    BY <1>3, <2>1, SameHours, SeenStays
<1>4. CASE ScanReads
  <2>1. CASE DueCycle = "none"
    <3>1. UNCHANGED <<now, ran>> /\ scan'.pc = "idle"
      BY <1>4, <2>1 DEF ScanReads, IInv, TypeOK
    <3>2. ASSUME NEW c \in Cycle, Asked(c, now)' PROVE Seen(c, now)'
      <4>1. Asked(c, now)
        BY <3>1, <3>2, SameHours
      <4>2. <<c, DayOf(now)>> \in ran
        BY <2>1, <4>1, ReadingFinds DEF Cycle
      <4> QED
        BY <3>1, <4>2 DEF Seen
    <3> QED
      BY <1>2, <3>1, <3>2
  <2>2. CASE DueCycle # "none"
    <3>1. UNCHANGED <<now, ran>> /\ scan'.cycle = DueCycle /\ scan'.done = scan.done
      BY <1>4, <2>2 DEF ScanReads, IInv, TypeOK
    <3>2. ScanFoundIt'
      BY <3>1, ReadingFinds, SameHours
    <3> QED
      BY <1>2, <3>1, <3>2, SameHours, SeenStays
  <2> QED
    BY <2>1, <2>2
<1>5. CASE ScanSkips \/ \E j \in Job : ScanInserts(j)
  <2>1. scan.pc = "insert" /\ scan'.pc = "idle" /\ UNCHANGED now
        /\ scan'.done = (scan.done \/ scan.at = now)
    BY <1>5 DEF ScanSkips, ScanInserts, ScanEnds, IInv, TypeOK
  <2>2. ASSUME scan'.done, NEW c \in Cycle, Asked(c, now)' PROVE Seen(c, now)'
    <3>1. Asked(c, now)
      BY <2>1, <2>2, SameHours
    <3> QED
      BY <1>5, <2>1, <2>2, <3>1, EndingSees, SeenStays
  <2> QED
    BY <1>2, <2>1, <2>2
<1>6. CASE ScanFails
  <2>1. scan'.pc = "idle" /\ UNCHANGED now /\ scan'.done = scan.done
    BY <1>6 DEF ScanFails, IInv, TypeOK
  <2> QED
    BY <1>2, <2>1, SameHours, SeenStays
<1>7. ASSUME \E j \in Job : \/ Start(j) \/ AgentAnswers(j) \/ CycleFails(j) \/ Stamp(j)
                            \/ StampFails(j) \/ Rescued(j)
      PROVE  UNCHANGED <<now, scan>>
  BY <1>7 DEF Start, AgentAnswers, CycleFails, Stamp, StampFails, Rescued
<1>8. CASE UNCHANGED vars
  BY <1>2, <1>3, <1>8 DEF vars
<1> QED
  BY <1>1, <1>2, <1>3, <1>4, <1>5, <1>6, <1>7, <1>8 DEF Next

LEMMA RanStep ==
    ASSUME IInv, MissInv, [Next]_vars
    PROVE  (StampIsRan /\ CompletedRan)'
<1> USE DEF IInv, TypeOK, MissInv, StampIsRan, CompletedRan, Kept
<1>1. CASE Tick
  BY <1>1 DEF Tick
<1>2. CASE ScanReads \/ ScanSkips \/ ScanFails
  BY <1>2 DEF ScanReads, ScanSkips, ScanFails
<1>3. ASSUME NEW j \in Job, ScanInserts(j) PROVE (StampIsRan /\ CompletedRan)'
  BY <1>3 DEF ScanInserts, NoJob
<1>4. ASSUME NEW j \in Job, Start(j) \/ AgentAnswers(j) \/ StampFails(j)
      PROVE (StampIsRan /\ CompletedRan)'
  BY <1>4 DEF Start, AgentAnswers, StampFails
<1>5. ASSUME NEW j \in Job, CycleFails(j) \/ Rescued(j) PROVE (StampIsRan /\ CompletedRan)'
  BY <1>5 DEF CycleFails, Rescued, GivenBack
<1>6. ASSUME NEW j \in Job, Stamp(j) PROVE (StampIsRan /\ CompletedRan)'
  \* A job stamped without having become slow is of this half hour.
  <2>1. jobs[j].state = "running" /\ jobs[j].cycle \in Cycle
    BY <1>6 DEF Stamp, AttemptOfRunning
  <2>2. ~jobs[j].slow => jobs[j].slot = now
    BY <2>1 DEF QuickOrOver, Unfinished
  <2> QED
    BY <1>6, <2>1, <2>2 DEF Stamp
<1>7. CASE UNCHANGED vars
  BY <1>7 DEF vars
<1> QED
  BY <1>1, <1>2, <1>3, <1>4, <1>5, <1>6, <1>7 DEF Next

\* A day that is over has had an hour of c's own; what that hour has left
\* behind is a stamp of the day, or a job that is to blame.
LEMMA MissedDay == IInv /\ MissInv => MissedDayHasACause
<1> SUFFICES ASSUME IInv, MissInv, NEW c \in Cycle, NEW d \in 0..(Days - 1),
                    now >= (d + 1) * Day, HoursOfItsOwn(c), <<c, d>> \notin ran
             PROVE  \E j \in Job :
                        /\ jobs[j].cycle = c /\ DayOf(jobs[j].slot) = d
                        /\ jobs[j].state = "discarded" \/ jobs[j].slow \/ jobs[j].unstamped
  BY DEF MissedDayHasACause
<1>1. PICK h \in 0..(Day - 1) : h \in Window(user, c)
  BY DEF HoursOfItsOwn
<1> DEFINE t == d * Day + h
<1>2. t \in Nat /\ t < (d + 1) * Day /\ DayOf(t) = d /\ t % Day = h
  <2>1. d \in Nat
    BY DayCyclesAssumption
  <2> QED
    BY <2>1, HourOfDay
<1> HIDE DEF t
<1>3. now \in Nat /\ now <= Days * Day /\ Days * Day \in Nat /\ (d + 1) * Day \in Nat
  BY TimeIsNat, DayCyclesAssumption DEF IInv, TypeOK, Time
<1>4. t < now /\ t \in Time
  BY <1>2, <1>3 DEF Time
<1>5. Seen(c, t)
  BY <1>1, <1>2, <1>4 DEF MissInv, PastSeen, Asked
<1>6. PICK j \in Job : jobs[j].state # "none" /\ jobs[j].cycle = c /\ jobs[j].slot = t
  BY <1>2, <1>5 DEF Seen
<1>7. Unfinished(j) => jobs[j].slow
  BY <1>3, <1>4, <1>6, <1>2 DEF IInv, QuickOrOver
<1>8. jobs[j].state = "completed" => jobs[j].slow \/ jobs[j].unstamped
  BY <1>2, <1>6 DEF MissInv, CompletedRan, Kept
<1>9. jobs[j].state \in {"none", "available", "running", "completed", "discarded"}
  BY DEF IInv, TypeOK
<1> QED
  BY <1>2, <1>6, <1>7, <1>8, <1>9 DEF Unfinished

\* A day that is over, on which a cycle has hours of its own and was not
\* stamped, has a job of that day to blame, which was given up, slow or not
\* stamped: windows, stamps and the unique period (determineDueCycle,
\* ranToday, UniqueOpts) alone leave no day out.
THEOREM NoDayLeftOut == Spec => []MissedDayHasACause
<1>1. IInv /\ MissInv /\ [Next]_vars => MissInv'
  BY SawStep, RanStep DEF MissInv
<1>2. Spec => []MissInv
  BY Invariant, InitMiss, <1>1, PTL DEF Spec
<1> QED
  BY Invariant, <1>2, MissedDay, PTL

-----------------------------------------------------------------------------
(* The chat: the parts of the invariant.                                   *)

Handled == {"agent", "saved", "failed"}

\* The tab and the handler of a turn: who has not sent has no handler, a
\* handler past its INSERTs has a conversation that exists, a stream that
\* brought a last event is one whose answer was stored, and one that was cut
\* is one whose handler stores nothing more.
Handlers ==
    \A t \in Turn :
        /\ server[t].pc = "none" <=> stream[t].pc = "none"
        /\ server[t].pc = "none" => t \notin convs
        /\ server[t].pc \in {"posted", "refused"} => server[t].conv \in convs \cup {None}
        /\ server[t].pc \in Handled => server[t].conv \in convs
        /\ stream[t].pc \in {"completed", "done"} => server[t].pc = "saved"
        /\ stream[t].pc = "cut" => server[t].pc = "failed"

\* A conversation holds a message once, and only one its handler stored ...
Books ==
    \A c \in Turn :
        /\ c \notin convs => db[c] = <<>>
        /\ \A i \in DOMAIN db[c] :
              /\ server[db[c][i].turn].conv = c
              /\ server[db[c][i].turn].pc \in Handled
              /\ db[c][i].role = "assistant" => server[db[c][i].turn].pc = "saved"
        /\ \A i, j \in DOMAIN db[c] : db[c][i] = db[c][j] => i = j

\* ... and what a handler stored is there.
Filed ==
    \A t \in Turn :
        /\ server[t].pc \in Handled => Said(t, "user") \in Range(db[server[t].conv])
        /\ server[t].pc = "saved" => Said(t, "assistant") \in Range(db[server[t].conv])

\* What a request has read is stored in its conversation.
LoadsAreStored ==
    \A l \in Load :
        /\ InFlight(l) => loads[l].conv # None
        /\ ~InFlight(l) => loads[l].msgs = <<>>
        /\ \A i \in DOMAIN loads[l].msgs : loads[l].msgs[i] \in Range(db[loads[l].conv])

\* As long as every message was sent from the last state, one stream is read
\* at a time, and "sending" says whether there is one.
Reading(t) == stream[t].pc \in {"open", "completed"}

OneAtATime ==
    ~hasty =>
        /\ \A t \in Turn : Reading(t) => sending
        /\ \A t, u \in Turn : Reading(t) /\ Reading(u) => t = u

\* What is stored after a message of a turn whose stream is open is its
\* answer, or of a turn the tab has given up.
OpenIsLast ==
    ~hasty =>
        \A c \in Turn : \A i, j \in DOMAIN db[c] :
            i < j /\ Open(db[c][i].turn) =>
                db[c][j].turn = db[c][i].turn \/ stream[db[c][j].turn].pc = "rolled_back"

\* The screen but for temporary messages.
Base == AsSaid(Finals)

\* The conversation of t, whose handler may still have to create it.
ConvOf(t) == IF conv = None THEN t ELSE conv

Answer(t) == {Said(t, "user"), Said(t, "assistant")}

\* What the handler of t has stored.
StoredOf(t) ==
    CASE server[t].pc \in {"agent", "failed"} -> <<Said(t, "user")>>
      [] server[t].pc = "saved" -> <<Said(t, "user"), Said(t, "assistant")>>
      [] server[t].pc \in {"none", "posted", "refused"} -> <<>>

\* One turn is under way and nothing overlapped it: but for its temporary
\* messages the screen tells the conversation as it was before the turn,
\* and the turn is stored behind all that the screen shows.
UnderWay(t) ==
    /\ \A u \in Turn : Open(u) => u = t
    /\ \A l \in Load : ~InFlight(l)
    /\ conv = None => Base = <<>>
    /\ server[t].pc \in {"posted", "refused"} => server[t].conv = conv
    /\ server[t].pc \in Handled => server[t].conv = ConvOf(t)
    /\ Keep(db[ConvOf(t)], Range(Base)) = Base
    /\ Keep(db[ConvOf(t)], Range(Base) \cup Answer(t)) = Base \o StoredOf(t)
    /\ \A m \in Range(db[ConvOf(t)]) : m.turn = t \/ m \in Range(Base) \/ GivenUp(m.turn)

TurnsUnderWay == ~skewed => \A t \in Turn : Open(t) => UnderWay(t)

\* A request that nothing has overlapped is the only thing under way, and
\* what it has read tells the current conversation.
AloneIsAlone ==
    \A l \in Load : loads[l].alone =>
        /\ InFlight(l)
        /\ \A t \in Turn : ~Open(t)
        /\ \A k \in Load : InFlight(k) => k = l
        /\ loads[l].conv = conv /\ conv # None
        /\ loads[l].pc = "read" => Tells(loads[l].msgs, conv)

Unskewed == ~skewed => \A l \in Load : InFlight(l) => loads[l].alone

-----------------------------------------------------------------------------
(* Lemmas about filtering.  Induction goes by the least number that is not  *)
(* in a set.                                                                *)

LEMMA NatSet ==
    ASSUME NEW T, T \subseteq Nat, 0 \in T, \A n \in T : n + 1 \in T
    PROVE  T = Nat
<1> SUFFICES ASSUME Nat \ T # {} PROVE FALSE
  OBVIOUS
<1>1. IsWellFoundedOn(OpToRel(<, Nat), Nat)
  BY NatLessThanWellFounded
<1>2. PICK x \in Nat \ T : \A y \in Nat \ T : <<y, x>> \notin OpToRel(<, Nat)
  BY <1>1, WFMin
<1>3. x \in Nat /\ x - 1 \in Nat /\ x - 1 < x
  <2>1. x \in Nat /\ x # 0
    BY <1>2
  <2> QED
    BY <2>1
<1>4. <<x - 1, x>> \in OpToRel(<, Nat)
  BY <1>3 DEF OpToRel
<1>5. x - 1 \in T
  BY <1>2, <1>3, <1>4
<1>6. (x - 1) + 1 = x
  BY <1>3
<1> QED
  BY <1>2, <1>5, <1>6

\* F[i] filters the first i elements of s.
IsFilter(F, s, P) ==
    F = [i \in 0..Len(s) |->
            IF i = 0 THEN <<>>
            ELSE IF s[i] \in P THEN Append(F[i - 1], s[i]) ELSE F[i - 1]]

LEMMA FilterExists ==
    ASSUME NEW S, NEW s \in Seq(S), NEW P
    PROVE  \E F : IsFilter(F, s, P)
<1> DEFINE Upto(n, F) ==
        F = [i \in 0..n |->
                IF i = 0 THEN <<>>
                ELSE IF s[i] \in P THEN Append(F[i - 1], s[i]) ELSE F[i - 1]]
           T == {n \in Nat : \E F : Upto(n, F)}
<1>1. 0 \in T
  <2>1. Upto(0, [i \in 0..0 |-> <<>>])
    OBVIOUS
  <2> QED
    BY <2>1
<1>2. ASSUME NEW n \in T PROVE n + 1 \in T
  <2>1. PICK F : Upto(n, F)
    BY <1>2
  <2> DEFINE G == [i \in 0..(n + 1) |->
                     IF i <= n THEN F[i]
                     ELSE IF s[n + 1] \in P THEN Append(F[n], s[n + 1]) ELSE F[n]]
  <2> n \in Nat
    BY <1>2
  <2>2. \A i \in 0..n : F[i] = IF i = 0 THEN <<>>
                               ELSE IF s[i] \in P THEN Append(F[i - 1], s[i]) ELSE F[i - 1]
    BY <2>1
  <2>3. \A i \in 0..n : G[i] = F[i]
    OBVIOUS
  <2>4. G[n + 1] = IF s[n + 1] \in P THEN Append(F[n], s[n + 1]) ELSE F[n]
    OBVIOUS
  <2> DEFINE H == [i \in 0..(n + 1) |->
                IF i = 0 THEN <<>>
                ELSE IF s[i] \in P THEN Append(G[i - 1], s[i]) ELSE G[i - 1]]
  <2>5. ASSUME NEW i \in 0..(n + 1) PROVE G[i] = H[i]
    <3> HIDE DEF G
    <3>0. i = n + 1 \/ i \in 0..n
      OBVIOUS
    <3>1. H[i] = IF i = 0 THEN <<>>
                 ELSE IF s[i] \in P THEN Append(G[i - 1], s[i]) ELSE G[i - 1]
      OBVIOUS
    <3> HIDE DEF H
    <3>2. CASE i = n + 1
      <4>1. i # 0 /\ i - 1 = n /\ G[n] = F[n]
        BY <2>3, <3>2
      <4> QED
        BY <2>4, <3>1, <3>2, <4>1
    <3>3. CASE i \in 0..n
      <4>1. i # 0 => i - 1 \in 0..n
        BY <3>3
      <4> QED
        BY <2>2, <2>3, <3>1, <3>3, <4>1
    <3> QED
      BY <3>0, <3>2, <3>3
  <2>6. G = H
    BY <2>5
  <2>7. Upto(n + 1, G)
    BY <2>6
  <2> HIDE DEF G, Upto
  <2> QED
    BY <2>7
<1> HIDE DEF T
<1>3. T = Nat
  <2>1. T \subseteq Nat
    BY DEF T
  <2> QED
    BY <1>1, <1>2, <2>1, NatSet
<1>4. Len(s) \in T
  BY <1>3
<1> QED
  BY <1>4 DEF T, IsFilter

LEMMA KeepIsFilter ==
    ASSUME NEW S, NEW s \in Seq(S), NEW P
    PROVE  \E F : IsFilter(F, s, P) /\ Keep(s, P) = F[Len(s)]
<1> DEFINE F == CHOOSE F : IsFilter(F, s, P)
<1>1. IsFilter(F, s, P)
  BY FilterExists
<1>2. Keep(s, P) = F[Len(s)]
  BY DEF Keep, IsFilter
<1> QED
  BY <1>1, <1>2

\* Two filters that agree on the first n elements.
LEMMA FiltersAgree ==
    ASSUME NEW S, NEW s \in Seq(S), NEW r \in Seq(S), NEW P, NEW Q, NEW F, NEW G,
           IsFilter(F, s, P), IsFilter(G, r, Q),
           NEW n \in Nat, n <= Len(s), n <= Len(r),
           \A i \in 1..n : s[i] = r[i] /\ (s[i] \in P <=> r[i] \in Q)
    PROVE  F[n] = G[n]
<1> DEFINE T == {k \in Nat : k <= n => F[k] = G[k]}
<1>0. /\ \A i \in 0..Len(s) : F[i] = IF i = 0 THEN <<>>
                ELSE IF s[i] \in P THEN Append(F[i - 1], s[i]) ELSE F[i - 1]
      /\ \A i \in 0..Len(r) : G[i] = IF i = 0 THEN <<>>
                ELSE IF r[i] \in Q THEN Append(G[i - 1], r[i]) ELSE G[i - 1]
  BY DEF IsFilter
<1>1. 0 \in T
  BY <1>0
<1>2. ASSUME NEW k \in T PROVE k + 1 \in T
  <2> SUFFICES ASSUME k + 1 <= n PROVE F[k + 1] = G[k + 1]
    BY <1>2
  <2>1. k \in Nat /\ F[k] = G[k]
    BY <1>2
  <2>2. k + 1 \in 0..Len(s) /\ k + 1 \in 0..Len(r) /\ k + 1 # 0 /\ (k + 1) - 1 = k /\ k + 1 \in 1..n
    BY <2>1
  <2> QED
    BY <1>0, <2>1, <2>2
<1>3. T = Nat
  <2> HIDE DEF T
  <2>1. T \subseteq Nat
    BY DEF T
  <2> QED
    BY <1>1, <1>2, <2>1, NatSet
<1> QED
  BY <1>3

\* What is kept is of s and of P.
LEMMA KeepType ==
    ASSUME NEW S, NEW s \in Seq(S), NEW P
    PROVE  /\ Keep(s, P) \in Seq(S)
           /\ \A i \in DOMAIN Keep(s, P) : Keep(s, P)[i] \in P /\ Keep(s, P)[i] \in Range(s)
<1>1. PICK F : IsFilter(F, s, P) /\ Keep(s, P) = F[Len(s)]
  BY KeepIsFilter
<1> DEFINE R == {x \in S : x \in P /\ x \in Range(s)}
           T == {k \in Nat : k <= Len(s) => F[k] \in Seq(R)}
<1>0. \A i \in 0..Len(s) : F[i] = IF i = 0 THEN <<>>
                ELSE IF s[i] \in P THEN Append(F[i - 1], s[i]) ELSE F[i - 1]
  BY <1>1 DEF IsFilter
<1>2. 0 \in T
  <2>1. F[0] = <<>>
    BY <1>0
  <2> HIDE DEF R
  <2>2. <<>> \in Seq(R)
    OBVIOUS
  <2> QED
    BY <2>1, <2>2
<1>3. ASSUME NEW k \in T PROVE k + 1 \in T
  <2> SUFFICES ASSUME k + 1 <= Len(s) PROVE F[k + 1] \in Seq(R)
    BY <1>3
  <2>1. k \in Nat /\ F[k] \in Seq(R)
    BY <1>3
  <2>2. k + 1 \in 0..Len(s) /\ k + 1 # 0 /\ (k + 1) - 1 = k /\ k + 1 \in 1..Len(s)
    BY <2>1
  <2>3. F[k + 1] = IF s[k + 1] \in P THEN Append(F[k], s[k + 1]) ELSE F[k]
    BY <1>0, <2>2
  <2>4. s[k + 1] \in P => s[k + 1] \in R
    BY <2>2 DEF Range
  <2> HIDE DEF R
  <2> QED
    BY <2>1, <2>3, <2>4
<1>4. T = Nat
  <2> HIDE DEF T
  <2>1. T \subseteq Nat
    BY DEF T
  <2> QED
    BY <1>2, <1>3, <2>1, NatSet
<1>5. Keep(s, P) \in Seq(R)
  BY <1>1, <1>4
<1> HIDE DEF T
<1>6. \A i \in DOMAIN Keep(s, P) : Keep(s, P)[i] \in R
  <2> HIDE DEF R
  <2> QED
    BY <1>5
<1>7. Keep(s, P) \in Seq(S)
  <2>1. R \subseteq S
    OBVIOUS
  <2> HIDE DEF R
  <2> QED
    BY <1>5, <2>1
<1> QED
  BY <1>6, <1>7

LEMMA KeepAppend ==
    ASSUME NEW S, NEW s \in Seq(S), NEW x \in S, NEW P
    PROVE  Keep(Append(s, x), P) = IF x \in P THEN Append(Keep(s, P), x) ELSE Keep(s, P)
<1> DEFINE r == Append(s, x)
<1>1. r \in Seq(S) /\ Len(r) = Len(s) + 1 /\ r[Len(r)] = x /\ \A i \in 1..Len(s) : r[i] = s[i]
  OBVIOUS
<1> HIDE DEF r
<1>2. PICK F : IsFilter(F, s, P) /\ Keep(s, P) = F[Len(s)]
  BY KeepIsFilter
<1>3. PICK G : IsFilter(G, r, P) /\ Keep(r, P) = G[Len(r)]
  BY <1>1, KeepIsFilter
<1>4. F[Len(s)] = G[Len(s)]
  <2>1. Len(s) \in Nat /\ Len(s) <= Len(s) /\ Len(s) <= Len(r)
        /\ \A i \in 1..Len(s) : s[i] = r[i] /\ (s[i] \in P <=> r[i] \in P)
    BY <1>1
  <2> QED
    BY <1>1, <1>2, <1>3, <2>1, FiltersAgree
<1>5. Len(r) \in 0..Len(r) /\ Len(r) # 0 /\ Len(r) - 1 = Len(s)
  BY <1>1
<1>6. G[Len(r)] = IF r[Len(r)] \in P THEN Append(G[Len(r) - 1], r[Len(r)]) ELSE G[Len(r) - 1]
  BY <1>3, <1>5 DEF IsFilter
<1>7. Keep(r, P) = IF x \in P THEN Append(Keep(s, P), x) ELSE Keep(s, P)
  BY <1>1, <1>2, <1>3, <1>4, <1>5, <1>6
<1> QED
  BY <1>7 DEF r

\* Only the elements of s count.
LEMMA KeepSame ==
    ASSUME NEW S, NEW s \in Seq(S), NEW P, NEW Q, \A i \in DOMAIN s : s[i] \in P <=> s[i] \in Q
    PROVE  Keep(s, P) = Keep(s, Q)
<1>1. PICK F : IsFilter(F, s, P) /\ Keep(s, P) = F[Len(s)]
  BY KeepIsFilter
<1>2. PICK G : IsFilter(G, s, Q) /\ Keep(s, Q) = G[Len(s)]
  BY KeepIsFilter
<1>3. Len(s) \in Nat /\ Len(s) <= Len(s) /\ \A i \in 1..Len(s) : s[i] = s[i] /\ (s[i] \in P <=> s[i] \in Q)
  OBVIOUS
<1>4. F[Len(s)] = G[Len(s)]
  BY <1>1, <1>2, <1>3, FiltersAgree
<1> QED
  BY <1>1, <1>2, <1>4

LEMMA KeepAll ==
    ASSUME NEW S, NEW s \in Seq(S), NEW P, \A i \in DOMAIN s : s[i] \in P
    PROVE  Keep(s, P) = s
<1>1. PICK F : IsFilter(F, s, P) /\ Keep(s, P) = F[Len(s)]
  BY KeepIsFilter
<1> DEFINE T == {k \in Nat : k <= Len(s) => F[k] = SubSeq(s, 1, k)}
<1>0. \A i \in 0..Len(s) : F[i] = IF i = 0 THEN <<>>
                ELSE IF s[i] \in P THEN Append(F[i - 1], s[i]) ELSE F[i - 1]
  BY <1>1 DEF IsFilter
<1>2. 0 \in T
  <2>1. F[0] = <<>>
    BY <1>0
  <2>2. SubSeq(s, 1, 0) = <<>>
    OBVIOUS
  <2> QED
    BY <2>1, <2>2
<1>3. ASSUME NEW k \in T PROVE k + 1 \in T
  <2> SUFFICES ASSUME k + 1 <= Len(s) PROVE F[k + 1] = SubSeq(s, 1, k + 1)
    BY <1>3
  <2>1. k \in Nat /\ F[k] = SubSeq(s, 1, k)
    BY <1>3
  <2>2. k + 1 \in 0..Len(s) /\ k + 1 # 0 /\ (k + 1) - 1 = k /\ k + 1 \in DOMAIN s
    BY <2>1
  <2>3. F[k + 1] = Append(SubSeq(s, 1, k), s[k + 1])
    BY <1>0, <2>1, <2>2
  <2>4. Append(SubSeq(s, 1, k), s[k + 1]) = SubSeq(s, 1, k + 1)
    BY <2>1, <2>2
  <2> QED
    BY <2>3, <2>4
<1>4. T = Nat
  <2> HIDE DEF T
  <2>1. T \subseteq Nat
    BY DEF T
  <2> QED
    BY <1>2, <1>3, <2>1, NatSet
<1>5. F[Len(s)] = SubSeq(s, 1, Len(s))
  BY <1>4
<1>6. SubSeq(s, 1, Len(s)) = s
  OBVIOUS
<1> QED
  BY <1>1, <1>5, <1>6

-----------------------------------------------------------------------------
(* Lemmas about the messages.                                               *)

LEMMA SaidType ==
    ASSUME NEW t \in Turn, NEW r \in Role, NEW k \in {"tmp", "final"}
    PROVE  /\ Said(t, r) \in Message /\ Said(t, r).turn = t /\ Said(t, r).role = r
           /\ Shown(t, r, k) \in OnScreen /\ Shown(t, r, k).turn = t
           /\ Shown(t, r, k).role = r /\ Shown(t, r, k).kind = k
  BY DEF Said, Shown, Message, OnScreen

LEMMA SaidIsMessage ==
    ASSUME NEW m \in Message
    PROVE  m = Said(m.turn, m.role) /\ m.turn \in Turn /\ m.role \in Role
  BY DEF Said, Message

LEMMA AsSaidType ==
    ASSUME NEW s \in Seq(OnScreen)
    PROVE  /\ AsSaid(s) \in Seq(Message) /\ Len(AsSaid(s)) = Len(s) /\ DOMAIN AsSaid(s) = DOMAIN s
           /\ \A i \in DOMAIN s : AsSaid(s)[i] = Said(s[i].turn, s[i].role)
<1>1. ASSUME NEW i \in 1..Len(s) PROVE Said(s[i].turn, s[i].role) \in Message
  <2>1. s[i] \in OnScreen
    OBVIOUS
  <2>2. s[i].turn \in Turn /\ s[i].role \in Role
    BY <2>1 DEF OnScreen
  <2> QED
    BY <2>2, SaidType
<1>2. DOMAIN s = 1..Len(s) /\ Len(s) \in Nat
  OBVIOUS
<1> QED
  BY <1>1, <1>2 DEF AsSaid

LEMMA AsShownType ==
    ASSUME NEW s \in Seq(Message)
    PROVE  /\ AsShown(s) \in Seq(OnScreen) /\ Len(AsShown(s)) = Len(s) /\ DOMAIN AsShown(s) = DOMAIN s
           /\ \A i \in DOMAIN s : AsShown(s)[i] = Shown(s[i].turn, s[i].role, "final")
<1>1. ASSUME NEW i \in 1..Len(s) PROVE Shown(s[i].turn, s[i].role, "final") \in OnScreen
  <2>1. s[i] \in Message
    OBVIOUS
  <2>2. s[i].turn \in Turn /\ s[i].role \in Role
    BY <2>1 DEF Message
  <2> QED
    BY <2>2, SaidType
<1>2. DOMAIN s = 1..Len(s) /\ Len(s) \in Nat
  OBVIOUS
<1> QED
  BY <1>1, <1>2 DEF AsShown

LEMMA AsSaidAsShown ==
    ASSUME NEW s \in Seq(Message)
    PROVE  AsSaid(AsShown(s)) = s
<1>1. /\ AsSaid(AsShown(s)) \in Seq(Message) /\ Len(AsSaid(AsShown(s))) = Len(s)
  BY AsShownType, AsSaidType
<1>2. \A i \in 1..Len(s) : AsSaid(AsShown(s))[i] = s[i]
  <2> TAKE i \in 1..Len(s)
  <2>1. i \in DOMAIN s /\ s[i] \in Message
    OBVIOUS
  <2>2. AsShown(s)[i].turn = s[i].turn /\ AsShown(s)[i].role = s[i].role
    BY <2>1, AsShownType, SaidIsMessage, SaidType
  <2>3. AsSaid(AsShown(s))[i] = Said(s[i].turn, s[i].role)
    BY <2>1, <2>2, AsShownType, AsSaidType
  <2> QED
    BY <2>1, <2>3, SaidIsMessage
<1> QED
  BY <1>1, <1>2

LEMMA AsSaidAppend ==
    ASSUME NEW s \in Seq(OnScreen), NEW x \in OnScreen
    PROVE  AsSaid(Append(s, x)) = Append(AsSaid(s), Said(x.turn, x.role))
<1> DEFINE r == Append(s, x)
           m == Said(x.turn, x.role)
<1>0. m \in Message
  BY DEF Said, Message, OnScreen
<1>1. r \in Seq(OnScreen) /\ Len(r) = Len(s) + 1 /\ r[Len(s) + 1] = x /\ \A i \in 1..Len(s) : r[i] = s[i]
  OBVIOUS
<1> HIDE DEF r
<1>2. AsSaid(r) \in Seq(Message) /\ Len(AsSaid(r)) = Len(s) + 1
      /\ \A i \in 1..(Len(s) + 1) : AsSaid(r)[i] = Said(r[i].turn, r[i].role)
  BY <1>1, AsSaidType
<1>3. AsSaid(s) \in Seq(Message) /\ Len(AsSaid(s)) = Len(s)
      /\ \A i \in 1..Len(s) : AsSaid(s)[i] = Said(s[i].turn, s[i].role)
  BY AsSaidType
<1>4. \A i \in 1..Len(s) : AsSaid(r)[i] = AsSaid(s)[i]
  BY <1>1, <1>2, <1>3
<1>5. AsSaid(r)[Len(s) + 1] = m
  BY <1>1, <1>2
<1>6. AsSaid(r) = Append(AsSaid(s), m)
  <2> DEFINE a == AsSaid(r)
             b == AsSaid(s)
             e == Append(b, m)
  <2>1. a \in Seq(Message) /\ b \in Seq(Message) /\ Len(a) = Len(b) + 1
        /\ a[Len(b) + 1] = m /\ \A i \in 1..Len(b) : a[i] = b[i]
    BY <1>2, <1>3, <1>4, <1>5
  <2> HIDE DEF a, b, m
  <2>2. e \in Seq(Message) /\ Len(e) = Len(b) + 1 /\ e[Len(b) + 1] = m
        /\ \A i \in 1..Len(b) : e[i] = b[i]
    BY <1>0, <2>1
  <2>3. \A i \in 1..(Len(b) + 1) : a[i] = e[i]
    BY <2>1, <2>2
  <2>4. a = e
    BY <2>1, <2>2, <2>3
  <2> QED
    BY <2>4 DEF a, b
<1> QED
  BY <1>6 DEF r

LEMMA RangeAppend ==
    ASSUME NEW S, NEW s \in Seq(S), NEW x \in S
    PROVE  Range(Append(s, x)) = Range(s) \cup {x}
<1> DEFINE r == Append(s, x)
<1>1. r \in Seq(S) /\ Len(r) = Len(s) + 1 /\ r[Len(s) + 1] = x /\ \A i \in 1..Len(s) : r[i] = s[i]
  OBVIOUS
<1>2. DOMAIN r = 1..(Len(s) + 1) /\ DOMAIN s = 1..Len(s) /\ Len(s) \in Nat
  OBVIOUS
<1> HIDE DEF r
<1>3. Range(s) \cup {x} \subseteq Range(r)
  BY <1>1, <1>2 DEF Range
<1>4. ASSUME NEW i \in DOMAIN r PROVE r[i] \in Range(s) \cup {x}
  <2>1. i \in 1..Len(s) \/ i = Len(s) + 1
    BY <1>2
  <2> QED
    BY <1>1, <1>2, <2>1 DEF Range
<1>5. Range(r) = Range(s) \cup {x}
  BY <1>3, <1>4 DEF Range
<1> QED
  BY <1>5 DEF r

\* What the screen keeps of itself when the temporary messages of t go.
LEMMA WithoutTmpFacts ==
    ASSUME screen \in Seq(OnScreen), NEW t \in Turn
    PROVE  /\ WithoutTmp(t) \in Seq(OnScreen)
           /\ \A i \in DOMAIN WithoutTmp(t) :
                 LET m == WithoutTmp(t)[i] IN
                 (m.turn # t \/ m.kind = "final") /\ m \in Range(screen)
  BY KeepType DEF WithoutTmp, NotTmpOf

-----------------------------------------------------------------------------
(* Types, and what handlers and conversations know of each other.           *)

LEMMA ChatTypeStep ==
    ASSUME ChatTypeOK, Handlers, LoadsAreStored, [ChatNext]_chatVars
    PROVE  ChatTypeOK'
<1> USE DEF ChatTypeOK
<1>0. None \notin Turn /\ Turn \subseteq Nat
  BY KimChatAssumption DEF Turn
<1>1. ASSUME NEW t \in Turn, Prepare(t) PROVE ChatTypeOK'
  <2> DEFINE c == IF server[t].conv = None THEN t ELSE server[t].conv
  <2>1. c \in Turn
    BY <1>1 DEF Prepare, Handlers, HandlerOf
  <2>2. /\ convs' = convs \cup {c} /\ UNCHANGED tabVars
        /\ server' = [server EXCEPT ![t] = [pc |-> "agent", conv |-> c]]
        /\ db' = [db EXCEPT ![c] = Append(@, Said(t, "user"))]
    BY <1>1 DEF Prepare
  <2>3. Said(t, "user") \in Message
    BY SaidType DEF Role
  <2> HIDE DEF c
  <2>4. db' \in [Turn -> Seq(Message)]
    BY <2>1, <2>2, <2>3
  <2>5. server' \in [Turn -> HandlerOf]
    BY <2>1, <2>2 DEF HandlerOf
  <2>6. loads' \in [Load -> RequestOf(convs')]
    BY <2>2 DEF tabVars, RequestOf
  <2> QED
    BY <2>1, <2>2, <2>4, <2>5, <2>6 DEF tabVars
<1>2. ASSUME NEW t \in Turn, Refuse(t) PROVE ChatTypeOK'
  <2>1. convs \subseteq convs' /\ convs' \subseteq Turn
    BY <1>2 DEF Refuse
  <2>2. server' \in [Turn -> HandlerOf]
    BY <1>2 DEF Refuse, ServerStep, HandlerOf
  <2>3. loads' \in [Load -> RequestOf(convs')]
    BY <1>2, <2>1 DEF Refuse, tabVars, RequestOf
  <2> QED
    BY <1>2, <2>1, <2>2, <2>3 DEF Refuse, tabVars
<1>3. ASSUME NEW t \in Turn, Save(t) PROVE ChatTypeOK'
  <2>1. server[t].conv \in Turn
    BY <1>3 DEF Save, Handlers, Handled, HandlerOf
  <2>2. Said(t, "assistant") \in Message
    BY SaidType DEF Role
  <2>3. db' \in [Turn -> Seq(Message)]
    BY <1>3, <2>1, <2>2 DEF Save
  <2>4. server' \in [Turn -> HandlerOf]
    BY <1>3 DEF Save, ServerStep, HandlerOf
  <2> QED
    BY <1>3, <2>3, <2>4 DEF Save, tabVars
<1>4. ASSUME NEW t \in Turn, AgentFails(t) PROVE ChatTypeOK'
  BY <1>4 DEF AgentFails, ServerStep, tabVars, HandlerOf
<1>5. ASSUME NEW l \in Load, ListRead(l) PROVE ChatTypeOK'
  <2>1. db[loads[l].conv] \in Seq(Message) \/ loads[l].conv = None
    BY DEF RequestOf
  <2>2. loads[l].conv # None
    BY <1>5 DEF ListRead, LoadsAreStored, InFlight
  <2>3. loads' \in [Load -> RequestOf(convs)]
    BY <1>5, <2>1, <2>2 DEF ListRead, RequestOf
  <2> QED
    BY <1>5, <2>3 DEF ListRead, serverVars, history
<1>6. ASSUME NEW t \in Turn, Send(t) PROVE ChatTypeOK'
  <2>1. Shown(t, "user", "tmp") \in OnScreen
    BY SaidType DEF Role
  <2>2. loads' \in [Load -> RequestOf(convs)]
    BY <1>6 DEF Send, NoLongerAlone, RequestOf
  <2>3. skewed' \in BOOLEAN /\ hasty' \in BOOLEAN
    BY <1>6 DEF Send
  <2>4. server' \in [Turn -> HandlerOf]
    BY <1>6 DEF Send, HandlerOf
  <2>5. stream' \in [Turn -> StreamOf]
    BY <1>6 DEF Send, StreamOf
  <2>6. screen' \in Seq(OnScreen)
    BY <1>6, <2>1 DEF Send
  <2> QED
    BY <1>6, <2>2, <2>3, <2>4, <2>5, <2>6 DEF Send
<1>7. ASSUME NEW t \in Turn, Part(t) PROVE ChatTypeOK'
  <2>1. Shown(t, "assistant", "tmp") \in OnScreen
    BY SaidType DEF Role
  <2>2. stream' \in [Turn -> StreamOf]
    BY <1>7 DEF Part, StreamOf
  <2> QED
    BY <1>7, <2>1, <2>2 DEF Part, serverVars, history
<1>8. ASSUME NEW t \in Turn, Complete(t) PROVE ChatTypeOK'
  <2>1. Shown(t, "user", "final") \in OnScreen /\ Shown(t, "assistant", "final") \in OnScreen
    BY SaidType DEF Role
  <2>2. server[t].conv \in convs
    BY <1>8 DEF Complete, Handlers, Handled
  <2>3. WithoutTmp(t) \in Seq(OnScreen)
    BY WithoutTmpFacts
  <2>4. screen' \in Seq(OnScreen)
    BY <1>8, <2>1, <2>3 DEF Complete
  <2>5. stream' \in [Turn -> StreamOf]
    BY <1>8 DEF Complete, Completed, StreamOf
  <2> QED
    BY <1>8, <2>2, <2>4, <2>5 DEF Complete, Completed, serverVars, history
<1>9. ASSUME NEW t \in Turn, RollBack(t) PROVE ChatTypeOK'
  <2>1. WithoutTmp(t) \in Seq(OnScreen)
    BY WithoutTmpFacts
  <2> QED
    BY <1>9, <2>1 DEF RollBack, Finally, serverVars, history, StreamOf
<1>10. ASSUME NEW l \in Load, NEW c \in convs, LoadConversation(l, c), poll' \in {poll, None}
       PROVE ChatTypeOK'
  <2>1. loads' \in [Load -> RequestOf(convs)]
    <3>1. Idle \in BOOLEAN
      BY DEF Idle
    <3>2. <<>> \in Seq(Message)
      OBVIOUS
    <3>3. NoLongerAlone(loads) \in [Load -> RequestOf(convs)]
      BY DEF NoLongerAlone, RequestOf
    <3> QED
      BY <1>10, <3>1, <3>2, <3>3 DEF LoadConversation, RequestOf
  <2> QED
    BY <1>10, <2>1 DEF LoadConversation, Overlaps, serverVars
<1>11. ASSUME NEW l \in Load, Loaded(l) \/ LoadFails(l) PROVE ChatTypeOK'
  <2>1. loads' \in [Load -> RequestOf(convs)]
    <3>1. <<>> \in Seq(Message)
      OBVIOUS
    <3>2. NoLoad("done") \in RequestOf(convs)
      BY <3>1 DEF NoLoad, RequestOf
    <3> QED
      BY <1>11, <3>2 DEF Loaded, LoadFails
  <2>2. AsShown(loads[l].msgs) \in Seq(OnScreen)
    BY AsShownType DEF RequestOf
  <2> QED
    BY <1>11, <2>1, <2>2 DEF Loaded, LoadFails, serverVars
<1>12. CASE NewConversation
  <2>1. <<>> \in Seq(OnScreen)
    OBVIOUS
  <2>2. loads' \in [Load -> RequestOf(convs)]
    BY <1>12 DEF NewConversation, NoLongerAlone, RequestOf
  <2>3. skewed' \in BOOLEAN
    BY <1>12 DEF NewConversation, Idle
  <2> QED
    BY <1>12, <2>1, <2>2, <2>3 DEF NewConversation, serverVars
<1>14. CASE Render
  BY <1>14 DEF Render, serverVars, history
<1>15. CASE AnswerCard
  BY <1>15 DEF AnswerCard, serverVars, history
<1>16. ASSUME NEW t \in Turn, EndStream(t) \/ CutOff(t) PROVE ChatTypeOK'
  <2>1. \E how \in {"done", "cut"} : Finally(t, how) /\ UNCHANGED <<screen, conv>>
    BY <1>16 DEF EndStream, CutOff
  <2>2. stream' \in [Turn -> StreamOf]
    BY <2>1 DEF Finally, StreamOf
  <2> QED
    BY <2>1, <2>2 DEF Finally, serverVars, history
<1>13. CASE UNCHANGED chatVars
  BY <1>13 DEF chatVars
<1> QED
  BY <1>1, <1>2, <1>3, <1>4, <1>5, <1>6, <1>7, <1>8, <1>9, <1>10, <1>11, <1>12, <1>13, <1>14, <1>15, <1>16
  DEF ChatNext, ServerNext, TabNext, Fail, Lose, ChooseConversation, PollFires

\* The rest of the steps touch neither turns nor conversations.
LEMMA OtherSteps ==
    ASSUME \/ \E l \in Load : ListRead(l) \/ ChooseConversation(l) \/ PollFires(l) \/ Loaded(l) \/ LoadFails(l)
           \/ Render \/ NewConversation \/ AnswerCard \/ UNCHANGED chatVars
    PROVE  UNCHANGED <<convs, db, server, stream, sending, hasty>>
  BY DEF ListRead, ChooseConversation, PollFires, LoadConversation, Loaded, LoadFails, Render,
         NewConversation, AnswerCard, chatVars, serverVars, history

\* What a step may do to turns and conversations.
TurnStep(t) ==
    \/ Prepare(t) \/ Refuse(t) \/ Save(t) \/ AgentFails(t)
    \/ Send(t) \/ Part(t) \/ Complete(t) \/ EndStream(t) \/ CutOff(t) \/ (Open(t) /\ RollBack(t))

LEMMA StepCases ==
    ASSUME [ChatNext]_chatVars
    PROVE  \/ \E t \in Turn : TurnStep(t)
           \/ convs' = convs /\ db' = db /\ server' = server /\ stream' = stream
              /\ sending' = sending /\ hasty' = hasty
<1>1. \/ \E t \in Turn : TurnStep(t)
      \/ \E l \in Load : ListRead(l) \/ ChooseConversation(l) \/ PollFires(l) \/ Loaded(l) \/ LoadFails(l)
      \/ Render \/ NewConversation \/ AnswerCard \/ UNCHANGED chatVars
  <2>1. CASE ServerNext
    BY <2>1 DEF ServerNext, TurnStep
  <2>2. CASE TabNext
    BY <2>2 DEF TabNext, Fail, Lose, TurnStep
  <2> QED
    BY <2>1, <2>2 DEF ChatNext
<1> QED
  BY <1>1, OtherSteps

LEMMA LoadCases ==
    ASSUME ChatTypeOK, [ChatNext]_chatVars
    PROVE  \/ \E t \in Turn : TurnStep(t)
           \/ \E l \in Load : \/ ListRead(l) \/ Loaded(l) \/ LoadFails(l)
                              \/ \E c \in convs : LoadConversation(l, c)
           \/ Render \/ NewConversation \/ AnswerCard \/ UNCHANGED chatVars
<1>1. CASE ServerNext
  BY <1>1 DEF ServerNext, TurnStep
<1>2. CASE TabNext
  <2>1. poll # None => poll \in convs
    BY DEF ChatTypeOK
  <2> QED
    BY <1>2, <2>1 DEF TabNext, Fail, Lose, TurnStep, ChooseConversation, PollFires
<1> QED
  BY <1>1, <1>2 DEF ChatNext

LEMMA HandlersStep ==
    ASSUME ChatTypeOK, Handlers, [ChatNext]_chatVars
    PROVE  Handlers'
<1>0. None \notin Turn
  BY KimChatAssumption DEF Turn
<1>t. /\ DOMAIN server = Turn /\ DOMAIN stream = Turn
      /\ \A t \in Turn : server[t] = [pc |-> server[t].pc, conv |-> server[t].conv]
      /\ \A t \in Turn : stream[t] = [pc |-> stream[t].pc, placeholder |-> stream[t].placeholder]
      /\ seen.conv \in convs \cup {None}
  BY DEF ChatTypeOK, HandlerOf, StreamOf
<1>1. ASSUME NEW t \in Turn, Prepare(t) PROVE Handlers'
  <2> DEFINE c == IF server[t].conv = None THEN t ELSE server[t].conv
  <2>1. /\ convs' = convs \cup {c} /\ UNCHANGED stream /\ server[t].pc = "posted"
        /\ server' = [server EXCEPT ![t] = [pc |-> "agent", conv |-> c]]
        /\ c = t \/ c \in convs
    BY <1>1 DEF Prepare, tabVars, Handlers
  <2> HIDE DEF c
  <2> QED
    BY <1>0, <1>t, <2>1 DEF Handlers, Handled
<1>2. ASSUME NEW t \in Turn, Refuse(t) PROVE Handlers'
  <2>1. /\ convs' = convs \/ convs' = convs \cup {t}
        /\ UNCHANGED stream /\ server[t].pc = "posted"
        /\ server'[t] = [pc |-> "refused", conv |-> server[t].conv]
        /\ \A u \in Turn \ {t} : server'[u] = server[u]
    BY <1>2, <1>t DEF Refuse, ServerStep, tabVars
  <2> QED
    BY <1>0, <1>t, <2>1 DEF Handlers, Handled
<1>3. ASSUME NEW t \in Turn, Save(t) \/ AgentFails(t) PROVE Handlers'
  <2>1. /\ UNCHANGED <<convs, stream>> /\ server[t].pc = "agent"
        /\ server'[t].pc \in {"saved", "failed"} /\ server'[t].conv = server[t].conv
        /\ \A u \in Turn \ {t} : server'[u] = server[u]
    BY <1>3, <1>t DEF Save, AgentFails, ServerStep, tabVars
  <2> QED
    BY <1>0, <1>t, <2>1 DEF Handlers, Handled
<1>4. ASSUME NEW t \in Turn, Send(t) PROVE Handlers'
  <2>1. /\ UNCHANGED convs /\ stream[t].pc = "none"
        /\ stream'[t].pc = "open" /\ \A u \in Turn \ {t} : stream'[u] = stream[u]
        /\ server'[t].pc = "posted" /\ server'[t].conv = seen.conv
        /\ \A u \in Turn \ {t} : server'[u] = server[u]
    BY <1>4, <1>t DEF Send
  <2> QED
    BY <1>0, <1>t, <2>1 DEF Handlers, Handled
<1>5. ASSUME NEW t \in Turn, Part(t) \/ Complete(t) \/ EndStream(t) \/ CutOff(t) \/ (Open(t) /\ RollBack(t))
      PROVE  Handlers'
  <2>1. UNCHANGED <<convs, server>>
    BY <1>5 DEF Part, Complete, Completed, EndStream, CutOff, RollBack, Finally, serverVars
  <2>2. /\ stream[t].pc \in {"open", "completed"} /\ \A u \in Turn \ {t} : stream'[u] = stream[u]
        /\ \/ stream'[t].pc \in {"open", "rolled_back"}
           \/ stream'[t].pc \in {"completed", "done"} /\ server[t].pc = "saved"
           \/ stream'[t].pc = "cut" /\ server[t].pc = "failed"
    <3>1. CASE Part(t)
      BY <1>t, <3>1 DEF Part, Open
    <3>2. CASE Complete(t)
      BY <1>t, <3>2 DEF Complete, Completed, Open
    <3>3. CASE Open(t) /\ RollBack(t)
      BY <1>t, <3>3 DEF RollBack, Finally, Open
    <3>4. CASE EndStream(t)
      BY <1>t, <3>4 DEF EndStream, Finally, Handlers
    <3>5. CASE CutOff(t)
      BY <1>t, <3>5 DEF CutOff, Finally, Open
    <3> QED
      BY <1>5, <3>1, <3>2, <3>3, <3>4, <3>5
  <2> QED
    BY <1>0, <2>1, <2>2 DEF Handlers, Handled
<1>6. ASSUME convs' = convs, server' = server, stream' = stream PROVE Handlers'
  BY <1>6 DEF Handlers
<1> QED
  BY <1>1, <1>2, <1>3, <1>4, <1>5, <1>6, StepCases DEF TurnStep

\* A sequence with one more element.
LEMMA OneMore ==
    ASSUME NEW S, NEW s \in Seq(S), NEW x \in S, NEW r, r = Append(s, x)
    PROVE  /\ r \in Seq(S) /\ Len(s) \in Nat /\ Len(r) = Len(s) + 1
           /\ DOMAIN s = 1..Len(s) /\ DOMAIN r = 1..(Len(s) + 1)
           /\ Range(r) = Range(s) \cup {x}
           /\ \A i \in DOMAIN s : i \in DOMAIN r /\ r[i] = s[i] /\ i < Len(s) + 1
           /\ r[Len(s) + 1] = x
           /\ \A i \in DOMAIN r : i \in DOMAIN s \/ i = Len(s) + 1
<1>1. /\ r \in Seq(S) /\ Len(s) \in Nat /\ Len(r) = Len(s) + 1 /\ r[Len(s) + 1] = x
      /\ \A i \in 1..Len(s) : r[i] = s[i]
      /\ DOMAIN s = 1..Len(s) /\ DOMAIN r = 1..(Len(s) + 1)
  OBVIOUS
<1>2. Range(r) = Range(s) \cup {x}
  BY RangeAppend
<1> QED
  BY <1>1, <1>2

LEMMA MessagesOf ==
    ASSUME ChatTypeOK
    PROVE  \A c \in Turn : \A i \in DOMAIN db[c] :
              db[c][i] \in Message /\ db[c][i].turn \in Turn /\ db[c][i] = Said(db[c][i].turn, db[c][i].role)
<1> SUFFICES ASSUME NEW c \in Turn, NEW i \in DOMAIN db[c]
    PROVE  db[c][i] \in Message /\ db[c][i].turn \in Turn /\ db[c][i] = Said(db[c][i].turn, db[c][i].role)
  OBVIOUS
<1>1. db[c][i] \in Message
  BY DEF ChatTypeOK
<1> QED
  BY <1>1, SaidIsMessage

\* The server's steps that store a message: of a turn t, to a conversation c.
Stores(t, c, x) ==
    /\ db' = [db EXCEPT ![c] = Append(@, x)]
    /\ \A u \in Turn \ {t} : server'[u] = server[u]
    /\ server'[t].conv = c
    /\ \/ x = Said(t, "user") /\ server[t].pc = "posted" /\ server'[t].pc = "agent"
          /\ (server[t].conv = None => c = t) /\ (server[t].conv # None => c = server[t].conv)
          /\ convs' = convs \cup {c}
       \/ x = Said(t, "assistant") /\ server[t].pc = "agent" /\ server'[t].pc = "saved"
          /\ c = server[t].conv /\ c \in convs /\ convs' = convs
    /\ UNCHANGED tabVars

LEMMA StoringSteps ==
    ASSUME ChatTypeOK, Handlers, NEW t \in Turn, Prepare(t) \/ Save(t)
    PROVE  \E c \in Turn : \E x \in Message : Stores(t, c, x)
<1>0. DOMAIN server = Turn /\ (server[t].conv # None => server[t].conv \in Turn)
  BY DEF ChatTypeOK, HandlerOf
<1>1. CASE Prepare(t)
  <2> DEFINE c == IF server[t].conv = None THEN t ELSE server[t].conv
  <2>1. Said(t, "user") \in Message
    BY SaidType DEF Role
  <2>2. c \in Turn
    BY <1>0
  <2>3. Stores(t, c, Said(t, "user"))
    BY <1>0, <1>1 DEF Prepare, Stores
  <2> QED
    BY <2>1, <2>2, <2>3
<1>2. CASE Save(t)
  <2> DEFINE c == server[t].conv
  <2>1. Said(t, "assistant") \in Message
    BY SaidType DEF Role
  <2>2. c \in convs /\ c \in Turn
    BY <1>2 DEF Save, Handlers, Handled, ChatTypeOK
  <2>3. Stores(t, c, Said(t, "assistant"))
    BY <1>0, <1>2, <2>2 DEF Save, ServerStep, Stores
  <2> QED
    BY <2>1, <2>2, <2>3
<1> QED
  BY <1>1, <1>2

\* What the step does to the conversation, and that the message is new.
LEMMA StoresFacts ==
    ASSUME ChatTypeOK, Books, NEW t \in Turn, NEW c \in Turn, NEW x \in Message, Stores(t, c, x)
    PROVE  /\ x.turn = t /\ (x.role = "assistant" <=> server'[t].pc = "saved")
           /\ server'[t].pc \in Handled
           /\ db'[c] = Append(db[c], x) /\ \A d \in Turn \ {c} : db'[d] = db[d]
           /\ \A d \in Turn : \A i \in DOMAIN db[d] : db[d][i] # x
           /\ convs \subseteq convs' /\ c \in convs'
<1>1. x.turn = t /\ (x.role = "assistant" <=> server'[t].pc = "saved") /\ server'[t].pc \in Handled
  BY SaidType DEF Stores, Handled, Role
<1>2. db'[c] = Append(db[c], x) /\ \A d \in Turn \ {c} : db'[d] = db[d]
  BY DEF Stores, ChatTypeOK
<1>3. convs \subseteq convs' /\ c \in convs'
  BY DEF Stores
<1>4. ASSUME NEW d \in Turn, NEW i \in DOMAIN db[d], db[d][i] = x PROVE FALSE
  <2>1. server[t].pc \in Handled /\ (x.role = "assistant" => server[t].pc = "saved")
    BY <1>1, <1>4 DEF Books
  <2> QED
    BY <1>1, <2>1 DEF Stores, Handled
<1> QED
  BY <1>1, <1>2, <1>3, <1>4

\* A conversation's messages are those its handlers stored, once each.
LEMMA BooksStep ==
    ASSUME ChatTypeOK, Handlers, Books, [ChatNext]_chatVars
    PROVE  Books'
<1>0. \A c \in Turn : db[c] \in Seq(Message)
  BY DEF ChatTypeOK
<1>1. ASSUME NEW t \in Turn, Prepare(t) \/ Save(t) PROVE Books'
  <2>1. PICK c \in Turn, x \in Message : Stores(t, c, x)
    BY <1>1, StoringSteps
  <2>2. /\ x.turn = t /\ (x.role = "assistant" <=> server'[t].pc = "saved")
        /\ server'[t].pc \in Handled
        /\ db'[c] = Append(db[c], x) /\ \A d \in Turn \ {c} : db'[d] = db[d]
        /\ \A d \in Turn : \A i \in DOMAIN db[d] : db[d][i] # x
        /\ convs \subseteq convs' /\ c \in convs'
    BY <2>1, StoresFacts
  <2>3. /\ \A u \in Turn \ {t} : server'[u] = server[u]
        /\ server'[t].conv = c /\ (server[t].pc \in Handled => server[t].conv = c)
        /\ server[t].pc # "saved"
    BY <2>1 DEF Stores, Handled
  <2>4. \A d \in Turn : \A i \in DOMAIN db[d] :
              /\ server'[db[d][i].turn].conv = d
              /\ server'[db[d][i].turn].pc \in Handled
              /\ db[d][i].role = "assistant" => server'[db[d][i].turn].pc = "saved"
    <3> TAKE d \in Turn
    <3> TAKE i \in DOMAIN db[d]
    <3>1. db[d][i].turn \in Turn
      BY MessagesOf
    <3>2. /\ server[db[d][i].turn].conv = d
          /\ server[db[d][i].turn].pc \in Handled
          /\ db[d][i].role = "assistant" => server[db[d][i].turn].pc = "saved"
      BY DEF Books
    <3>3. CASE db[d][i].turn = t
      BY <2>2, <2>3, <3>2, <3>3
    <3> QED
      BY <2>3, <3>1, <3>2, <3>3
  <2> DEFINE r == db'[c]
             n == Len(db[c]) + 1
  <2>5. /\ \A i \in DOMAIN db[c] : i \in DOMAIN r /\ r[i] = db[c][i]
        /\ r[n] = x
        /\ \A i \in DOMAIN r : i \in DOMAIN db[c] \/ i = n
    BY <1>0, <2>2, OneMore
  <2> HIDE DEF r, n
  <2>6. \A i \in DOMAIN r :
           /\ server'[r[i].turn].conv = c
           /\ server'[r[i].turn].pc \in Handled
           /\ r[i].role = "assistant" => server'[r[i].turn].pc = "saved"
    BY <2>2, <2>3, <2>4, <2>5
  <2>7. \A i, j \in DOMAIN r : r[i] = r[j] => i = j
    BY <2>2, <2>5 DEF Books
  <2>8. \A d \in Turn \ {c} :
           /\ d \notin convs' => db'[d] = <<>>
           /\ \A i, j \in DOMAIN db'[d] : db'[d][i] = db'[d][j] => i = j
    BY <2>2 DEF Books
  <2> DEFINE Sound(d) ==
         /\ d \notin convs' => db'[d] = <<>>
         /\ \A i \in DOMAIN db'[d] :
               /\ server'[db'[d][i].turn].conv = d
               /\ server'[db'[d][i].turn].pc \in Handled
               /\ db'[d][i].role = "assistant" => server'[db'[d][i].turn].pc = "saved"
         /\ \A i, j \in DOMAIN db'[d] : db'[d][i] = db'[d][j] => i = j
  <2>9. Sound(c)
    BY <2>2, <2>6, <2>7 DEF r
  <2>10. ASSUME NEW d \in Turn \ {c} PROVE Sound(d)
    <3>1. db'[d] = db[d] /\ d \in Turn
      BY <2>2
    <3>2. /\ d \notin convs' => db'[d] = <<>>
          /\ \A i, j \in DOMAIN db'[d] : db'[d][i] = db'[d][j] => i = j
      BY <2>8
    <3>3. \A i \in DOMAIN db[d] :
               /\ server'[db[d][i].turn].conv = d
               /\ server'[db[d][i].turn].pc \in Handled
               /\ db[d][i].role = "assistant" => server'[db[d][i].turn].pc = "saved"
      BY <2>4, <3>1
    <3> QED
      BY <3>1, <3>2, <3>3
  <2>11. \A d \in Turn : Sound(d)
    <3> HIDE DEF Sound
    <3> QED
      BY <2>9, <2>10
  <2> QED
    BY <2>11 DEF Books, Handled
<1>2. ASSUME db' = db, convs \subseteq convs',
             \A u \in Turn : /\ server[u].pc \in Handled =>
                                  server'[u].pc \in Handled /\ server'[u].conv = server[u].conv
                             /\ server[u].pc = "saved" => server'[u].pc = "saved"
      PROVE  Books'
  <2>1. \A c \in Turn : \A i \in DOMAIN db[c] : db[c][i].turn \in Turn
    BY MessagesOf
  <2> QED
    BY <1>2, <2>1 DEF Books
<1>3. ASSUME NEW t \in Turn, Refuse(t) \/ AgentFails(t) \/ Send(t) PROVE Books'
  <2>0. DOMAIN server = Turn /\ (server[t].pc = "none" <=> stream[t].pc = "none")
    BY DEF ChatTypeOK, Handlers
  <2>1. \A u \in Turn \ {t} : server'[u] = server[u]
    BY <1>3, <2>0 DEF Refuse, AgentFails, Send, ServerStep
  <2>2. \/ server[t].pc \notin Handled
        \/ server[t].pc = "agent" /\ server'[t].pc = "failed" /\ server'[t].conv = server[t].conv
    <3>1. CASE Refuse(t) \/ Send(t)
      BY <2>0, <3>1 DEF Refuse, Send, Handled
    <3>2. CASE AgentFails(t)
      BY <2>0, <3>2 DEF AgentFails, ServerStep
    <3> QED
      BY <1>3, <3>1, <3>2
  <2>3. db' = db /\ convs \subseteq convs'
    BY <1>3 DEF Refuse, AgentFails, Send
  <2> QED
    BY <1>2, <2>1, <2>2, <2>3 DEF Handled
<1>4. ASSUME NEW t \in Turn, Part(t) \/ Complete(t) \/ EndStream(t) \/ CutOff(t) \/ RollBack(t) PROVE Books'
  BY <1>2, <1>4 DEF Part, Complete, Completed, EndStream, CutOff, RollBack, Finally, serverVars
<1> QED
  BY <1>1, <1>2, <1>3, <1>4, StepCases DEF TurnStep

\* What a handler did is not undone, and no message is deleted.
LEMMA NothingForgotten ==
    ASSUME ChatTypeOK, Handlers, Books, [ChatNext]_chatVars
    PROVE  /\ convs \subseteq convs'
           /\ \A c \in Turn : Range(db[c]) \subseteq Range(db'[c])
           /\ \A u \in Turn :
                 /\ server[u].pc \in Handled =>
                       server'[u].pc \in Handled /\ server'[u].conv = server[u].conv
                 /\ server[u].pc = "saved" => server'[u].pc = "saved"
<1>0. DOMAIN server = Turn /\ \A u \in Turn : server[u].pc = "none" <=> stream[u].pc = "none"
  BY DEF ChatTypeOK, Handlers
<1>1. ASSUME NEW t \in Turn, Prepare(t) \/ Save(t)
      PROVE  /\ convs \subseteq convs'
             /\ \A c \in Turn : Range(db[c]) \subseteq Range(db'[c])
             /\ \A u \in Turn :
                   /\ server[u].pc \in Handled =>
                         server'[u].pc \in Handled /\ server'[u].conv = server[u].conv
                   /\ server[u].pc = "saved" => server'[u].pc = "saved"
  <2>1. PICK c \in Turn, x \in Message : Stores(t, c, x)
    BY <1>1, StoringSteps
  <2>2. db'[c] = Append(db[c], x) /\ (\A d \in Turn \ {c} : db'[d] = db[d]) /\ convs \subseteq convs'
    BY <2>1, StoresFacts
  <2>3. Range(db[c]) \subseteq Range(db'[c])
    BY <2>2, RangeAppend DEF ChatTypeOK
  <2>4. /\ \A u \in Turn \ {t} : server'[u] = server[u]
        /\ server'[t].conv = c /\ server'[t].pc \in Handled
        /\ server[t].pc \in Handled => server[t].conv = c
        /\ server[t].pc # "saved"
    BY <2>1 DEF Stores, Handled
  <2> QED
    BY <2>2, <2>3, <2>4
<1>2. ASSUME NEW t \in Turn, Refuse(t) \/ AgentFails(t) \/ Send(t)
      PROVE  /\ convs \subseteq convs' /\ db' = db
             /\ \A u \in Turn :
                   /\ server[u].pc \in Handled =>
                         server'[u].pc \in Handled /\ server'[u].conv = server[u].conv
                   /\ server[u].pc = "saved" => server'[u].pc = "saved"
  <2>1. CASE Refuse(t) \/ Send(t)
    BY <1>0, <2>1 DEF Refuse, Send, ServerStep, Handled
  <2>2. CASE AgentFails(t)
    BY <1>0, <2>2 DEF AgentFails, ServerStep, Handled
  <2> QED
    BY <1>2, <2>1, <2>2
<1>3. ASSUME NEW t \in Turn, Part(t) \/ Complete(t) \/ EndStream(t) \/ CutOff(t) \/ RollBack(t)
      PROVE  convs' = convs /\ db' = db /\ server' = server
  BY <1>3 DEF Part, Complete, Completed, EndStream, CutOff, RollBack, Finally, serverVars
<1> QED
  BY <1>1, <1>2, <1>3, StepCases DEF TurnStep

LEMMA FiledStep ==
    ASSUME ChatTypeOK, Handlers, Books, Filed, [ChatNext]_chatVars
    PROVE  Filed'
<1>0. /\ \A c \in Turn : Range(db[c]) \subseteq Range(db'[c])
      /\ DOMAIN server = Turn /\ \A u \in Turn : server[u].pc \in Handled => server[u].conv \in Turn
      /\ \A u \in Turn : server[u].pc = "none" <=> stream[u].pc = "none"
      /\ "saved" \in Handled
  BY NothingForgotten DEF ChatTypeOK, Handlers, Handled
\* A handler that has stored nothing since.
<1>a. ASSUME NEW u \in Turn, server'[u].conv = server[u].conv, server'[u].pc \in Handled => server[u].pc \in Handled,
             server'[u].pc = "saved" => server[u].pc = "saved"
      PROVE  /\ server'[u].pc \in Handled => Said(u, "user") \in Range(db'[server'[u].conv])
             /\ server'[u].pc = "saved" => Said(u, "assistant") \in Range(db'[server'[u].conv])
  BY <1>0, <1>a DEF Filed
<1>b. ASSUME \A u \in Turn :
                /\ server'[u].pc \in Handled => server[u].pc \in Handled /\ server'[u].conv = server[u].conv
                /\ server'[u].pc = "saved" => server[u].pc = "saved"
      PROVE  Filed'
  BY <1>0, <1>a, <1>b DEF Filed, Handled
<1>1. ASSUME NEW t \in Turn, Prepare(t) \/ Save(t) PROVE Filed'
  <2>1. PICK c \in Turn, x \in Message : Stores(t, c, x)
    BY <1>1, StoringSteps
  <2>2. Range(db'[c]) = Range(db[c]) \cup {x}
    <3>1. db'[c] = Append(db[c], x)
      BY <2>1, StoresFacts
    <3>2. db[c] \in Seq(Message)
      BY DEF ChatTypeOK
    <3> QED
      BY <3>1, <3>2, RangeAppend
  <2>3. /\ \A u \in Turn \ {t} : server'[u] = server[u]
        /\ server'[t].conv = c
        /\ \/ x = Said(t, "user") /\ server'[t].pc = "agent"
           \/ x = Said(t, "assistant") /\ server[t].pc = "agent" /\ c = server[t].conv
    BY <2>1 DEF Stores
  <2>4. /\ server'[t].pc \in Handled => Said(t, "user") \in Range(db'[c])
        /\ server'[t].pc = "saved" => Said(t, "assistant") \in Range(db'[c])
    BY <2>2, <2>3 DEF Filed, Handled
  <2>5. ASSUME NEW u \in Turn
        PROVE  /\ server'[u].pc \in Handled => Said(u, "user") \in Range(db'[server'[u].conv])
               /\ server'[u].pc = "saved" => Said(u, "assistant") \in Range(db'[server'[u].conv])
    <3>1. CASE u = t
      BY <2>3, <2>4, <3>1
    <3>2. CASE u # t
      BY <1>a, <2>3, <3>2
    <3> QED
      BY <3>1, <3>2
  <2> QED
    BY <2>5 DEF Filed, Handled
<1>2. ASSUME NEW t \in Turn, Refuse(t) \/ AgentFails(t) \/ Send(t) PROVE Filed'
  <2>1. CASE Refuse(t) \/ Send(t)
    <3>1. server'[t].pc \notin Handled /\ \A u \in Turn \ {t} : server'[u] = server[u]
      <4>1. CASE Refuse(t)
        BY <1>0, <4>1 DEF Refuse, ServerStep, Handled
      <4>2. CASE Send(t)
        BY <1>0, <4>2 DEF Send, Handled
      <4> QED
        BY <2>1, <4>1, <4>2
    <3>2. server'[t].pc # "saved"
      BY <3>1 DEF Handled
    <3> QED
      BY <1>b, <3>1, <3>2
  <2>2. CASE AgentFails(t)
    BY <1>0, <1>b, <2>2 DEF AgentFails, ServerStep, Handled
  <2> QED
    BY <1>2, <2>1, <2>2
<1>3. ASSUME NEW t \in Turn, Part(t) \/ Complete(t) \/ EndStream(t) \/ CutOff(t) \/ RollBack(t) PROVE Filed'
  BY <1>b, <1>3 DEF Part, Complete, Completed, EndStream, CutOff, RollBack, Finally, serverVars
<1>4. ASSUME server' = server PROVE Filed'
  BY <1>b, <1>4
<1> QED
  BY <1>1, <1>2, <1>3, <1>4, StepCases DEF TurnStep

LEMMA LoadsAreStoredStep ==
    ASSUME ChatTypeOK, Handlers, Books, LoadsAreStored, [ChatNext]_chatVars
    PROVE  LoadsAreStored'
<1>0. /\ \A c \in Turn : Range(db[c]) \subseteq Range(db'[c])
      /\ DOMAIN loads = Load /\ None \notin Turn
      /\ \A l \in Load : loads[l].conv \in Turn \cup {None}
      /\ \A l \in Load : loads[l] = [pc |-> loads[l].pc, conv |-> loads[l].conv,
                                     msgs |-> loads[l].msgs, alone |-> loads[l].alone]
  <2>1. None \notin Turn
    BY KimChatAssumption DEF Turn
  <2>2. \A l \in Load : loads[l] \in RequestOf(convs)
    BY DEF ChatTypeOK
  <2>3. DOMAIN loads = Load /\ convs \subseteq Turn
    BY DEF ChatTypeOK
  <2> QED
    BY <2>1, <2>2, <2>3, NothingForgotten DEF RequestOf
<1>1. ASSUME NEW l \in Load, loads'[l].pc = loads[l].pc, loads'[l].conv = loads[l].conv,
             loads'[l].msgs = loads[l].msgs
      PROVE  /\ InFlight(l)' => loads'[l].conv # None
             /\ ~InFlight(l)' => loads'[l].msgs = <<>>
             /\ \A i \in DOMAIN loads'[l].msgs : loads'[l].msgs[i] \in Range(db'[loads'[l].conv])
  <2>1. /\ InFlight(l) => loads[l].conv # None
        /\ ~InFlight(l) => loads[l].msgs = <<>>
        /\ \A i \in DOMAIN loads[l].msgs : loads[l].msgs[i] \in Range(db[loads[l].conv])
    BY DEF LoadsAreStored
  <2>2. loads[l].conv = None => \A i \in DOMAIN loads[l].msgs : FALSE
    BY <2>1
  <2> QED
    BY <1>0, <1>1, <2>1, <2>2 DEF InFlight
<1>a. ASSUME \A l \in Load : loads'[l].pc = loads[l].pc /\ loads'[l].conv = loads[l].conv
                             /\ loads'[l].msgs = loads[l].msgs
      PROVE  LoadsAreStored'
  BY <1>1, <1>a DEF LoadsAreStored
\* A request that has nothing yet, or no longer.
<1>b. ASSUME NEW l \in Load, \A k \in Load \ {l} : loads'[k].pc = loads[k].pc /\ loads'[k].conv = loads[k].conv
                                                   /\ loads'[k].msgs = loads[k].msgs,
             InFlight(l)' => loads'[l].conv # None, loads'[l].msgs = <<>>
      PROVE  LoadsAreStored'
  BY <1>1, <1>b DEF LoadsAreStored
<1>2. ASSUME NEW t \in Turn, TurnStep(t) PROVE LoadsAreStored'
  <2>1. loads' = loads \/ loads' = NoLongerAlone(loads)
    BY <1>2 DEF TurnStep, Prepare, Refuse, Save, AgentFails, Send, Part, Complete, Completed,
              EndStream, CutOff, RollBack, Finally, tabVars
  <2> QED
    BY <1>0, <1>a, <2>1 DEF NoLongerAlone
<1>3. ASSUME NEW l \in Load, ListRead(l) PROVE LoadsAreStored'
  <2>1. /\ \A k \in Load \ {l} : loads'[k] = loads[k]
        /\ loads[l].pc = "asked" /\ loads'[l].pc = "read" /\ loads'[l].conv = loads[l].conv
        /\ loads'[l].msgs = db[loads[l].conv] /\ db' = db
    BY <1>0, <1>3 DEF ListRead, serverVars
  <2>2. loads[l].conv # None
    BY <2>1 DEF LoadsAreStored, InFlight
  <2>3. /\ InFlight(l)' => loads'[l].conv # None
        /\ ~InFlight(l)' => loads'[l].msgs = <<>>
        /\ \A i \in DOMAIN loads'[l].msgs : loads'[l].msgs[i] \in Range(db'[loads'[l].conv])
    BY <2>1, <2>2 DEF InFlight, Range
  <2>4. \A k \in Load \ {l} :
             /\ InFlight(k)' => loads'[k].conv # None
             /\ ~InFlight(k)' => loads'[k].msgs = <<>>
             /\ \A i \in DOMAIN loads'[k].msgs : loads'[k].msgs[i] \in Range(db'[loads'[k].conv])
    BY <1>1, <2>1
  <2> QED
    BY <2>3, <2>4 DEF LoadsAreStored
<1>4. ASSUME NEW l \in Load, NEW c \in convs, LoadConversation(l, c) PROVE LoadsAreStored'
  <2>1. /\ loads'[l].msgs = <<>> /\ loads'[l].conv = c
        /\ \A k \in Load \ {l} : loads'[k].pc = loads[k].pc /\ loads'[k].conv = loads[k].conv
                                 /\ loads'[k].msgs = loads[k].msgs
    BY <1>0, <1>4 DEF LoadConversation, NoLongerAlone
  <2>2. c # None
    BY <1>0 DEF ChatTypeOK
  <2> QED
    BY <1>b, <2>1, <2>2
<1>5. ASSUME NEW l \in Load, Loaded(l) \/ LoadFails(l) PROVE LoadsAreStored'
  <2>1. /\ \A k \in Load \ {l} : loads'[k] = loads[k]
        /\ loads'[l] = NoLoad("done")
    BY <1>0, <1>5 DEF Loaded, LoadFails
  <2>2. loads'[l].msgs = <<>> /\ loads'[l].pc = "done"
    BY <2>1 DEF NoLoad
  <2> QED
    BY <1>b, <2>1, <2>2 DEF InFlight
<1>6. ASSUME Render \/ NewConversation \/ AnswerCard \/ UNCHANGED chatVars PROVE LoadsAreStored'
  <2>1. loads' = loads \/ loads' = NoLongerAlone(loads)
    BY <1>6 DEF Render, NewConversation, AnswerCard, chatVars
  <2> QED
    BY <1>0, <1>a, <2>1 DEF NoLongerAlone
<1>7. \/ \E t \in Turn : TurnStep(t)
      \/ \E l \in Load : \/ ListRead(l) \/ Loaded(l) \/ LoadFails(l)
                         \/ \E c \in convs : LoadConversation(l, c)
      \/ Render \/ NewConversation \/ AnswerCard \/ UNCHANGED chatVars
  BY LoadCases
<1> QED
  BY <1>2, <1>3, <1>4, <1>5, <1>6, <1>7

\* Complete adds the two stored messages of the turn.
LEMMA TwoMore ==
    ASSUME NEW S, NEW s \in Seq(S), NEW x \in S, NEW y \in S
    PROVE  s \o <<x, y>> = Append(Append(s, x), y)
<1> DEFINE r == Append(Append(s, x), y)
           q == s \o <<x, y>>
<1>1. /\ r \in Seq(S) /\ Len(r) = Len(s) + 2 /\ r[Len(s) + 1] = x /\ r[Len(s) + 2] = y
      /\ \A i \in 1..Len(s) : r[i] = s[i]
  OBVIOUS
<1>2. /\ q \in Seq(S) /\ Len(q) = Len(s) + 2 /\ q[Len(s) + 1] = x /\ q[Len(s) + 2] = y
      /\ \A i \in 1..Len(s) : q[i] = s[i]
  OBVIOUS
<1> HIDE DEF r, q
<1>3. \A i \in 1..(Len(s) + 2) : r[i] = q[i]
  <2> TAKE i \in 1..(Len(s) + 2)
  <2>1. i \in 1..Len(s) \/ i = Len(s) + 1 \/ i = Len(s) + 2
    OBVIOUS
  <2> QED
    BY <1>1, <1>2, <2>1
<1>4. r = q
  BY <1>1, <1>2, <1>3
<1> QED
  BY <1>4 DEF r, q

\* What is on the screen: what was there, temporary messages of turns whose
\* stream is read or was cut, and messages a conversation holds.
Stored(m) == \E c \in convs : Said(m.turn, m.role) \in Range(db[c])

OnScreenNext(m) ==
    \/ /\ m \in Range(screen)
       /\ m.kind = "tmp" /\ Open(m.turn) => Open(m.turn)' \/ stream'[m.turn].pc = "cut"
       /\ m.kind = "tmp" /\ stream[m.turn].pc = "cut" => stream'[m.turn].pc = "cut"
    \/ m.kind = "tmp" /\ Open(m.turn)'
    \/ m.kind = "final" /\ Stored(m)

LEMMA ScreenStep ==
    ASSUME ChatTypeOK, Handlers, Filed, LoadsAreStored, [ChatNext]_chatVars
    PROVE  \A m \in Range(screen') : OnScreenNext(m)
<1>0. /\ DOMAIN stream = Turn /\ screen \in Seq(OnScreen)
      /\ \A m \in Range(screen) : m \in OnScreen /\ m.turn \in Turn
  <2>1. DOMAIN stream = Turn /\ screen \in Seq(OnScreen)
    BY DEF ChatTypeOK
  <2>2. \A i \in DOMAIN screen : screen[i] \in OnScreen
    BY <2>1
  <2>3. \A m \in OnScreen : m.turn \in Turn
    BY DEF OnScreen
  <2> QED
    BY <2>1, <2>2, <2>3 DEF Range
<1>1. ASSUME NEW t \in Turn, NEW r \in Role, screen' = Append(screen, Shown(t, r, "tmp")),
             stream[t].pc # "cut", stream'[t].pc = "open", \A u \in Turn \ {t} : stream'[u] = stream[u]
      PROVE  \A m \in Range(screen') : OnScreenNext(m)
  <2> DEFINE x == Shown(t, r, "tmp")
  <2>1. x \in OnScreen /\ x.turn = t /\ x.kind = "tmp"
    BY SaidType
  <2> HIDE DEF x
  <2>2. Range(screen') = Range(screen) \cup {x}
    BY <1>0, <1>1, <2>1, RangeAppend DEF x
  <2>3. OnScreenNext(x)
    BY <1>1, <2>1 DEF OnScreenNext, Open
  <2>4. \A m \in Range(screen) : OnScreenNext(m)
    BY <1>0, <1>1 DEF OnScreenNext, Open
  <2> QED
    BY <2>2, <2>3, <2>4
<1>2. ASSUME NEW t \in Turn, \A u \in Turn \ {t} : stream'[u] = stream[u]
      PROVE  WithoutTmp(t) \in Seq(OnScreen) /\ \A m \in Range(WithoutTmp(t)) : OnScreenNext(m)
  <2>1. \A i \in DOMAIN WithoutTmp(t) :
           LET m == WithoutTmp(t)[i] IN (m.turn # t \/ m.kind = "final") /\ m \in Range(screen)
    BY <1>0, WithoutTmpFacts
  <2>2. WithoutTmp(t) \in Seq(OnScreen)
    BY <1>0, WithoutTmpFacts
  <2>3. ASSUME NEW m \in Range(WithoutTmp(t)) PROVE OnScreenNext(m)
    <3>1. (m.turn # t \/ m.kind = "final") /\ m \in Range(screen)
      BY <2>1 DEF Range
    <3>2. m.turn \in Turn
      BY <1>0, <3>1
    <3> QED
      BY <1>2, <3>1, <3>2 DEF OnScreenNext, Open
  <2> QED
    BY <2>2, <2>3
<1>3. ASSUME NEW t \in Turn, Send(t) PROVE \A m \in Range(screen') : OnScreenNext(m)
  <2>1. /\ screen' = Append(screen, Shown(t, "user", "tmp"))
        /\ stream[t].pc # "cut" /\ stream'[t].pc = "open" /\ \A u \in Turn \ {t} : stream'[u] = stream[u]
    BY <1>0, <1>3 DEF Send
  <2> QED
    BY <1>1, <2>1 DEF Role
<1>4. ASSUME NEW t \in Turn, Part(t) PROVE \A m \in Range(screen') : OnScreenNext(m)
  <2>1. /\ screen' = Append(screen, Shown(t, "assistant", "tmp"))
        /\ stream[t].pc # "cut" /\ stream'[t].pc = "open" /\ \A u \in Turn \ {t} : stream'[u] = stream[u]
    BY <1>0, <1>4 DEF Part, Open
  <2> QED
    BY <1>1, <2>1 DEF Role
<1>5. ASSUME NEW t \in Turn, Complete(t) PROVE \A m \in Range(screen') : OnScreenNext(m)
  <2> DEFINE x == Shown(t, "user", "final")
             y == Shown(t, "assistant", "final")
  <2>1. /\ screen' = WithoutTmp(t) \o <<x, y>> /\ server[t].pc = "saved"
        /\ \A u \in Turn \ {t} : stream'[u] = stream[u]
    BY <1>0, <1>5 DEF Complete, Completed
  <2>2. /\ x \in OnScreen /\ x.turn = t /\ x.kind = "final" /\ x.role = "user"
        /\ y \in OnScreen /\ y.turn = t /\ y.kind = "final" /\ y.role = "assistant"
    BY SaidType DEF Role
  <2> HIDE DEF x, y
  <2>3. Stored(x) /\ Stored(y)
    BY <2>1, <2>2 DEF Stored, Filed, Handlers, Handled
  <2>4. WithoutTmp(t) \in Seq(OnScreen) /\ \A m \in Range(WithoutTmp(t)) : OnScreenNext(m)
    BY <1>2, <2>1
  <2>5. screen' = Append(Append(WithoutTmp(t), x), y) /\ Append(WithoutTmp(t), x) \in Seq(OnScreen)
    BY <2>1, <2>2, <2>4, TwoMore
  <2>6. Range(screen') = Range(WithoutTmp(t)) \cup {x} \cup {y}
    <3>1. Range(Append(WithoutTmp(t), x)) = Range(WithoutTmp(t)) \cup {x}
      BY <2>2, <2>4, RangeAppend
    <3> DEFINE s == Append(WithoutTmp(t), x)
    <3>2. s \in Seq(OnScreen)
      BY <2>5
    <3> HIDE DEF s
    <3>3. Range(Append(s, y)) = Range(s) \cup {y}
      BY <2>2, <3>2, RangeAppend
    <3> QED
      BY <2>5, <3>1, <3>3 DEF s
  <2>7. OnScreenNext(x) /\ OnScreenNext(y)
    BY <2>2, <2>3 DEF OnScreenNext
  <2> QED
    BY <2>4, <2>6, <2>7
<1>6. ASSUME NEW t \in Turn, RollBack(t) PROVE \A m \in Range(screen') : OnScreenNext(m)
  <2>1. screen' = WithoutTmp(t) /\ \A u \in Turn \ {t} : stream'[u] = stream[u]
    BY <1>0, <1>6 DEF RollBack, Finally
  <2> QED
    BY <1>2, <2>1
<1>13. ASSUME NEW t \in Turn, EndStream(t) \/ CutOff(t) PROVE \A m \in Range(screen') : OnScreenNext(m)
  <2>1. /\ screen' = screen /\ \A u \in Turn \ {t} : stream'[u] = stream[u]
        /\ \/ stream[t].pc = "completed" /\ stream'[t].pc = "done"
           \/ stream[t].pc = "open" /\ stream'[t].pc = "cut"
    BY <1>0, <1>13 DEF EndStream, CutOff, Finally, Open
  <2> QED
    BY <1>0, <2>1 DEF OnScreenNext, Open
<1>7. ASSUME screen' = screen, stream' = stream PROVE \A m \in Range(screen') : OnScreenNext(m)
  BY <1>7 DEF OnScreenNext, Open
<1>8. ASSUME NEW l \in Load, Loaded(l) PROVE \A m \in Range(screen') : OnScreenNext(m)
  <2> DEFINE s == loads[l].msgs
  <2>1. screen' = AsShown(s) /\ InFlight(l)
    BY <1>8 DEF Loaded, InFlight
  <2>2. /\ s \in Seq(Message) /\ loads[l].conv \in convs
        /\ \A i \in DOMAIN s : s[i] \in Range(db[loads[l].conv])
    BY <2>1 DEF ChatTypeOK, RequestOf, LoadsAreStored
  <2> HIDE DEF s
  <2>3. ASSUME NEW i \in DOMAIN AsShown(s) PROVE OnScreenNext(AsShown(s)[i])
    <3>1. i \in DOMAIN s /\ AsShown(s)[i] = Shown(s[i].turn, s[i].role, "final")
      BY <2>2, AsShownType
    <3>2. s[i] \in Message
      BY <2>2, <3>1
    <3>3. /\ s[i] = Said(s[i].turn, s[i].role)
          /\ AsShown(s)[i].turn = s[i].turn /\ AsShown(s)[i].role = s[i].role /\ AsShown(s)[i].kind = "final"
      BY <3>1, <3>2, SaidIsMessage, SaidType
    <3>4. Stored(AsShown(s)[i])
      BY <2>2, <3>1, <3>3 DEF Stored
    <3> QED
      BY <3>3, <3>4 DEF OnScreenNext
  <2> QED
    BY <2>1, <2>3 DEF Range
<1>9. ASSUME NewConversation PROVE \A m \in Range(screen') : OnScreenNext(m)
  BY <1>9 DEF NewConversation, Range
<1>10. ASSUME NEW t \in Turn, Prepare(t) \/ Refuse(t) \/ Save(t) \/ AgentFails(t)
       PROVE  screen' = screen /\ stream' = stream
  BY <1>10 DEF Prepare, Refuse, Save, AgentFails, tabVars
<1>11. ASSUME NEW l \in Load, ListRead(l) \/ LoadFails(l) \/ \E c \in convs : LoadConversation(l, c)
       PROVE  screen' = screen /\ stream' = stream
  BY <1>11 DEF ListRead, LoadFails, LoadConversation
<1>12. ASSUME Render \/ AnswerCard \/ UNCHANGED chatVars PROVE screen' = screen /\ stream' = stream
  BY <1>12 DEF Render, AnswerCard, chatVars
<1> QED
  BY <1>3, <1>4, <1>5, <1>6, <1>7, <1>8, <1>9, <1>10, <1>11, <1>12, <1>13, LoadCases DEF TurnStep

LEMMA TemporaryMeansOpenStep ==
    ASSUME ChatTypeOK, Handlers, Filed, LoadsAreStored, TemporaryMeansOpen, [ChatNext]_chatVars
    PROVE  TemporaryMeansOpen'
<1>1. \A m \in Range(screen) : m.kind = "tmp" => Open(m.turn) \/ stream[m.turn].pc = "cut"
  BY DEF TemporaryMeansOpen, Range
<1>2. ASSUME NEW m \in Range(screen'), m.kind = "tmp" PROVE Open(m.turn)' \/ stream'[m.turn].pc = "cut"
  <2>1. OnScreenNext(m)
    BY ScreenStep
  <2> QED
    BY <1>1, <1>2, <2>1 DEF OnScreenNext
<1> QED
  BY <1>2 DEF TemporaryMeansOpen, Range

LEMMA FinalMeansStoredStep ==
    ASSUME ChatTypeOK, Handlers, Books, Filed, LoadsAreStored, FinalMeansStored, [ChatNext]_chatVars
    PROVE  FinalMeansStored'
<1>1. \A m \in Range(screen) : m.kind = "final" => Stored(m)
  BY DEF FinalMeansStored, Range, Stored
<1>2. convs \subseteq convs' /\ convs \subseteq Turn /\ \A c \in Turn : Range(db[c]) \subseteq Range(db'[c])
  BY NothingForgotten DEF ChatTypeOK
<1>3. ASSUME NEW m \in Range(screen'), m.kind = "final"
      PROVE  \E c \in convs' : Said(m.turn, m.role) \in Range(db'[c])
  <2>1. OnScreenNext(m)
    BY ScreenStep
  <2>2. Stored(m)
    BY <1>1, <1>3, <2>1 DEF OnScreenNext
  <2> QED
    BY <1>2, <2>2 DEF Stored
<1> QED
  BY <1>3 DEF FinalMeansStored, Range

-----------------------------------------------------------------------------
(* Turns of a conversation are stored one after the other.                  *)

\* Streams and histories go forward.
LEMMA StreamsForward ==
    ASSUME ChatTypeOK, Handlers, [ChatNext]_chatVars
    PROVE  /\ hasty => hasty'
           /\ \A u \in Turn :
                 /\ stream[u].pc = "rolled_back" => stream'[u].pc = "rolled_back"
                 /\ server[u].pc # "none" /\ Open(u)' => Open(u)
<1> DEFINE Forward ==
        /\ hasty => hasty'
        /\ \A u \in Turn :
              /\ stream[u].pc = "rolled_back" => stream'[u].pc = "rolled_back"
              /\ server[u].pc # "none" /\ Open(u)' => Open(u)
<1>0. DOMAIN stream = Turn /\ \A u \in Turn : server[u].pc = "none" <=> stream[u].pc = "none"
  BY DEF ChatTypeOK, Handlers
<1>1. ASSUME NEW t \in Turn, Prepare(t) \/ Refuse(t) \/ Save(t) \/ AgentFails(t) PROVE Forward
  BY <1>1 DEF Prepare, Refuse, Save, AgentFails, tabVars, Open
<1>2. ASSUME NEW t \in Turn, Send(t) PROVE Forward
  BY <1>0, <1>2 DEF Send, Open
<1>3. ASSUME NEW t \in Turn, Part(t) PROVE Forward
  BY <1>0, <1>3 DEF Part, Open, history
<1>4. ASSUME NEW t \in Turn, Complete(t) \/ EndStream(t) \/ CutOff(t) \/ (Open(t) /\ RollBack(t)) PROVE Forward
  BY <1>0, <1>4 DEF Complete, Completed, EndStream, CutOff, RollBack, Finally, Open, history
<1>5. ASSUME stream' = stream, hasty' = hasty PROVE Forward
  BY <1>5 DEF Open
<1> HIDE DEF Forward
<1>6. Forward
  BY <1>1, <1>2, <1>3, <1>4, <1>5, StepCases DEF TurnStep
<1> QED
  BY <1>6 DEF Forward

LEMMA OneAtATimeStep ==
    ASSUME ChatTypeOK, OneAtATime, [ChatNext]_chatVars
    PROVE  OneAtATime'
<1>0. DOMAIN stream = Turn
  BY DEF ChatTypeOK
<1>1. ASSUME stream' = stream, sending' = sending, hasty' = hasty PROVE OneAtATime'
  BY <1>1 DEF OneAtATime, Reading
<1>2. ASSUME NEW t \in Turn, Prepare(t) \/ Refuse(t) \/ Save(t) \/ AgentFails(t) PROVE OneAtATime'
  BY <1>1, <1>2 DEF Prepare, Refuse, Save, AgentFails, tabVars
<1>3. ASSUME NEW t \in Turn, Send(t) PROVE OneAtATime'
  <2>1. hasty' = (hasty \/ sending) /\ sending' = TRUE /\ \A u \in Turn \ {t} : stream'[u] = stream[u]
    BY <1>0, <1>3 DEF Send
  <2> QED
    BY <2>1 DEF OneAtATime, Reading
<1>4. ASSUME NEW t \in Turn, Part(t) PROVE OneAtATime'
  <2>1. hasty' = hasty /\ sending' = sending /\ \A u \in Turn : stream'[u].pc = stream[u].pc
    BY <1>0, <1>4 DEF Part, history
  <2> QED
    BY <2>1 DEF OneAtATime, Reading
<1>5. ASSUME NEW t \in Turn, Complete(t) PROVE OneAtATime'
  <2>1. /\ hasty' = hasty /\ sending' = sending /\ Reading(t)
        /\ \A u \in Turn \ {t} : stream'[u] = stream[u]
    BY <1>0, <1>5 DEF Complete, Completed, Open, Reading, history
  <2> QED
    BY <2>1 DEF OneAtATime, Reading
<1>6. ASSUME NEW t \in Turn, EndStream(t) \/ CutOff(t) \/ (Open(t) /\ RollBack(t)) PROVE OneAtATime'
  <2>1. /\ hasty' = hasty /\ Reading(t) /\ stream'[t].pc \notin {"open", "completed"}
        /\ \A u \in Turn \ {t} : stream'[u] = stream[u]
    BY <1>0, <1>6 DEF EndStream, CutOff, RollBack, Finally, Open, Reading, history
  <2> QED
    BY <2>1 DEF OneAtATime, Reading
<1> QED
  BY <1>1, <1>2, <1>3, <1>4, <1>5, <1>6, StepCases DEF TurnStep

\* A handler that stores something has a stream that is open or rolled back.
LEMMA StoringStream ==
    ASSUME ChatTypeOK, Handlers, NEW t \in Turn, NEW c \in Turn, NEW x \in Message, Stores(t, c, x)
    PROVE  (Open(t) \/ stream[t].pc = "rolled_back") /\ stream' = stream /\ hasty' = hasty
<1>1. stream[t].pc \in {"none", "open", "completed", "done", "rolled_back", "cut"}
  BY DEF ChatTypeOK, StreamOf
<1>2. server[t].pc \in {"posted", "agent"}
  BY DEF Stores
<1> QED
  BY <1>1, <1>2 DEF Handlers, Open, Stores, tabVars

LEMMA OpenIsLastStep ==
    ASSUME ChatTypeOK, Handlers, Books, OneAtATime, OpenIsLast, [ChatNext]_chatVars
    PROVE  OpenIsLast'
<1>1. ASSUME NEW t \in Turn, Prepare(t) \/ Save(t) PROVE OpenIsLast'
  <2>1. PICK c \in Turn, x \in Message : Stores(t, c, x)
    BY <1>1, StoringSteps
  <2>2. (Open(t) \/ stream[t].pc = "rolled_back") /\ stream' = stream /\ hasty' = hasty
    BY <2>1, StoringStream
  <2>3. x.turn = t /\ db'[c] = Append(db[c], x) /\ \A d \in Turn \ {c} : db'[d] = db[d]
    BY <2>1, StoresFacts
  <2> DEFINE r == db'[c]
             n == Len(db[c]) + 1
  <2>4. /\ \A i \in DOMAIN db[c] : i \in DOMAIN r /\ r[i] = db[c][i] /\ i < n
        /\ r[n] = x
        /\ \A i \in DOMAIN r : i \in DOMAIN db[c] \/ i = n
        /\ Len(db[c]) \in Nat /\ DOMAIN db[c] = 1..Len(db[c])
    <3>1. db[c] \in Seq(Message)
      BY DEF ChatTypeOK
    <3> QED
      BY <2>3, <3>1, OneMore
  <2>5. n \in Nat /\ ~(n < n) /\ \A j \in DOMAIN db[c] : j < n /\ ~(n < j)
    BY <2>4
  <2> HIDE DEF r, n
  <2>6. ASSUME ~hasty', NEW i \in DOMAIN r, NEW j \in DOMAIN r, i < j, stream'[r[i].turn].pc = "open"
        PROVE  r[j].turn = r[i].turn \/ stream'[r[j].turn].pc = "rolled_back"
    <3>1. i \in DOMAIN db[c] /\ r[i] = db[c][i]
      BY <2>4, <2>5, <2>6
    <3>2. Open(db[c][i].turn) /\ ~hasty /\ db[c][i].turn \in Turn
      BY <2>2, <2>6, <3>1, MessagesOf DEF Open
    <3>3. CASE j \in DOMAIN db[c]
      BY <2>2, <2>4, <2>6, <3>1, <3>2, <3>3 DEF OpenIsLast
    <3>4. CASE j = n
      BY <2>2, <2>3, <2>4, <3>1, <3>2, <3>4 DEF OneAtATime, Reading, Open
    <3> QED
      BY <2>4, <3>3, <3>4
  <2>7. ASSUME ~hasty', NEW d \in Turn \ {c}, NEW i \in DOMAIN db'[d], NEW j \in DOMAIN db'[d], i < j,
               stream'[db'[d][i].turn].pc = "open"
        PROVE  db'[d][j].turn = db'[d][i].turn \/ stream'[db'[d][j].turn].pc = "rolled_back"
    BY <2>2, <2>3, <2>7 DEF OpenIsLast, Open
  <2>8. ASSUME ~hasty', NEW d \in Turn, NEW i \in DOMAIN db'[d], NEW j \in DOMAIN db'[d], i < j,
               stream'[db'[d][i].turn].pc = "open"
        PROVE  db'[d][j].turn = db'[d][i].turn \/ stream'[db'[d][j].turn].pc = "rolled_back"
    <3>1. CASE d = c
      BY <2>6, <2>8, <3>1 DEF r
    <3>2. CASE d # c
      BY <2>7, <2>8, <3>2
    <3> QED
      BY <3>1, <3>2
  <2> QED
    BY <2>8 DEF OpenIsLast, Open
<1>2. ASSUME db' = db PROVE OpenIsLast'
  <2>1. \A d \in Turn : \A i \in DOMAIN db[d] : db[d][i].turn \in Turn /\ server[db[d][i].turn].pc # "none"
    BY MessagesOf DEF Books, Handled
  <2>2. ASSUME ~hasty', NEW d \in Turn, NEW i \in DOMAIN db[d], NEW j \in DOMAIN db[d], i < j,
               stream'[db[d][i].turn].pc = "open"
        PROVE  db[d][j].turn = db[d][i].turn \/ stream'[db[d][j].turn].pc = "rolled_back"
    BY <2>1, <2>2, StreamsForward DEF OpenIsLast, Open
  <2> QED
    BY <1>2, <2>2 DEF OpenIsLast, Open
<1>3. ASSUME NEW t \in Turn, Refuse(t) \/ AgentFails(t) \/ Send(t) \/ Part(t) \/ Complete(t)
             \/ EndStream(t) \/ CutOff(t) \/ RollBack(t)
      PROVE  db' = db
  BY <1>3 DEF Refuse, AgentFails, Send, Part, Complete, Completed, EndStream, CutOff, RollBack, Finally, serverVars
<1> QED
  BY <1>1, <1>2, <1>3, StepCases DEF TurnStep

LEMMA TurnsDoNotInterleaveStep ==
    ASSUME ChatTypeOK, Handlers, Books, LoadsAreStored, OneAtATime, OpenIsLast, TurnsDoNotInterleave,
           [ChatNext]_chatVars
    PROVE  TurnsDoNotInterleave'
<1>0. ASSUME NEW c \in Turn, NEW i \in DOMAIN db[c], NEW j \in DOMAIN db[c], NEW k \in DOMAIN db[c],
             i < j, j < k, db[c][i].turn = db[c][k].turn, ~hasty
      PROVE  \E n \in {i, j} : stream[db[c][n].turn].pc = "rolled_back"
  <2>1. c \in convs
    BY DEF Books
  <2> QED
    BY <1>0, <2>1 DEF TurnsDoNotInterleave
<1>c. convs' \subseteq Turn
  <2>1. ChatTypeOK'
    BY ChatTypeStep, LoadsAreStoredStep
  <2> QED
    BY <2>1 DEF ChatTypeOK
<1>1. ASSUME NEW t \in Turn, Prepare(t) \/ Save(t) PROVE TurnsDoNotInterleave'
  <2>1. PICK c \in Turn, x \in Message : Stores(t, c, x)
    BY <1>1, StoringSteps
  <2>2. (Open(t) \/ stream[t].pc = "rolled_back") /\ stream' = stream /\ hasty' = hasty
    BY <2>1, StoringStream
  <2>3. /\ x.turn = t /\ db'[c] = Append(db[c], x) /\ \A d \in Turn \ {c} : db'[d] = db[d]
        /\ server[t].pc # "saved"
    <3>1. server[t].pc # "saved"
      BY <2>1 DEF Stores
    <3> QED
      BY <2>1, <3>1, StoresFacts
  <2> DEFINE r == db'[c]
             e == Len(db[c]) + 1
  <2>4. /\ \A i \in DOMAIN db[c] : i \in DOMAIN r /\ r[i] = db[c][i] /\ i < e
        /\ r[e] = x
        /\ \A i \in DOMAIN r : i \in DOMAIN db[c] \/ i = e
        /\ Len(db[c]) \in Nat /\ DOMAIN db[c] = 1..Len(db[c])
    <3>1. db[c] \in Seq(Message)
      BY DEF ChatTypeOK
    <3> QED
      BY <2>3, <3>1, OneMore
  <2>5. e \in Nat /\ ~(e < e) /\ \A j \in DOMAIN db[c] : ~(e < j)
    BY <2>4
  <2> HIDE DEF r, e
  <2>6. ASSUME NEW i \in DOMAIN r, NEW j \in DOMAIN r, NEW k \in DOMAIN r,
               i < j, j < k, r[i].turn = r[k].turn, ~hasty'
        PROVE  \E n \in {i, j} : stream'[r[n].turn].pc = "rolled_back"
    <3>1. j \in DOMAIN db[c] /\ r[j] = db[c][j]
      BY <2>4, <2>5, <2>6
    <3>2. i \in DOMAIN db[c] /\ r[i] = db[c][i]
      BY <2>4, <2>5, <2>6, <3>1
    <3>3. CASE k \in DOMAIN db[c]
      <4>1. r[k] = db[c][k]
        BY <2>4, <3>3
      <4> QED
        BY <1>0, <2>2, <2>6, <3>1, <3>2, <3>3, <4>1
    <3>4. CASE k = e
      <4>1. db[c][i].turn = t
        BY <2>3, <2>4, <2>6, <3>2, <3>4
      <4>2. CASE stream[t].pc = "rolled_back"
        BY <2>2, <3>2, <4>1, <4>2
      <4>3. CASE Open(t)
        <5>1. db[c][j].turn = t \/ stream[db[c][j].turn].pc = "rolled_back"
          BY <2>2, <2>6, <3>1, <3>2, <4>1, <4>3 DEF OpenIsLast
        <5>2. ASSUME db[c][j].turn = t PROVE FALSE
          <6>1. /\ db[c][i] = Said(t, db[c][i].role) /\ db[c][j] = Said(t, db[c][j].role)
                /\ db[c][i].role \in Role /\ db[c][j].role \in Role
            BY <3>1, <3>2, <4>1, <5>2, MessagesOf DEF Message
          <6>2. db[c][i].role # "assistant" /\ db[c][j].role # "assistant"
            BY <2>3, <3>1, <3>2, <4>1, <5>2 DEF Books
          <6>3. db[c][i] = db[c][j]
            BY <6>1, <6>2 DEF Role
          <6>4. i = j
            BY <3>1, <3>2, <6>3 DEF Books
          <6> QED
            BY <2>4, <2>6, <3>1, <6>4
        <5> QED
          BY <2>2, <3>1, <5>1, <5>2
      <4> QED
        BY <2>2, <4>2, <4>3
    <3> QED
      BY <2>4, <3>3, <3>4
  <2>7. ASSUME NEW d \in Turn, NEW i \in DOMAIN db'[d], NEW j \in DOMAIN db'[d], NEW k \in DOMAIN db'[d],
               i < j, j < k, db'[d][i].turn = db'[d][k].turn, ~hasty'
        PROVE  \E n \in {i, j} : stream'[db'[d][n].turn].pc = "rolled_back"
    <3>1. CASE d = c
      BY <2>6, <2>7, <3>1 DEF r
    <3>2. CASE d # c
      BY <1>0, <2>2, <2>3, <2>7, <3>2
    <3> QED
      BY <3>1, <3>2
  <2> QED
    BY <1>c, <2>7 DEF TurnsDoNotInterleave
<1>2. ASSUME db' = db PROVE TurnsDoNotInterleave'
  <2>1. \A d \in Turn : \A i \in DOMAIN db[d] : db[d][i].turn \in Turn
    BY MessagesOf
  <2>2. ASSUME NEW d \in Turn, NEW i \in DOMAIN db[d], NEW j \in DOMAIN db[d], NEW k \in DOMAIN db[d],
               i < j, j < k, db[d][i].turn = db[d][k].turn, ~hasty'
        PROVE  \E n \in {i, j} : stream'[db[d][n].turn].pc = "rolled_back"
    BY <1>0, <2>1, <2>2, StreamsForward
  <2> QED
    BY <1>2, <1>c, <2>2 DEF TurnsDoNotInterleave
<1>3. ASSUME NEW t \in Turn, Refuse(t) \/ AgentFails(t) \/ Send(t) \/ Part(t) \/ Complete(t)
             \/ EndStream(t) \/ CutOff(t) \/ RollBack(t)
      PROVE  db' = db
  BY <1>3 DEF Refuse, AgentFails, Send, Part, Complete, Completed, EndStream, CutOff, RollBack, Finally, serverVars
<1> QED
  BY <1>1, <1>2, <1>3, StepCases DEF TurnStep

-----------------------------------------------------------------------------
(* What the quiet screen tells.                                             *)

LEMMA AppendToConcat ==
    ASSUME NEW S, NEW s \in Seq(S), NEW x \in S, NEW y \in S
    PROVE  /\ s \o <<>> = s
           /\ Append(s \o <<>>, x) = s \o <<x>>
           /\ Append(s \o <<x>>, y) = s \o <<x, y>>
<1>1. s \o <<>> = s
  OBVIOUS
<1>2. Append(s, x) = s \o <<x>>
  OBVIOUS
<1>3. Append(Append(s, x), y) = s \o <<x, y>>
  BY TwoMore
<1> QED
  BY <1>1, <1>2, <1>3

LEMMA KeepNothing ==
    ASSUME NEW P
    PROVE  Keep(<<>>, P) = <<>>
<1>1. <<>> \in Seq(Message) /\ \A i \in DOMAIN <<>> : <<>>[i] \in P
  OBVIOUS
<1> QED
  BY <1>1, KeepAll

\* What a filter let through is filtered again.
LEMMA KeepKeep ==
    ASSUME NEW S, NEW s \in Seq(S), NEW P, NEW Q, \A x \in S : x \in Q => x \in P
    PROVE  Keep(Keep(s, P), Q) = Keep(s, Q)
<1>1. PICK F : IsFilter(F, s, P) /\ Keep(s, P) = F[Len(s)]
  BY KeepIsFilter
<1>2. PICK G : IsFilter(G, s, Q) /\ Keep(s, Q) = G[Len(s)]
  BY KeepIsFilter
<1> DEFINE T == {k \in Nat : k <= Len(s) => F[k] \in Seq(S) /\ Keep(F[k], Q) = G[k]}
<1>0. /\ \A i \in 0..Len(s) : F[i] = IF i = 0 THEN <<>>
                ELSE IF s[i] \in P THEN Append(F[i - 1], s[i]) ELSE F[i - 1]
      /\ \A i \in 0..Len(s) : G[i] = IF i = 0 THEN <<>>
                ELSE IF s[i] \in Q THEN Append(G[i - 1], s[i]) ELSE G[i - 1]
  BY <1>1, <1>2 DEF IsFilter
<1>3. 0 \in T
  <2>1. F[0] = <<>> /\ G[0] = <<>> /\ <<>> \in Seq(S)
    BY <1>0
  <2>2. Keep(<<>>, Q) = <<>>
    BY KeepNothing
  <2> QED
    BY <2>1, <2>2
<1>4. ASSUME NEW k \in T PROVE k + 1 \in T
  <2> SUFFICES ASSUME k + 1 <= Len(s) PROVE F[k + 1] \in Seq(S) /\ Keep(F[k + 1], Q) = G[k + 1]
    BY <1>4
  <2>1. k \in Nat /\ F[k] \in Seq(S) /\ Keep(F[k], Q) = G[k]
    BY <1>4
  <2>2. k + 1 \in 0..Len(s) /\ k + 1 # 0 /\ (k + 1) - 1 = k /\ k + 1 \in 1..Len(s) /\ s[k + 1] \in S
    BY <2>1
  <2> DEFINE x == s[k + 1]
             f == F[k]
  <2>3. /\ F[k + 1] = IF x \in P THEN Append(f, x) ELSE f
        /\ G[k + 1] = IF x \in Q THEN Append(G[k], x) ELSE G[k]
        /\ f \in Seq(S) /\ x \in S /\ (x \in Q => x \in P)
    BY <1>0, <2>1, <2>2
  <2> HIDE DEF f, x
  <2>4. Keep(Append(f, x), Q) = IF x \in Q THEN Append(Keep(f, Q), x) ELSE Keep(f, Q)
    BY <2>3, KeepAppend
  <2>5. Append(f, x) \in Seq(S)
    BY <2>3
  <2>6. Keep(f, Q) = G[k]
    BY <2>1 DEF f
  <2> QED
    BY <2>3, <2>4, <2>5, <2>6
<1>5. T = Nat
  <2> HIDE DEF T
  <2>1. T \subseteq Nat
    BY DEF T
  <2> QED
    BY <1>3, <1>4, <2>1, NatSet
<1>6. Len(s) \in T
  BY <1>5
<1> QED
  BY <1>1, <1>2, <1>6

\* The messages on the screen, temporary ones left out.
LEMMA BaseFacts ==
    ASSUME ChatTypeOK
    PROVE  /\ Base \in Seq(Message)
           /\ \A m \in Range(Base) : \E s \in Range(screen) : m = Said(s.turn, s.role) /\ s.kind = "final"
<1>1. screen \in Seq(OnScreen)
  BY DEF ChatTypeOK
<1> DEFINE w == Finals
<1>2. /\ w \in Seq(OnScreen)
      /\ \A i \in DOMAIN w : w[i] \in Final /\ w[i] \in Range(screen)
  BY <1>1, KeepType DEF Finals
<1> HIDE DEF w
<1>3. /\ AsSaid(w) \in Seq(Message) /\ DOMAIN AsSaid(w) = DOMAIN w
      /\ \A i \in DOMAIN w : AsSaid(w)[i] = Said(w[i].turn, w[i].role)
  BY <1>2, AsSaidType
<1>4. ASSUME NEW m \in Range(AsSaid(w))
      PROVE  \E s \in Range(screen) : m = Said(s.turn, s.role) /\ s.kind = "final"
  <2>1. PICK i \in DOMAIN AsSaid(w) : m = AsSaid(w)[i]
    BY DEF Range
  <2> QED
    BY <1>2, <1>3, <2>1 DEF Final
<1> QED
  BY <1>3, <1>4 DEF Base, w

\* Taking temporary messages off the screen, or adding one, leaves the rest.
LEMMA FinalsStay ==
    ASSUME ChatTypeOK, NEW t \in Turn
    PROVE  /\ Keep(WithoutTmp(t), Final) = Finals
           /\ \A r \in Role : Keep(Append(screen, Shown(t, r, "tmp")), Final) = Finals
<1>1. screen \in Seq(OnScreen)
  BY DEF ChatTypeOK
<1>2. \A x \in OnScreen : x \in Final => x \in NotTmpOf(t)
  BY DEF Final, NotTmpOf
<1>3. Keep(Keep(screen, NotTmpOf(t)), Final) = Keep(screen, Final)
  BY <1>1, <1>2, KeepKeep
<1>4. ASSUME NEW r \in Role PROVE Keep(Append(screen, Shown(t, r, "tmp")), Final) = Finals
  <2>1. Shown(t, r, "tmp") \in OnScreen /\ Shown(t, r, "tmp") \notin Final
    BY SaidType DEF Final
  <2> QED
    BY <1>1, <2>1, KeepAppend DEF Finals
<1> QED
  BY <1>3, <1>4 DEF WithoutTmp, Finals

\* A message that is stored now is not on the screen yet.
LEMMA NotYetShown ==
    ASSUME ChatTypeOK, Books, FinalMeansStored,
           NEW t \in Turn, NEW c \in Turn, NEW x \in Message, Stores(t, c, x)
    PROVE  x \notin Range(Base)
<1> SUFFICES ASSUME x \in Range(Base) PROVE FALSE
  OBVIOUS
<1>1. PICK s \in Range(screen) : x = Said(s.turn, s.role) /\ s.kind = "final"
  BY BaseFacts
<1>2. PICK i \in DOMAIN screen : s = screen[i]
  BY DEF Range
<1>3. PICK d \in convs : x \in Range(db[d])
  BY <1>1, <1>2 DEF FinalMeansStored
<1>4. d \in Turn
  BY DEF ChatTypeOK
<1> QED
  BY <1>3, <1>4, StoresFacts DEF Range

\* Tells, after the step.
WillTell(said, c) ==
    IF c = None THEN said = <<>>
    ELSE /\ said = Keep(db'[c], Range(said))
         /\ \A m \in Range(db'[c]) : m \in Range(said) \/ GivenUp(m.turn)'

LEMMA TellsStays ==
    ASSUME ChatTypeOK, Books, NEW t \in Turn, NEW c \in Turn, NEW x \in Message, Stores(t, c, x),
           GivenUp(t),
           NEW said \in Seq(Message), NEW d \in Turn \cup {None}, Tells(said, d), x \notin Range(said)
    PROVE  WillTell(said, d)
<1>1. /\ x.turn = t /\ db'[c] = Append(db[c], x) /\ \A e \in Turn \ {c} : db'[e] = db[e]
  BY StoresFacts
<1>2. stream' = stream
  BY DEF Stores, tabVars
<1>3. CASE d = c /\ d # None
  <2>1. db[c] \in Seq(Message)
    BY DEF ChatTypeOK
  <2>2. Keep(db'[c], Range(said)) = Keep(db[c], Range(said))
    BY <1>1, <2>1, KeepAppend
  <2>3. Range(db'[c]) = Range(db[c]) \cup {x}
    BY <1>1, <2>1, RangeAppend
  <2> QED
    BY <1>1, <1>2, <1>3, <2>2, <2>3 DEF Tells, WillTell, GivenUp
<1>4. CASE d # c \/ d = None
  BY <1>1, <1>2, <1>4 DEF Tells, WillTell, GivenUp
<1> QED
  BY <1>3, <1>4

Quiet ==
    /\ QuietScreenTellsConversation
    /\ TurnsUnderWay
    /\ AloneIsAlone
    /\ Unskewed

\* UnderWay, after a step that leaves the tab as it is: the handler of u,
\* its conversation and its messages may have changed.
LEMMA QuietStores ==
    ASSUME ChatTypeOK, Handlers, Books, LoadsAreStored, FinalMeansStored, Quiet,
           NEW t \in Turn, Prepare(t) \/ Save(t)
    PROVE  Quiet'
<1>1. PICK c \in Turn, x \in Message : Stores(t, c, x)
  BY StoringSteps
<1>2. /\ Open(t) \/ stream[t].pc = "rolled_back"
      /\ stream' = stream /\ loads' = loads /\ screen' = screen /\ conv' = conv /\ skewed' = skewed
  BY <1>1, StoringStream DEF Stores, tabVars
<1>3. x.turn = t /\ db'[c] = Append(db[c], x) /\ \A d \in Turn \ {c} : db'[d] = db[d]
  BY <1>1, StoresFacts
<1>4. /\ Base \in Seq(Message)
      /\ conv \in Turn \cup {None} /\ db[c] \in Seq(Message) /\ None \notin Turn
  BY BaseFacts, KimChatAssumption DEF ChatTypeOK, Turn
<1>5. QuietScreenTellsConversation'
  <2> SUFFICES ASSUME Idle, ~skewed PROVE WillTell(Base, conv)
    BY <1>2 DEF QuietScreenTellsConversation, Tells, WillTell, Base, Finals, Idle, Open, GivenUp, InFlight
  <2>1. GivenUp(t) /\ Tells(Base, conv)
    BY <1>2 DEF Idle, Quiet, QuietScreenTellsConversation, Base, GivenUp
  <2>2. x \notin Range(Base)
    BY <1>1, NotYetShown
  <2> QED
    BY <1>1, <1>4, <2>1, <2>2, TellsStays
<1>6. AloneIsAlone'
  <2>1. ASSUME NEW l \in Load, loads[l].alone, loads[l].pc = "read" PROVE WillTell(loads[l].msgs, conv)
    <3>1. /\ GivenUp(t) /\ Tells(loads[l].msgs, conv)
          /\ loads[l].conv = conv /\ conv # None
      BY <1>2, <2>1 DEF Quiet, AloneIsAlone, GivenUp
    <3>2. loads[l].msgs \in Seq(Message)
      BY DEF ChatTypeOK, RequestOf
    <3>3. x \notin Range(loads[l].msgs)
      <4>1. \A i \in DOMAIN loads[l].msgs : loads[l].msgs[i] \in Range(db[conv])
        BY <3>1 DEF LoadsAreStored
      <4>2. x \notin Range(db[conv])
        BY <1>1, <1>4, <3>1, StoresFacts DEF Range
      <4> QED
        BY <4>1, <4>2 DEF Range
    <3> QED
      BY <1>1, <1>2, <1>4, <3>1, <3>2, <3>3, TellsStays
  <2> QED
    BY <1>2, <2>1 DEF Quiet, AloneIsAlone, Tells, WillTell, Open, GivenUp, InFlight
<1>7. ASSUME NEW u \in Turn, UnderWay(u), Open(u) PROVE UnderWay(u)'
  <2> DEFINE d == ConvOf(u)
             B == Base
             R == Range(B)
  <2>0. d \in Turn /\ d' = d /\ B' = B /\ R' = R /\ B \in Seq(Message) /\ db[d] \in Seq(Message)
    <3>1. d \in Turn
      BY <1>4 DEF ConvOf
    <3> QED
      BY <1>2, <1>4, <3>1 DEF ConvOf, Base, Finals, ChatTypeOK
  <2>1. /\ Keep(db[d], R) = B /\ Keep(db[d], R \cup Answer(u)) = B \o StoredOf(u)
        /\ \A m \in Range(db[d]) : m.turn = u \/ m \in R \/ GivenUp(m.turn)
        /\ server[u].pc \in {"posted", "refused"} => server[u].conv = conv
        /\ server[u].pc \in Handled => server[u].conv = d
        /\ \A v \in Turn : Open(v) => v = u
    BY <1>7 DEF UnderWay
  <2>2. x \notin R
    BY <1>1, NotYetShown
  <2>3. ASSUME Keep(db'[d], R) = B, Keep(db'[d], R \cup Answer(u)) = B \o StoredOf(u)',
               \A m \in Range(db'[d]) : m.turn = u \/ m \in R \/ GivenUp(m.turn),
               server'[u].pc \in {"posted", "refused"} => server'[u].conv = conv,
               server'[u].pc \in Handled => server'[u].conv = d
        PROVE  UnderWay(u)'
    <3>1. /\ \A v \in Turn : Open(v)' => v = u
          /\ \A l \in Load : ~InFlight(l)'
          /\ conv' = None => B' = <<>>
      BY <1>2, <1>7, <2>0 DEF UnderWay, Open, InFlight
    <3> HIDE DEF d, B, R
    <3>2. /\ Keep(db'[d'], R') = B' /\ Keep(db'[d'], R' \cup Answer(u)) = B' \o StoredOf(u)'
          /\ \A m \in Range(db'[d']) : m.turn = u \/ m \in R' \/ GivenUp(m.turn)'
          /\ server'[u].pc \in {"posted", "refused"} => server'[u].conv = conv'
          /\ server'[u].pc \in Handled => server'[u].conv = d'
      BY <1>2, <2>0, <2>3 DEF GivenUp
    <3> QED
      BY <3>1, <3>2 DEF UnderWay, d, B, R
  <2> HIDE DEF d, B, R
  <2>4. CASE u = t
    <3>1. c = d
      BY <1>1, <2>1, <2>4, <1>4 DEF Stores, ConvOf, d, Handled
    <3>2. x \in Answer(u)
      BY <1>1, <2>4 DEF Stores, Answer
    <3>3. /\ Keep(db'[d], R) = B
          /\ Keep(db'[d], R \cup Answer(u)) = Append(B \o StoredOf(u), x)
      <4>1. /\ Keep(Append(db[d], x), R) = Keep(db[d], R)
            /\ Keep(Append(db[d], x), R \cup Answer(u)) = Append(Keep(db[d], R \cup Answer(u)), x)
        <5> DEFINE Q == R \cup Answer(u)
        <5>1. db[d] \in Seq(Message) /\ x \in Q
          BY <2>0, <3>2
        <5> HIDE DEF Q
        <5>2. Keep(Append(db[d], x), R) = Keep(db[d], R)
          BY <2>2, <5>1, KeepAppend
        <5>3. Keep(Append(db[d], x), Q) = Append(Keep(db[d], Q), x)
          BY <5>1, KeepAppend
        <5> QED
          BY <5>2, <5>3 DEF Q
      <4> QED
        BY <1>3, <2>1, <3>1, <4>1
    <3>4. Range(db'[d]) = Range(db[d]) \cup {x}
      <4>1. db'[d] = Append(db[d], x) /\ db[d] \in Seq(Message)
        BY <1>3, <2>0, <3>1
      <4> QED
        BY <4>1, RangeAppend
    <3>5. Append(B \o StoredOf(u), x) = B \o StoredOf(u)'
      <4>1. CASE x = Said(t, "user") /\ server[t].pc = "posted" /\ server'[t].pc = "agent"
        <5>1. StoredOf(u) = <<>> /\ StoredOf(u)' = <<x>>
          BY <2>4, <4>1 DEF StoredOf
        <5> QED
          BY <2>0, <5>1, AppendToConcat
      <4>2. CASE x = Said(t, "assistant") /\ server[t].pc = "agent" /\ server'[t].pc = "saved"
        <5>1. StoredOf(u) = <<Said(t, "user")>> /\ StoredOf(u)' = <<Said(t, "user"), x>>
          BY <2>4, <4>2 DEF StoredOf
        <5>2. Said(t, "user") \in Message
          BY SaidType DEF Role
        <5> QED
          BY <2>0, <5>1, <5>2, AppendToConcat
      <4> QED
        BY <1>1, <4>1, <4>2 DEF Stores
    <3>6. server'[u].pc \notin {"posted", "refused"} /\ server'[u].conv = d
      BY <1>1, <2>4, <3>1 DEF Stores
    <3> QED
      BY <1>3, <2>1, <2>3, <2>4, <3>3, <3>4, <3>5, <3>6
  <2>5. CASE u # t
    <3>1. server'[u] = server[u] /\ GivenUp(t)
      BY <1>1, <1>2, <2>1, <2>5 DEF Stores, GivenUp
    <3>2. StoredOf(u)' = StoredOf(u)
      BY <3>1 DEF StoredOf
    <3>3. x \notin Answer(u)
      BY <1>3, <2>5, SaidType DEF Answer, Role
    <3>4. Keep(db'[d], R) = Keep(db[d], R) /\ Keep(db'[d], R \cup Answer(u)) = Keep(db[d], R \cup Answer(u))
      <4>1. /\ Keep(Append(db[d], x), R) = Keep(db[d], R)
            /\ Keep(Append(db[d], x), R \cup Answer(u)) = Keep(db[d], R \cup Answer(u))
        <5>1. db[d] \in Seq(Message) /\ x \notin R \cup Answer(u)
          BY <2>0, <2>2, <3>3
        <5> QED
          BY <2>2, <5>1, KeepAppend
      <4>2. db'[d] = db[d] \/ db'[d] = Append(db[d], x)
        BY <1>3, <2>0
      <4> QED
        BY <4>1, <4>2
    <3>5. Range(db'[d]) \subseteq Range(db[d]) \cup {x}
      <4>1. db'[d] = db[d] \/ db'[d] = Append(db[d], x)
        BY <1>3, <2>0
      <4>2. db[d] \in Seq(Message)
        BY <2>0
      <4> QED
        BY <4>1, <4>2, RangeAppend
    <3> QED
      BY <1>3, <2>1, <2>3, <3>1, <3>2, <3>4, <3>5
  <2> QED
    BY <2>4, <2>5
<1>8. TurnsUnderWay'
  BY <1>2, <1>7 DEF Quiet, TurnsUnderWay, Open
<1>9. Unskewed'
  BY <1>2 DEF Quiet, Unskewed, InFlight
<1> QED
  BY <1>5, <1>6, <1>8, <1>9 DEF Quiet

\* Steps that change nothing the screen's account depends on.
LEMMA QuietFrame ==
    ASSUME ChatTypeOK, Quiet,
           \A u \in Turn : (Open(u)' <=> Open(u)) /\ (GivenUp(u)' <=> GivenUp(u)),
           loads' = loads, screen' = screen, conv' = conv, skewed' = skewed, db' = db,
           \A u \in Turn : /\ server'[u].conv = server[u].conv
                           /\ \/ server'[u].pc = server[u].pc
                              \/ server[u].pc = "posted" /\ server'[u].pc = "refused"
                              \/ server[u].pc = "agent" /\ server'[u].pc = "failed"
    PROVE  Quiet'
<1>0. /\ conv # None => conv \in Turn
      /\ \A c \in Turn : \A m \in Range(db[c]) : m.turn \in Turn
  BY MessagesOf DEF ChatTypeOK, Range
<1>t. ASSUME NEW said, Tells(said, conv) PROVE WillTell(said, conv)
  BY <1>0, <1>t DEF Tells, WillTell
<1>1. QuietScreenTellsConversation' /\ AloneIsAlone' /\ Unskewed'
  <2>1. Idle' <=> Idle
    BY DEF Idle, InFlight
  <2>2. QuietScreenTellsConversation'
    BY <1>t, <2>1 DEF Quiet, QuietScreenTellsConversation, Tells, WillTell, Finals
  <2>3. AloneIsAlone'
    BY <1>t DEF Quiet, AloneIsAlone, Tells, WillTell, InFlight
  <2> QED
    BY <2>2, <2>3 DEF Quiet, Unskewed, InFlight
<1>2. ASSUME NEW u \in Turn, UnderWay(u), Open(u) PROVE UnderWay(u)'
  <2> DEFINE d == ConvOf(u)
             B == Base
  <2>1. d' = d /\ B' = B /\ d \in Turn
    BY <1>0 DEF ConvOf, Base, Finals
  <2>2. StoredOf(u)' = StoredOf(u)
    BY DEF StoredOf
  <2>3. /\ \A v \in Turn : Open(v)' => v = u
        /\ \A l \in Load : ~InFlight(l)'
        /\ conv' = None => B = <<>>
        /\ server'[u].pc \in {"posted", "refused"} => server'[u].conv = conv'
        /\ server'[u].pc \in Handled => server'[u].conv = d
        /\ Keep(db'[d], Range(B)) = B
        /\ Keep(db'[d], Range(B) \cup Answer(u)) = B \o StoredOf(u)
    BY <1>2 DEF UnderWay, InFlight, Handled
  <2>4. \A m \in Range(db'[d]) : m.turn = u \/ m \in Range(B) \/ GivenUp(m.turn)'
    BY <1>0, <1>2, <2>1 DEF UnderWay
  <2> HIDE DEF d, B
  <2>5. Range(B') = Range(B)
    BY <2>1
  <2> QED
    BY <2>1, <2>2, <2>3, <2>4, <2>5 DEF UnderWay, d, B
<1>3. TurnsUnderWay'
  BY <1>2 DEF Quiet, TurnsUnderWay
<1> QED
  BY <1>1, <1>3 DEF Quiet

LEMMA QuietSend ==
    ASSUME ChatTypeOK, Handlers, Books, Quiet, NEW t \in Turn, Send(t)
    PROVE  Quiet'
<1>1. /\ stream[t].pc = "none" /\ stream' = [stream EXCEPT ![t].pc = "open"]
      /\ server' = [server EXCEPT ![t] = [pc |-> "posted", conv |-> seen.conv]]
      /\ screen' = Append(screen, Shown(t, "user", "tmp"))
      /\ skewed' = (skewed \/ ~Idle \/ seen.conv # conv)
      /\ loads' = NoLongerAlone(loads) /\ conv' = conv /\ db' = db
  BY DEF Send
<1>2. /\ DOMAIN stream = Turn /\ DOMAIN server = Turn /\ DOMAIN loads = Load /\ screen \in Seq(OnScreen)
      /\ \A l \in Load : loads[l] = [pc |-> loads[l].pc, conv |-> loads[l].conv,
                                     msgs |-> loads[l].msgs, alone |-> loads[l].alone]
  BY DEF ChatTypeOK, RequestOf
<1>3. /\ stream'[t].pc = "open" /\ \A u \in Turn \ {t} : stream'[u] = stream[u]
      /\ server'[t].pc = "posted" /\ server'[t].conv = seen.conv
      /\ \A l \in Load : loads'[l].pc = loads[l].pc /\ ~loads'[l].alone
  BY <1>1, <1>2 DEF NoLongerAlone
<1>4. AloneIsAlone' /\ QuietScreenTellsConversation'
  BY <1>3 DEF AloneIsAlone, QuietScreenTellsConversation, Idle, Open
<1>5. Unskewed'
  BY <1>1, <1>3 DEF Unskewed, Idle, InFlight
<1>6. ASSUME ~skewed' PROVE UnderWay(t)' /\ \A u \in Turn : Open(u)' => u = t
  <2>1. Idle /\ ~skewed /\ seen.conv = conv /\ Tells(Base, conv)
    BY <1>1, <1>6 DEF Quiet, QuietScreenTellsConversation, Base
  <2> DEFINE B == Base
             d == IF conv = None THEN t ELSE conv
  <2>3. Finals' = Finals
    BY <1>1, FinalsStay DEF Finals, Role
  <2>4. Base' = B /\ ConvOf(t)' = d /\ StoredOf(t)' = <<>>
    BY <1>1, <1>3, <2>3 DEF Base, ConvOf, StoredOf
  <2>5. B \in Seq(Message) /\ d \in Turn /\ db[d] \in Seq(Message)
    <3>1. B \in Seq(Message)
      BY BaseFacts
    <3>2. d \in Turn
      BY DEF ChatTypeOK
    <3> QED
      BY <3>1, <3>2 DEF ChatTypeOK
  <2> DEFINE R == Range(B)
  <2>6. /\ conv = None => B = <<>>
        /\ Keep(db[d], R) = B
        /\ \A m \in Range(db[d]) : m \in R \/ GivenUp(m.turn)
    <3>1. CASE conv = None
      <4>1. B = <<>>
        BY <2>1, <3>1 DEF Tells
      <4>2. db[d] = <<>>
        BY <1>1, <3>1 DEF Handlers, Books
      <4> HIDE DEF B, d
      <4>3. Keep(<<>>, R) = <<>> /\ Range(<<>>) = {}
        BY KeepNothing DEF Range
      <4> QED
        BY <4>1, <4>2, <4>3
    <3>2. CASE conv # None
      BY <2>1, <3>2 DEF Tells
    <3> QED
      BY <3>1, <3>2
  <2> HIDE DEF B, d, R
  <2>7. \A i \in DOMAIN db[d] : db[d][i].turn \in Turn \ {t}
    BY <1>1, <2>5, MessagesOf DEF Books, Handlers, Handled
  <2>8. Keep(db[d], R \cup Answer(t)) = B
    <3>1. \A m \in Answer(t) : m.turn = t
      BY SaidType DEF Answer, Role
    <3>2. \A i \in DOMAIN db[d] : db[d][i] \in R <=> db[d][i] \in R \cup Answer(t)
      BY <2>7, <3>1
    <3> QED
      BY <2>5, <2>6, <3>2, KeepSame
  <2>9. B \o <<>> = B
    BY <2>5
  <2>10. \A m \in Range(db[d]) : m \in R \/ GivenUp(m.turn)'
    BY <1>3, <2>6, <2>7 DEF Range, GivenUp
  <2>11. /\ \A u \in Turn : Open(u)' => u = t
         /\ \A l \in Load : ~InFlight(l)'
    BY <1>3, <2>1 DEF Idle, Open, InFlight
  <2>12. Range(Base') = R
    BY <2>4 DEF R
  <2> QED
    BY <1>1, <1>3, <2>1, <2>4, <2>6, <2>8, <2>9, <2>10, <2>11, <2>12 DEF UnderWay, Handled
<1>7. TurnsUnderWay'
  BY <1>6 DEF TurnsUnderWay
<1> QED
  BY <1>4, <1>5, <1>7 DEF Quiet

LEMMA QuietPart ==
    ASSUME ChatTypeOK, Quiet, NEW t \in Turn, Part(t)
    PROVE  Quiet'
<1>1. /\ Open(t) /\ screen' = Append(screen, Shown(t, "assistant", "tmp"))
      /\ server' = server /\ db' = db /\ loads' = loads /\ conv' = conv /\ skewed' = skewed
      /\ \A u \in Turn : stream'[u].pc = stream[u].pc
      /\ screen \in Seq(OnScreen)
  BY DEF Part, serverVars, history, ChatTypeOK
<1>2. QuietScreenTellsConversation' /\ AloneIsAlone' /\ Unskewed'
  BY <1>1 DEF Quiet, QuietScreenTellsConversation, AloneIsAlone, Unskewed, Idle, Open, InFlight
<1>3. ASSUME UnderWay(t) PROVE UnderWay(t)' /\ \A u \in Turn : Open(u)' => u = t
  <2>1. Finals' = Finals
    BY <1>1, FinalsStay DEF Finals, Role
  <2>4. Base' = Base /\ ConvOf(t)' = ConvOf(t) /\ StoredOf(t)' = StoredOf(t)
    BY <1>1, <2>1 DEF Base, ConvOf, StoredOf
  <2>5. Range(Base') = Range(Base)
    BY <2>4
  <2>6. \A m \in Range(db[ConvOf(t)]) : m.turn \in Turn
    <3>1. ConvOf(t) \in Turn
      BY DEF ConvOf, ChatTypeOK
    <3> QED
      BY <3>1, MessagesOf DEF Range
  <2>7. \A u \in Turn : Open(u)' => u = t
    BY <1>1, <1>3 DEF UnderWay, Open
  <2> QED
    BY <1>1, <1>3, <2>4, <2>5, <2>6, <2>7 DEF UnderWay, GivenUp, InFlight
<1>4. TurnsUnderWay'
  BY <1>1, <1>3 DEF Quiet, TurnsUnderWay
<1> QED
  BY <1>2, <1>4 DEF Quiet

\* A stream is closed: its turn's messages become final, go or stay.
LEMMA QuietClose ==
    ASSUME ChatTypeOK, Handlers, Quiet, NEW t \in Turn, Complete(t) \/ CutOff(t) \/ (Open(t) /\ RollBack(t))
    PROVE  Quiet'
<1>1. /\ Open(t) /\ stream'[t].pc \in {"completed", "rolled_back", "cut"}
      /\ \A u \in Turn \ {t} : stream'[u] = stream[u]
      /\ server' = server /\ db' = db /\ loads' = loads /\ skewed' = skewed
  <2>1. DOMAIN stream = Turn
    BY DEF ChatTypeOK
  <2> QED
    BY <2>1 DEF Complete, Completed, CutOff, RollBack, Finally, serverVars, history, Open
<1>2. AloneIsAlone' /\ Unskewed'
  BY <1>1 DEF Quiet, AloneIsAlone, Unskewed, InFlight
<1>3. TurnsUnderWay'
  <2>1. ASSUME ~skewed, NEW u \in Turn, stream'[u].pc = "open" PROVE FALSE
    BY <1>1, <2>1 DEF Quiet, TurnsUnderWay, UnderWay, Open
  <2> QED
    BY <1>1, <2>1 DEF TurnsUnderWay, Open
<1>4. ASSUME ~skewed PROVE WillTell(Base', conv')
  <2> DEFINE d == ConvOf(t)
             B == Base
  <2>1. /\ UnderWay(t) /\ d \in Turn /\ B \in Seq(Message) /\ db[d] \in Seq(Message) /\ None \notin Turn
    <3>1. d \in Turn /\ None \notin Turn
      BY KimChatAssumption DEF ConvOf, ChatTypeOK, Turn
    <3> QED
      BY <1>1, <1>4, <3>1, BaseFacts DEF Quiet, TurnsUnderWay, ChatTypeOK
  <2>2. /\ Keep(db[d], Range(B)) = B /\ Keep(db[d], Range(B) \cup Answer(t)) = B \o StoredOf(t)
        /\ \A m \in Range(db[d]) : m.turn = t \/ m \in Range(B) \/ GivenUp(m.turn)
        /\ server[t].pc \in Handled => server[t].conv = d
        /\ conv = None => B = <<>>
    BY <2>1 DEF UnderWay
  <2>3. \A m \in Range(db[d]) :
            /\ m.turn = t => m \in Answer(t)
            /\ GivenUp(m.turn) => GivenUp(m.turn)'
    <3> TAKE m \in Range(db[d])
    <3>1. m \in Message /\ m.turn \in Turn /\ m = Said(m.turn, m.role) /\ m.role \in Role
      BY <2>1, MessagesOf DEF Range, Message
    <3> QED
      BY <1>1, <3>1 DEF Answer, Role, Open, GivenUp
  <2>4. CASE Complete(t)
    <3> DEFINE x == Shown(t, "user", "final")
               y == Shown(t, "assistant", "final")
               a == Said(t, "user")
               b == Said(t, "assistant")
               w == WithoutTmp(t)
    <3>1. /\ x \in OnScreen /\ Said(x.turn, x.role) = a /\ y \in OnScreen /\ Said(y.turn, y.role) = b
          /\ a \in Message /\ b \in Message
      BY SaidType DEF Role
    <3>2. w \in Seq(OnScreen)
      BY WithoutTmpFacts DEF ChatTypeOK
    <3>3. screen' = w \o <<x, y>> /\ conv' = server[t].conv /\ server[t].pc = "saved"
      BY <2>4 DEF Complete
    <3>4. conv' = d
      BY <2>2, <3>3 DEF Handled
    <3>5. StoredOf(t) = <<a, b>>
      BY <3>3 DEF StoredOf
    <3> HIDE DEF x, y, a, b, w, d
    <3>6. Finals' = Append(Append(Finals, x), y) /\ Finals \in Seq(OnScreen)
      <4> DEFINE v == Append(w, x)
      <4>1. w \o <<x, y>> = Append(v, y) /\ v \in Seq(OnScreen)
        BY <3>1, <3>2, TwoMore
      <4>2. x \in Final /\ y \in Final
        BY <3>1, SaidType DEF Final, Role, x, y
      <4>3. Keep(w, Final) = Finals
        BY FinalsStay DEF w
      <4>4. Keep(v, Final) = Append(Finals, x)
        BY <3>1, <3>2, <4>2, <4>3, KeepAppend
      <4> HIDE DEF v
      <4>5. Keep(Append(v, y), Final) = Append(Keep(v, Final), y)
        BY <3>1, <4>1, <4>2, KeepAppend
      <4>6. Finals \in Seq(OnScreen)
        BY KeepType DEF Finals, ChatTypeOK
      <4> QED
        BY <3>3, <4>1, <4>4, <4>5, <4>6 DEF Finals
    <3>7. Base' = Append(Append(B, a), b)
      <4> DEFINE f == Finals
                 v == Append(f, x)
      <4>1. f \in Seq(OnScreen) /\ v \in Seq(OnScreen)
        BY <3>1, <3>6
      <4>2. AsSaid(Append(f, x)) = Append(AsSaid(f), a)
        BY <3>1, <4>1, AsSaidAppend
      <4> HIDE DEF v
      <4>3. AsSaid(Append(v, y)) = Append(AsSaid(v), b)
        BY <3>1, <4>1, AsSaidAppend
      <4> QED
        BY <3>6, <4>2, <4>3 DEF v, Base
    <3> HIDE DEF B
    <3> DEFINE s == Append(Append(B, a), b)
    <3>8. Base' = s
      BY <3>7
    <3>9. s = B \o <<a, b>>
      BY <2>1, <3>1, TwoMore
    <3>10. Range(s) = Range(B) \cup Answer(t)
      <4> DEFINE v == Append(B, a)
      <4>1. v \in Seq(Message) /\ Range(v) = Range(B) \cup {a}
        BY <2>1, <3>1, RangeAppend
      <4> HIDE DEF v
      <4>2. Range(Append(v, b)) = Range(v) \cup {b}
        BY <3>1, <4>1, RangeAppend
      <4> QED
        BY <4>1, <4>2 DEF v, Answer, a, b
    <3> HIDE DEF s
    <3>11. s = Keep(db[d], Range(s))
      BY <2>2, <3>5, <3>9, <3>10
    <3>12. \A m \in Range(db[d]) : m \in Range(s) \/ GivenUp(m.turn)'
      BY <2>2, <2>3, <3>10
    <3> QED
      BY <1>1, <2>1, <3>4, <3>8, <3>11, <3>12 DEF WillTell
  <2>5. CASE RollBack(t) \/ CutOff(t)
    <3>1. Finals' = Finals /\ conv' = conv
      BY <2>5, FinalsStay DEF RollBack, CutOff, Finals
    <3>2. Base' = B /\ GivenUp(t)'
      <4>1. CASE RollBack(t)
        BY <1>1, <3>1, <4>1 DEF Base, RollBack, Finally, GivenUp, ChatTypeOK
      <4>2. CASE CutOff(t)
        BY <1>1, <3>1, <4>2 DEF Base, CutOff, Finally, GivenUp, ChatTypeOK
      <4> QED
        BY <2>5, <4>1, <4>2
    <3>3. \A m \in Range(db[d]) : m \in Range(B) \/ GivenUp(m.turn)'
      BY <2>2, <2>3, <3>2
    <3>4. conv # None => d = conv
      BY DEF ConvOf
    <3> HIDE DEF d, B
    <3> QED
      BY <1>1, <2>2, <3>1, <3>2, <3>3, <3>4 DEF WillTell
  <2> QED
    BY <2>4, <2>5
<1>5. QuietScreenTellsConversation'
  BY <1>1, <1>4 DEF QuietScreenTellsConversation, Tells, WillTell, Base
<1> QED
  BY <1>2, <1>3, <1>5 DEF Quiet

\* Conversations are chosen, read, shown and left.
LEMMA QuietLoad ==
    ASSUME ChatTypeOK, LoadsAreStored, Quiet,
           \/ NewConversation
           \/ \E l \in Load : \/ ListRead(l) \/ Loaded(l) \/ LoadFails(l)
                              \/ \E c \in convs : LoadConversation(l, c)
    PROVE  Quiet'
<1>0. /\ DOMAIN loads = Load
      /\ \A l \in Load : loads[l] = [pc |-> loads[l].pc, conv |-> loads[l].conv,
                                     msgs |-> loads[l].msgs, alone |-> loads[l].alone]
      /\ \A l \in Load : loads[l].msgs \in Seq(Message) /\ loads[l].alone \in BOOLEAN
      /\ \A c \in Turn : db[c] \in Seq(Message)
      /\ convs \subseteq Turn /\ None \notin Turn
      /\ \A l \in Load : loads[l].conv # None => loads[l].conv \in Turn
  <2>1. None \notin Turn
    BY KimChatAssumption DEF Turn
  <2> QED
    BY <2>1 DEF ChatTypeOK, RequestOf
<1>1. ASSUME NewConversation PROVE Quiet'
  <2>1. /\ conv' = None /\ screen' = <<>> /\ skewed' = ~Idle /\ stream' = stream
        /\ \A l \in Load : loads'[l].pc = loads[l].pc /\ ~loads'[l].alone
    BY <1>0, <1>1 DEF NewConversation, NoLongerAlone
  <2>2. AsSaid(Keep(<<>>, Final)) = <<>>
    BY KeepNothing DEF AsSaid
  <2>3. QuietScreenTellsConversation'
    BY <2>1, <2>2 DEF QuietScreenTellsConversation, Tells, Finals
  <2>4. TurnsUnderWay'
    BY <2>1 DEF TurnsUnderWay, Idle, Open
  <2>5. AloneIsAlone' /\ Unskewed'
    BY <2>1 DEF AloneIsAlone, Unskewed, Idle, InFlight
  <2> QED
    BY <2>3, <2>4, <2>5 DEF Quiet
<1>2. ASSUME NEW l \in Load, ListRead(l) PROVE Quiet'
  <2>1. /\ loads[l].pc = "asked" /\ loads'[l].pc = "read" /\ loads'[l].msgs = db[loads[l].conv]
        /\ loads'[l].conv = loads[l].conv /\ loads'[l].alone = loads[l].alone
        /\ \A k \in Load \ {l} : loads'[k] = loads[k]
        /\ db' = db /\ stream' = stream /\ conv' = conv /\ skewed' = skewed
    BY <1>0, <1>2 DEF ListRead, serverVars, history
  <2>2. InFlight(l) /\ InFlight(l)'
    BY <2>1 DEF InFlight
  <2>3. QuietScreenTellsConversation' /\ TurnsUnderWay'
    BY <2>1, <2>2 DEF Quiet, QuietScreenTellsConversation, TurnsUnderWay, UnderWay, Idle, Open
  <2>4. Unskewed'
    BY <2>1, <2>2 DEF Quiet, Unskewed, InFlight
  <2>5. ASSUME loads[l].alone PROVE Tells(loads'[l].msgs, conv)
    <3>1. loads[l].conv = conv /\ conv # None /\ db[conv] \in Seq(Message)
      BY <1>0, <2>5 DEF Quiet, AloneIsAlone
    <3>2. Keep(db[conv], Range(db[conv])) = db[conv]
      <4>1. \A i \in DOMAIN db[conv] : db[conv][i] \in Range(db[conv])
        BY DEF Range
      <4> QED
        BY <3>1, <4>1, KeepAll
    <3> QED
      BY <2>1, <3>1, <3>2 DEF Tells
  <2>6. AloneIsAlone'
    BY <2>1, <2>2, <2>5 DEF Quiet, AloneIsAlone, Tells, Open, GivenUp, InFlight
  <2> QED
    BY <2>3, <2>4, <2>6 DEF Quiet
<1>3. ASSUME NEW l \in Load, NEW c \in convs, LoadConversation(l, c) PROVE Quiet'
  <2>1. /\ conv' = c /\ skewed' = (skewed \/ ~Idle) /\ stream' = stream
        /\ loads'[l].pc = "asked" /\ loads'[l].conv = c /\ loads'[l].alone = Idle
        /\ \A k \in Load \ {l} : loads'[k].pc = loads[k].pc /\ ~loads'[k].alone
    BY <1>0, <1>3 DEF LoadConversation, NoLongerAlone, Overlaps
  <2>2. InFlight(l)' /\ c # None
    BY <1>0, <2>1 DEF InFlight
  <2>3. QuietScreenTellsConversation' /\ TurnsUnderWay'
    BY <2>1, <2>2 DEF QuietScreenTellsConversation, TurnsUnderWay, Idle, Open
  <2>4. AloneIsAlone' /\ Unskewed'
    BY <2>1, <2>2 DEF AloneIsAlone, Unskewed, Idle, Open, InFlight
  <2> QED
    BY <2>3, <2>4 DEF Quiet
<1>4. ASSUME NEW l \in Load, Loaded(l) PROVE Quiet'
  <2>1. /\ loads[l].pc = "read" /\ screen' = AsShown(loads[l].msgs)
        /\ loads'[l].pc = "done" /\ ~loads'[l].alone
        /\ \A k \in Load \ {l} : loads'[k] = loads[k]
        /\ db' = db /\ stream' = stream /\ conv' = conv /\ skewed' = (skewed /\ ~loads[l].alone)
    BY <1>0, <1>4 DEF Loaded, serverVars, NoLoad
  <2>2. InFlight(l) /\ ~InFlight(l)'
    BY <2>1 DEF InFlight
  <2>3. ~skewed' => loads[l].alone
    BY <2>1, <2>2 DEF Quiet, Unskewed
  <2>4. AsSaid(Finals)' = loads[l].msgs
    <3> DEFINE s == AsShown(loads[l].msgs)
    <3>1. /\ s \in Seq(OnScreen) /\ DOMAIN s = DOMAIN loads[l].msgs
          /\ \A i \in DOMAIN loads[l].msgs :
                s[i] = Shown(loads[l].msgs[i].turn, loads[l].msgs[i].role, "final")
      BY <1>0, AsShownType
    <3> HIDE DEF s
    <3>2. \A i \in DOMAIN s : s[i] \in Final
      <4> TAKE i \in DOMAIN s
      <4>1. s[i] \in OnScreen /\ s[i] = Shown(loads[l].msgs[i].turn, loads[l].msgs[i].role, "final")
        BY <3>1
      <4>2. s[i].kind = "final"
        BY <4>1 DEF Shown
      <4> QED
        BY <4>1, <4>2 DEF Final
    <3>3. Keep(s, Final) = s
      BY <3>1, <3>2, KeepAll
    <3> QED
      BY <1>0, <2>1, <3>3, AsSaidAsShown DEF Finals, s
  <2>5. QuietScreenTellsConversation'
    <3>1. loads[l].alone => Tells(loads[l].msgs, conv)
      BY <2>1 DEF Quiet, AloneIsAlone
    <3> QED
      BY <2>1, <2>3, <2>4, <3>1 DEF QuietScreenTellsConversation, Tells, GivenUp
  <2>6. TurnsUnderWay'
    BY <2>1, <2>3 DEF Quiet, AloneIsAlone, TurnsUnderWay, Open
  <2>7. AloneIsAlone'
    BY <2>1, <2>2 DEF Quiet, AloneIsAlone
  <2>8. Unskewed'
    BY <2>1, <2>2, <2>3 DEF Quiet, AloneIsAlone, Unskewed, InFlight
  <2> QED
    BY <2>5, <2>6, <2>7, <2>8 DEF Quiet
<1>5. ASSUME NEW l \in Load, LoadFails(l) PROVE Quiet'
  <2>1. /\ InFlight(l) /\ ~loads'[l].alone /\ skewed'
        /\ \A k \in Load \ {l} : loads'[k] = loads[k]
    BY <1>0, <1>5 DEF LoadFails, NoLoad
  <2>2. QuietScreenTellsConversation' /\ TurnsUnderWay' /\ Unskewed'
    BY <2>1 DEF QuietScreenTellsConversation, TurnsUnderWay, Unskewed
  <2>3. AloneIsAlone'
    BY <2>1 DEF Quiet, AloneIsAlone
  <2> QED
    BY <2>2, <2>3 DEF Quiet
<1> QED
  BY <1>1, <1>2, <1>3, <1>4, <1>5

LEMMA QuietStep ==
    ASSUME ChatTypeOK, Handlers, Books, LoadsAreStored, FinalMeansStored, Quiet,
           [ChatNext]_chatVars
    PROVE  Quiet'
<1>0. DOMAIN server = Turn
  BY DEF ChatTypeOK
<1>1. ASSUME NEW t \in Turn, Refuse(t) PROVE Quiet'
  <2>1. /\ stream' = stream /\ loads' = loads /\ screen' = screen /\ conv' = conv /\ skewed' = skewed
        /\ db' = db /\ server[t].pc = "posted"
        /\ server'[t].pc = "refused" /\ server'[t].conv = server[t].conv
        /\ \A u \in Turn \ {t} : server'[u] = server[u]
    BY <1>0, <1>1 DEF Refuse, ServerStep, tabVars
  <2> QED
    BY <2>1, QuietFrame DEF Open, GivenUp
<1>2. ASSUME NEW t \in Turn, AgentFails(t) PROVE Quiet'
  <2>1. /\ stream' = stream /\ loads' = loads /\ screen' = screen /\ conv' = conv /\ skewed' = skewed
        /\ db' = db /\ server[t].pc = "agent"
        /\ server'[t].pc = "failed" /\ server'[t].conv = server[t].conv
        /\ \A u \in Turn \ {t} : server'[u] = server[u]
    BY <1>0, <1>2 DEF AgentFails, ServerStep, tabVars
  <2> QED
    BY <2>1, QuietFrame DEF Open, GivenUp
<1>3. ASSUME Render \/ AnswerCard \/ UNCHANGED chatVars PROVE Quiet'
  <2>1. /\ stream' = stream /\ loads' = loads /\ screen' = screen /\ conv' = conv /\ skewed' = skewed
        /\ db' = db /\ server' = server
    BY <1>3 DEF Render, AnswerCard, chatVars, serverVars, history
  <2> QED
    BY <2>1, QuietFrame DEF Open, GivenUp
<1>4. ASSUME NEW t \in Turn, EndStream(t) PROVE Quiet'
  <2>1. /\ loads' = loads /\ screen' = screen /\ conv' = conv /\ skewed' = skewed
        /\ db' = db /\ server' = server
        /\ stream[t].pc = "completed" /\ stream'[t].pc = "done"
        /\ \A u \in Turn \ {t} : stream'[u] = stream[u]
    BY <1>4 DEF EndStream, Finally, serverVars, history, ChatTypeOK
  <2>2. \A u \in Turn : (Open(u)' <=> Open(u)) /\ (GivenUp(u)' <=> GivenUp(u))
    BY <2>1 DEF Open, GivenUp
  <2> QED
    BY <2>1, <2>2, QuietFrame
<1> QED
  BY <1>1, <1>2, <1>3, <1>4, LoadCases, QuietStores, QuietSend, QuietPart, QuietClose, QuietLoad DEF TurnStep
-----------------------------------------------------------------------------
(* The inductive invariant and what follows from it.                        *)

ChatIInv ==
    /\ ChatTypeOK
    /\ Handlers /\ Books /\ Filed
    /\ LoadsAreStored
    /\ TemporaryMeansOpen /\ FinalMeansStored
    /\ OneAtATime /\ OpenIsLast /\ TurnsDoNotInterleave
    /\ Quiet

LEMMA ChatInitHolds == ChatInit => ChatIInv
<1> SUFFICES ASSUME ChatInit PROVE ChatIInv
  OBVIOUS
<1>0. /\ convs = {} /\ screen = <<>> /\ conv = None
      /\ \A c \in Turn : db[c] = <<>>
      /\ \A t \in Turn : server[t] = [pc |-> "none", conv |-> None]
      /\ \A t \in Turn : stream[t] = [pc |-> "none", placeholder |-> FALSE]
      /\ \A l \in Load : loads[l] = NoLoad("none")
  BY DEF ChatInit
<1>1. ChatTypeOK
  <2>1. <<>> \in Seq(Message) /\ <<>> \in Seq(OnScreen)
    OBVIOUS
  <2>2. NoLoad("none") \in RequestOf({})
    BY <2>1 DEF NoLoad, RequestOf
  <2> QED
    BY <2>1, <2>2 DEF ChatInit, ChatTypeOK, HandlerOf, StreamOf
<1>2. Handlers /\ Books /\ Filed
  BY <1>0 DEF Handlers, Books, Filed, Handled
<1>3. LoadsAreStored
  BY <1>0 DEF LoadsAreStored, InFlight, NoLoad
<1>4. TemporaryMeansOpen /\ FinalMeansStored
  BY <1>0 DEF TemporaryMeansOpen, FinalMeansStored
<1>5. OneAtATime /\ OpenIsLast /\ TurnsDoNotInterleave
  BY <1>0 DEF OneAtATime, OpenIsLast, TurnsDoNotInterleave, Open, Reading
<1>6. Quiet
  <2>1. AsSaid(Keep(<<>>, Final)) = <<>>
    BY KeepNothing DEF AsSaid
  <2> QED
    BY <1>0, <2>1 DEF Quiet, QuietScreenTellsConversation, Tells, Finals, TurnsUnderWay, AloneIsAlone,
                      Unskewed, Open, InFlight, NoLoad
<1> QED
  BY <1>1, <1>2, <1>3, <1>4, <1>5, <1>6 DEF ChatIInv

LEMMA ChatStepHolds == ChatIInv /\ [ChatNext]_chatVars => ChatIInv'
<1> SUFFICES ASSUME ChatIInv, [ChatNext]_chatVars PROVE ChatIInv'
  OBVIOUS
<1> USE DEF ChatIInv
<1>1. ChatTypeOK'
  BY ChatTypeStep
<1>2. Handlers'
  BY HandlersStep
<1>3. Books' /\ Filed'
  BY BooksStep, FiledStep
<1>4. LoadsAreStored'
  BY LoadsAreStoredStep
<1>5. TemporaryMeansOpen' /\ FinalMeansStored'
  BY TemporaryMeansOpenStep, FinalMeansStoredStep
<1>6. OneAtATime' /\ OpenIsLast'
  BY OneAtATimeStep, OpenIsLastStep
<1>7. TurnsDoNotInterleave'
  BY TurnsDoNotInterleaveStep
<1>8. Quiet'
  BY QuietStep
<1> QED
  BY <1>1, <1>2, <1>3, <1>4, <1>5, <1>6, <1>7, <1>8

\* The whole invariant, for any number of turns and of loads.
LEMMA ChatInvariant == ChatSpec => []ChatIInv
  BY ChatInitHolds, ChatStepHolds, PTL DEF ChatSpec

\* Every variable keeps its shape, and every id that the tab holds, the one
\* in a closure or in the timer of a card included, is of a conversation
\* that exists.
THEOREM ChatTypeCorrect == ChatSpec => []ChatTypeOK
<1>1. ChatIInv => ChatTypeOK
  BY DEF ChatIInv
<1> QED
  BY <1>1, ChatInvariant, PTL

\* However streams, loads and clicks overlap, a temporary message on the
\* screen belongs to a stream that is still read, or to one that ended
\* without a last event (send, onComplete, onError).
THEOREM NoMessageLeftBehind == ChatSpec => []TemporaryMeansOpen
<1>1. ChatIInv => TemporaryMeansOpen
  BY DEF ChatIInv
<1> QED
  BY <1>1, ChatInvariant, PTL

\* What the screen shows as final is stored (saveAssistantMessage comes
\* before the last event of the stream).
THEOREM FinalIsStored == ChatSpec => []FinalMeansStored
<1>1. ChatIInv => FinalMeansStored
  BY DEF ChatIInv
<1> QED
  BY <1>1, ChatInvariant, PTL

\* Turns of a conversation are stored one after the other, unless the tab
\* lost one of them or sent from an old closure (the guard on `sending`).
THEOREM TurnsInOrder == ChatSpec => []TurnsDoNotInterleave
<1>1. ChatIInv => TurnsDoNotInterleave
  BY DEF ChatIInv
<1> QED
  BY <1>1, ChatInvariant, PTL

\* The final messages of a quiet screen that nothing overlapped tell the
\* current conversation, in its order, but for the turns the tab gave up.
THEOREM ScreenTellsConversation == ChatSpec => []QuietScreenTellsConversation
<1>1. ChatIInv => QuietScreenTellsConversation
  BY DEF ChatIInv, Quiet
<1> QED
  BY <1>1, ChatInvariant, PTL
=============================================================================
