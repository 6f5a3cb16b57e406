------------------------------ MODULE DayCycles ------------------------------
(***************************************************************************)
(* The planning cycles of one user: a scan, every five minutes, compares   *)
(* the clock with the user's wake and sleep time and with the stamp of the *)
(* last run of each cycle, and inserts a River job for the cycle that is   *)
(* due; a worker runs the job, which calls the agent and then stamps the   *)
(* cycle with the time at which it ended.  Nothing else keeps a cycle from *)
(* running twice, or sees that it ran at all.                              *)
(*                                                                         *)
(* Time is the user's local time in half hours, the period of River's      *)
(* unique jobs; wake and sleep times are full or half hours.               *)
(*                                                                         *)
(* Bounds: Days days of Day half hours, MaxJobs jobs.                      *)
(***************************************************************************)
EXTENDS Integers

CONSTANTS
    Setting,      \* the wake and sleep times a profile may have
    Day,          \* half hours of a day
    Days,
    MaxJobs,
    MaxAttempts,
    Never         \* a stamp that was never written

Job == 1..MaxJobs
Time == 0..(Days * Day)

ASSUME DayCyclesAssumption ==
    /\ Day \in Nat \ {0} /\ Days \in Nat
    /\ MaxJobs \in Nat /\ MaxAttempts \in Nat \ {0}
    /\ Setting \subseteq [wake : 0..(Day - 1), sleep : 0..(Day - 1)]
    /\ Never \notin Int

VARIABLES
    user,     \* the profile: wake_time and sleep_time
    now,
    last,     \* the profile: last_morning_plan, last_evening_review, last_evening_plan
    scan,     \* the scan job: the cycle found due and when, and whether one ended in this half hour
    jobs,     \* river_job: the daily cycles, in the order they were inserted
    ran       \* history: the days on which each cycle was stamped

vars == <<user, now, last, scan, jobs, ran>>

Cycle == {"morning_plan", "evening_review", "evening_plan"}
NoJob == [cycle |-> "none", slot |-> 0, state |-> "none", step |-> "none", attempt |-> 0,
          slow |-> FALSE, unstamped |-> FALSE, late |-> FALSE]

DayOf(t) == t \div Day

\* The half hours of the day in which a cycle may be due; the bounds are
\* not taken modulo the day.
Window(u, c) ==
    CASE c = "morning_plan"   -> u.wake .. (u.wake + 1)
      [] c = "evening_review" -> (u.sleep - 8) .. (u.sleep - 5)
      [] c = "evening_plan"   -> (u.sleep - 4) .. (u.sleep - 1)

\* Mutant: a cycle that has ever run counts as run today.
RanEver(c) == last[c] # Never

\* Mutant: only a run of this half hour counts.
RanJustNow(c) == last[c] # Never /\ last[c] >= now

RanToday(c) == last[c] # Never /\ last[c] >= DayOf(now) * Day

Due(c) == (now % Day) \in Window(user, c) /\ ~RanToday(c)

\* determineDueCycle: the first cycle that is due
DueCycle ==
    CASE Due("morning_plan")   -> "morning_plan"
      [] ~Due("morning_plan") /\ Due("evening_review") -> "evening_review"
      [] ~Due("morning_plan") /\ ~Due("evening_review") /\ Due("evening_plan") -> "evening_plan"
      [] OTHER -> "none"

Init ==
    /\ user \in Setting
    /\ now = 0
    /\ last = [c \in Cycle |-> Never]
    /\ scan = [pc |-> "idle", cycle |-> "none", at |-> 0, done |-> FALSE]
    /\ jobs = [j \in Job |-> NoJob]
    /\ ran = {}

Unfinished(j) == jobs[j].state \in {"available", "running"}

\* Half an hour passes, with at least one scan begun in it that does not
\* fail: of the scans of a half hour there are six.
Tick ==
    /\ now < Days * Day
    /\ scan.done
    /\ now' = now + 1
    /\ scan' = [scan EXCEPT !.done = FALSE]
    /\ jobs' = [j \in Job |-> [jobs[j] EXCEPT !.slow = @ \/ Unfinished(j)]]
    /\ UNCHANGED <<user, last, ran>>

-----------------------------------------------------------------------------
(* schedulerScanWorker *)

\* CheckDueCycles reads the profile.
ScanReads ==
    /\ scan.pc = "idle"
    /\ scan' = IF DueCycle = "none" THEN [scan EXCEPT !.done = TRUE]
               ELSE [scan EXCEPT !.pc = "insert", !.cycle = DueCycle, !.at = now]
    /\ UNCHANGED <<user, now, last, jobs, ran>>

ScanEnds == scan' = [scan EXCEPT !.pc = "idle", !.cycle = "none", !.at = 0,
                                 !.done = @ \/ scan.at = now]

\* UniqueOpts: a job of the same cycle and the same half hour that was not
\* given up
Duplicate(c) ==
    \E j \in Job : jobs[j].cycle = c /\ jobs[j].slot = now /\ jobs[j].state # "discarded"

ScanSkips ==
    /\ scan.pc = "insert" /\ Duplicate(scan.cycle)
    /\ ScanEnds
    /\ UNCHANGED <<user, now, last, jobs, ran>>

ScanInserts(j) ==
    /\ scan.pc = "insert" /\ ~Duplicate(scan.cycle)
    /\ jobs[j].state = "none" /\ \A k \in 1..(j - 1) : jobs[k].state # "none"
    /\ jobs' = [jobs EXCEPT ![j] = [NoJob EXCEPT
                   !.cycle = scan.cycle, !.slot = now, !.state = "available",
                   !.late = scan.at # now]]
    /\ ScanEnds
    /\ UNCHANGED <<user, now, last, ran>>

\* The insert, or the scan, fails, which is logged: the next scan tries again.
ScanFails ==
    /\ scan.pc = "insert"
    /\ scan' = [scan EXCEPT !.pc = "idle", !.cycle = "none", !.at = 0]
    /\ UNCHANGED <<user, now, last, jobs, ran>>

-----------------------------------------------------------------------------
(* dailyCycleWorker *)

\* River hands the job to a worker; RunUserCycle does not ask again whether
\* the cycle is due.
Start(j) ==
    /\ jobs[j].state = "available"
    /\ jobs' = [jobs EXCEPT ![j].state = "running", ![j].step = "agent", ![j].attempt = @ + 1]
    /\ UNCHANGED <<user, now, last, scan, ran>>

\* The agent answers and its message is stored.
AgentAnswers(j) ==
    /\ jobs[j].step = "agent"
    /\ jobs' = [jobs EXCEPT ![j].step = "stamp"]
    /\ UNCHANGED <<user, now, last, scan, ran>>

GivenBack(j) ==
    jobs' = [jobs EXCEPT ![j].step = "none",
                         ![j].state = IF jobs[j].attempt < MaxAttempts THEN "available"
                                      ELSE "discarded"]

\* A query or the agent fails: River tries again, or gives the job up.
CycleFails(j) ==
    /\ jobs[j].step = "agent"
    /\ GivenBack(j)
    /\ UNCHANGED <<user, now, last, scan, ran>>

\* The cycle is stamped with the time of now ...
Stamp(j) ==
    /\ jobs[j].step = "stamp"
    /\ last' = [last EXCEPT ![jobs[j].cycle] = now]
    /\ ran' = ran \cup {<<jobs[j].cycle, DayOf(now)>>}
    /\ jobs' = [jobs EXCEPT ![j].state = "completed", ![j].step = "none"]
    /\ UNCHANGED <<user, now, scan>>

\* ... or the UPDATE fails, which is logged, and the job is complete as well.
StampFails(j) ==
    /\ jobs[j].step = "stamp"
    /\ jobs' = [jobs EXCEPT ![j].state = "completed", ![j].step = "none", ![j].unstamped = TRUE]
    /\ UNCHANGED <<user, now, last, scan, ran>>

\* The worker process dies in the attempt, and the job is rescued, later.
Rescued(j) ==
    /\ jobs[j].state = "running" /\ jobs[j].slow
    /\ GivenBack(j)
    /\ UNCHANGED <<user, now, last, scan, ran>>

Next ==
    \/ Tick \/ ScanReads \/ ScanSkips \/ ScanFails
    \/ \E j \in Job :
          \/ ScanInserts(j) \/ Start(j) \/ AgentAnswers(j) \/ CycleFails(j)
          \/ Stamp(j) \/ StampFails(j) \/ Rescued(j)

Spec == Init /\ [][Next]_vars

-----------------------------------------------------------------------------
(* Properties *)

\* The state has the shape the code gives it.
TypeOK ==
    /\ user \in Setting
    /\ now \in Time
    /\ last \in [Cycle -> Time \cup {Never}]
    /\ scan \in [pc : {"idle", "insert"}, cycle : Cycle \cup {"none"}, at : Time, done : BOOLEAN]
    /\ jobs \in [Job -> [cycle : Cycle \cup {"none"}, slot : Time,
                         state : {"none", "available", "running", "completed", "discarded"},
                         step : {"none", "agent", "stamp"}, attempt : 0..MaxAttempts,
                         slow : BOOLEAN, unstamped : BOOLEAN, late : BOOLEAN]]
    /\ ran \subseteq Cycle \X (0..Days)

SameDay(j, k) ==
    jobs[j].cycle = jobs[k].cycle /\ DayOf(jobs[j].slot) = DayOf(jobs[k].slot)

\* An attempt of the job ended in an error, perhaps after the agent's tools
\* had acted.
Failed(j) == jobs[j].attempt > (IF jobs[j].state \in {"running", "completed"} THEN 1 ELSE 0)

\* Attempt n of job k comes after attempt m of job j, for the same cycle and
\* day: each of them asks the agent to plan.
AskedAgain(j, m, k, n) ==
    /\ m \in 1..jobs[j].attempt /\ n \in 1..jobs[k].attempt
    /\ SameDay(j, k)
    /\ j < k \/ (j = k /\ m < n)

\* The agent is asked once a day to plan a cycle, as the comment on the
\* unique jobs says, unless an attempt of the earlier job failed (River
\* tries it again, or the next scan inserts another), or the job outlived
\* the half hour in which it was inserted, or its stamp was lost, or the
\* scan that inserted the later one was slow: only the stamp and the unique
\* period, together, keep the agent from planning a day twice.
AskedOnceADay ==
    \A j, k \in Job : \A m, n \in 1..MaxAttempts :
        AskedAgain(j, m, k, n) =>
            Failed(j) \/ jobs[j].slow \/ jobs[j].unstamped \/ jobs[k].late

\* A claim the code does not keep, for an attempt that fails after its tools
\* have acted is repeated as a whole: "one cycle per user per day".
NeverAskedAgain ==
    \A j, k \in Job : \A m, n \in 1..MaxAttempts : ~AskedAgain(j, m, k, n)

\* A day that is over and on which a cycle was not stamped, though it has
\* hours of its own, has a job of the cycle to blame, inserted on that day,
\* that was given up, slow or not stamped.  The windows, the
\* stamps and the unique period alone leave no day out (determineDueCycle,
\* ranToday), but for hours that lie before midnight of the day before or
\* that two cycles share.
HoursOfItsOwn(c) ==
    /\ Window(user, c) \cap (0..(Day - 1)) # {}
    /\ \A b \in Cycle \ {c} : Window(user, b) \cap Window(user, c) = {}

MissedDayHasACause ==
    \A c \in Cycle, d \in 0..(Days - 1) :
        (now >= (d + 1) * Day /\ HoursOfItsOwn(c)) =>
            \/ <<c, d>> \in ran
            \/ \E j \in Job :
                  /\ jobs[j].cycle = c /\ DayOf(jobs[j].slot) = d
                  /\ jobs[j].state = "discarded" \/ jobs[j].slow \/ jobs[j].unstamped
=============================================================================
