----------------------------- MODULE PokerTimer -----------------------------
(***************************************************************************)
(* The countdown of a planning-poker session (api/internal/poker/hub.go,   *)
(* StartTimer and StopTimer): one goroutine per started timer, its ticker  *)
(* with room for one tick, its done channel, and the timer fields of the   *)
(* registry it was started on.  Registries come and go with the session's  *)
(* participants (PokerPresence); a goroutine keeps the one it closed over. *)
(* What is broadcast is left out.                                          *)
(***************************************************************************)
EXTENDS Integers

CONSTANTS Registry,   \* SessionConns objects
          Timer,      \* timer goroutines
          None,       \* nil
          Duration    \* the durations clients ask for, in seconds

ASSUME TimerAssumption == /\ None \notin Registry \cup Timer
                          /\ Duration \subseteq Int

VARIABLES
    conns,      \* hub.conns[session]
    made,       \* registries made so far
    running,    \* sc.timerRunning
    remaining,  \* sc.timerRemaining
    cancel,     \* sc.timerCancel: the goroutine it would stop, or nil
    pc,         \* per goroutine
    home,       \* per goroutine: the registry it closed over
    closed,     \* per goroutine: its done channel is closed
    ticked,     \* per goroutine: a tick waits in ticker.C
    op          \* the owner's message: [pc, sc, duration]

regVars == <<running, remaining, cancel>>
goVars  == <<pc, home, closed, ticked>>
vars == <<conns, made, regVars, goVars, op>>

NoOp == [pc |-> "idle", sc |-> None, duration |-> 0]

Init ==
    /\ conns = None /\ made = {}
    /\ running = [s \in Registry |-> FALSE]
    /\ remaining = [s \in Registry |-> 0]
    /\ cancel = [s \in Registry |-> None]
    /\ pc = [t \in Timer |-> "unused"]
    /\ home = [t \in Timer |-> None]
    /\ closed = [t \in Timer |-> FALSE]
    /\ ticked = [t \in Timer |-> FALSE]
    /\ op = NoOp

\* getOrCreateConns, for a participant who joins or for StartTimer.
GetOrCreate(s) ==
    \/ s = conns /\ s # None /\ UNCHANGED <<conns, made>>
    \/ /\ conns = None /\ s \in Registry \ made
       /\ conns' = s /\ made' = made \cup {s}

Join == /\ conns = None
        /\ \E s \in Registry : GetOrCreate(s)
        /\ UNCHANGED <<regVars, goVars, op>>

\* removeConnsIfEmpty after the last participant left: no timer is stopped.
Emptied == /\ conns # None
           /\ conns' = None
           /\ UNCHANGED <<made, regVars, goVars, op>>

-----------------------------------------------------------------------------
\* A message of the owner arrives; participantIsOwner looks in the registry.
OwnerAsks(what, d) ==
    /\ op.pc = "idle" /\ conns # None
    /\ op' = [pc |-> what, sc |-> None, duration |-> d]
    /\ UNCHANGED <<conns, made, regVars, goVars>>

\* "start_timer": getOrCreateConns ...
StartLookup ==
    /\ op.pc = "askedStart"
    /\ \E s \in Registry : /\ GetOrCreate(s)
                           /\ op' = [op EXCEPT !.pc = "start", !.sc = s]
    /\ UNCHANGED <<regVars, goVars>>

Cancelled(s) == closed' = [t \in Timer |-> closed[t] \/ t = cancel[s]]

\* Mutant: the new cancel function is installed before the old one is called.
StartTimerSwapped(t) ==
    LET s == op.sc IN
    /\ op.pc = "start" /\ pc[t] = "unused"
    /\ closed' = [closed EXCEPT ![t] = TRUE]
    /\ cancel' = [cancel EXCEPT ![s] = t]
    /\ running' = [running EXCEPT ![s] = TRUE]
    /\ remaining' = [remaining EXCEPT ![s] = op.duration]
    /\ pc' = [pc EXCEPT ![t] = "run"]
    /\ home' = [home EXCEPT ![t] = s]
    /\ op' = NoOp
    /\ UNCHANGED <<conns, made, ticked>>

\* ... then, under its mutex, the old timer is cancelled and a new one made.
StartTimer(t) ==
    LET s == op.sc IN
    /\ op.pc = "start" /\ pc[t] = "unused"
    /\ Cancelled(s)
    /\ cancel' = [cancel EXCEPT ![s] = t]
    /\ running' = [running EXCEPT ![s] = TRUE]
    /\ remaining' = [remaining EXCEPT ![s] = op.duration]
    /\ pc' = [pc EXCEPT ![t] = "run"]
    /\ home' = [home EXCEPT ![t] = s]
    /\ op' = NoOp
    /\ UNCHANGED <<conns, made, ticked>>

\* "stop_timer": getConns ...
StopLookup ==
    /\ op.pc = "askedStop"
    /\ op' = IF conns = None THEN NoOp ELSE [op EXCEPT !.pc = "stop", !.sc = conns]
    /\ UNCHANGED <<conns, made, regVars, goVars>>

\* Mutant: timerCancel is called and kept.
StopTimerKeeps ==
    /\ op.pc = "stop"
    /\ Cancelled(op.sc)
    /\ running' = [running EXCEPT ![op.sc] = FALSE]
    /\ op' = NoOp
    /\ UNCHANGED <<conns, made, remaining, cancel, pc, home, ticked>>

\* ... then the critical section.
StopTimer ==
    /\ op.pc = "stop"
    /\ Cancelled(op.sc)
    /\ cancel' = [cancel EXCEPT ![op.sc] = None]
    /\ running' = [running EXCEPT ![op.sc] = FALSE]
    /\ op' = NoOp
    /\ UNCHANGED <<conns, made, remaining, pc, home, ticked>>

-----------------------------------------------------------------------------
\* time.Ticker: a tick is dropped while the last one waits.
Tick(t) ==
    /\ pc[t] = "run" /\ ~ticked[t]
    /\ ticked' = [ticked EXCEPT ![t] = TRUE]
    /\ UNCHANGED <<conns, made, regVars, pc, home, closed, op>>

\* select: done is closed.
Quit(t) ==
    /\ pc[t] = "run" /\ closed[t]
    /\ pc' = [pc EXCEPT ![t] = "over"]
    /\ UNCHANGED <<conns, made, regVars, home, closed, ticked, op>>

\* select: a tick is there.  When done is closed too, select picks either.
TakeTick(t) ==
    /\ pc[t] = "run" /\ ticked[t]
    /\ ticked' = [ticked EXCEPT ![t] = FALSE]
    /\ pc' = [pc EXCEPT ![t] = "count"]
    /\ UNCHANGED <<conns, made, regVars, home, closed, op>>

Decreased(n) == IF n > 0 THEN n - 1 ELSE n

\* Mutant: an expired timer stays marked as running.
CountKeepsRunning(t) ==
    LET s == home[t]
        left == Decreased(remaining[s])
    IN  /\ pc[t] = "count"
        /\ remaining' = [remaining EXCEPT ![s] = left]
        /\ cancel' = [cancel EXCEPT ![s] = IF left = 0 THEN None ELSE @]
        /\ pc' = [pc EXCEPT ![t] = IF left = 0 THEN "over" ELSE "run"]
        /\ UNCHANGED <<conns, made, running, home, closed, ticked, op>>

\* The critical section of a tick, on whatever timer the registry has by now.
Count(t) ==
    LET s == home[t]
        left == Decreased(remaining[s])
    IN  /\ pc[t] = "count"
        /\ remaining' = [remaining EXCEPT ![s] = left]
        /\ running' = [running EXCEPT ![s] = @ /\ left # 0]
        /\ cancel' = [cancel EXCEPT ![s] = IF left = 0 THEN None ELSE @]
        /\ pc' = [pc EXCEPT ![t] = IF left = 0 THEN "over" ELSE "run"]
        /\ UNCHANGED <<conns, made, home, closed, ticked, op>>

-----------------------------------------------------------------------------
Goroutine(t) == Tick(t) \/ Quit(t) \/ TakeTick(t) \/ Count(t)

Handler == StartLookup \/ StopLookup \/ StopTimer \/ \E t \in Timer : StartTimer(t)

Next == \/ Join \/ Emptied
        \/ OwnerAsks("askedStop", 0) \/ \E d \in Duration : OwnerAsks("askedStart", d)
        \/ Handler
        \/ \E t \in Timer : Goroutine(t)

Spec == Init /\ [][Next]_vars

\* Goroutines and tickers run; nobody has to join, leave, start or stop.
FairSpec == /\ Spec
            /\ WF_vars(Handler)
            /\ \A t \in Timer : WF_vars(Goroutine(t))

-----------------------------------------------------------------------------
\* Every variable has its type.
TypeOK ==
    /\ conns \in made \cup {None} /\ made \subseteq Registry
    /\ running \in [Registry -> BOOLEAN]
    /\ remaining \in [Registry -> Int]
    /\ cancel \in [Registry -> Timer \cup {None}]
    /\ pc \in [Timer -> {"unused", "run", "count", "over"}]
    /\ home \in [Timer -> Registry \cup {None}]
    /\ closed \in [Timer -> BOOLEAN]
    /\ ticked \in [Timer -> BOOLEAN]
    /\ op \in [pc : {"idle", "askedStart", "askedStop", "start", "stop"},
               sc : Registry \cup {None}, duration : Duration \cup {0}]
    /\ op.pc \in {"start", "stop"} => op.sc # None

\* timerCancel closes a channel nobody has closed: a second close would panic.
NoDoubleClose == \A s \in Registry : cancel[s] # None => ~closed[cancel[s]]

\* A timer shown as running has a goroutine that counts it down.
RunningIsDriven ==
    \A s \in Registry : running[s] =>
        \E t \in Timer : home[t] = s /\ pc[t] \in {"run", "count"} /\ ~closed[t]

\* A timer that was started with no duration below zero does not run for ever,
\* unless one below zero is started in its place: that one never meets 0.
TimerEnds == \A s \in Registry : (running[s] /\ remaining[s] >= 0)
                 ~> (~running[s] \/ remaining[s] < 0)
=============================================================================
