------------------------- MODULE PokerTimer_proofs -------------------------
(***************************************************************************)
(* Theorems about PokerTimer for any registries, goroutines and durations. *)
(* Neither NoDoubleClose nor RunningIsDriven is inductive: a cancel        *)
(* function left behind in one registry could stop another's goroutine.    *)
(* CancelIsLive says that it belongs to the registry and that its          *)
(* goroutine has neither been cancelled nor expired.                       *)
(***************************************************************************)
EXTENDS PokerTimer, TLAPS

CancelIsLive ==
    \A s \in Registry : cancel[s] # None =>
        /\ cancel[s] \in Timer
        /\ home[cancel[s]] = s
        /\ pc[cancel[s]] \in {"run", "count"}
        /\ ~closed[cancel[s]]

RunningHasCancel == \A s \in Registry : running[s] => cancel[s] # None

\* A goroutine at work counts on a registry; one not started is not cancelled.
Started == \A t \in Timer : /\ pc[t] \in {"run", "count"} => home[t] \in Registry
                            /\ pc[t] = "unused" => ~closed[t]

IInv == TypeOK /\ Started /\ CancelIsLive /\ RunningHasCancel

-----------------------------------------------------------------------------
\* Whatever StartTimer is asked for is a number.
LEMMA DurationIsInt == \A d \in Duration \cup {0} : d \in Int
<1>1. Duration \subseteq Int
  BY Zenon, TimerAssumption
<1> QED
  BY <1>1

\* The invariant holds before the first message.
LEMMA InitIInv == Init => IInv
  BY TimerAssumption DEF Init, IInv, TypeOK, CancelIsLive, RunningHasCancel, Started, NoOp

\* Types are kept by every step; the homes of goroutines at work serve Count.
LEMMA TypeStep == IInv /\ [Next]_vars => TypeOK'
<1> SUFFICES ASSUME TypeOK, Started, [Next]_vars PROVE TypeOK'
  BY DEF IInv
<1> USE DEF TypeOK, Started, regVars, goVars, NoOp
<1>1. CASE Join
  BY <1>1 DEF Join, GetOrCreate
<1>2. CASE Emptied
  BY <1>2 DEF Emptied
<1>3. CASE OwnerAsks("askedStop", 0)
  BY <1>3 DEF OwnerAsks
<1>4. ASSUME NEW d \in Duration, OwnerAsks("askedStart", d) PROVE TypeOK'
  BY <1>4 DEF OwnerAsks
<1>5. CASE StartLookup
  BY <1>5, TimerAssumption DEF StartLookup, GetOrCreate
<1>6. CASE StopLookup
  BY <1>6, TimerAssumption DEF StopLookup
<1>7. CASE StopTimer
  BY <1>7 DEF StopTimer, Cancelled
<1>8. ASSUME NEW t \in Timer, StartTimer(t) PROVE TypeOK'
  <2>1. op.sc \in Registry
    BY <1>8 DEF StartTimer
  <2>3. op.duration \in Int
    BY DurationIsInt
  <2>2. NoOp \in [pc : {"idle", "askedStart", "askedStop", "start", "stop"},
                  sc : Registry \cup {None}, duration : Duration \cup {0}]
    OBVIOUS
  <2> QED
    BY <1>8, <2>1, <2>2, <2>3 DEF StartTimer, Cancelled
<1>9. ASSUME NEW t \in Timer, Tick(t) \/ Quit(t) \/ TakeTick(t) PROVE TypeOK'
  BY <1>9 DEF Tick, Quit, TakeTick
<1>10. ASSUME NEW t \in Timer, Count(t) PROVE TypeOK'
  BY <1>10 DEF Count, Decreased
<1>11. CASE UNCHANGED vars
  BY <1>11 DEF vars
<1> QED
  BY <1>1, <1>2, <1>3, <1>4, <1>5, <1>6, <1>7, <1>8, <1>9, <1>10, <1>11
  DEF Next, Handler, Goroutine

\* What timerCancel refers to stays live, and a running timer keeps one.
LEMMA CancelStep ==
    IInv /\ [Next]_vars => (Started /\ CancelIsLive /\ RunningHasCancel)'
<1> SUFFICES ASSUME IInv, [Next]_vars
             PROVE  (Started /\ CancelIsLive /\ RunningHasCancel)'
  OBVIOUS
<1> USE DEF IInv, TypeOK, Started, CancelIsLive, RunningHasCancel, regVars, goVars
<1>1. CASE StopTimer
  <2>1. op.sc \in Registry
    BY <1>1 DEF StopTimer
  <2>2. \A s \in Registry : cancel[s] # None /\ s # op.sc => cancel[s] # cancel[op.sc]
    BY <2>1
  <2>3. \A t \in Timer : pc[t] = "unused" => t # cancel[op.sc]
    BY <2>1, TimerAssumption
  <2> QED
    BY <1>1, <2>1, <2>2, <2>3, TimerAssumption DEF StopTimer, Cancelled
<1>2. ASSUME NEW t \in Timer, StartTimer(t) PROVE (Started /\ CancelIsLive /\ RunningHasCancel)'
  \* t was unused: no cancel function refers to it, nor is it closed yet.
  <2>1. \A s \in Registry : cancel[s] # t
    BY <1>2, TimerAssumption DEF StartTimer
  <2>2. op.sc \in Registry /\ ~closed[t]
    BY <1>2, TimerAssumption DEF StartTimer
  <2> QED
    BY <1>2, <2>1, <2>2, TimerAssumption DEF StartTimer, Cancelled
<1>3. ASSUME NEW t \in Timer, Quit(t) PROVE (Started /\ CancelIsLive /\ RunningHasCancel)'
  BY <1>3 DEF Quit
<1>4. ASSUME NEW t \in Timer, Tick(t) \/ TakeTick(t) PROVE (Started /\ CancelIsLive /\ RunningHasCancel)'
  BY <1>4 DEF Tick, TakeTick
<1>5. ASSUME NEW t \in Timer, Count(t) PROVE (Started /\ CancelIsLive /\ RunningHasCancel)'
  \* Only the cancel function of its own registry can refer to t.
  BY <1>5 DEF Count
<1>6. CASE UNCHANGED <<running, cancel, pc, home, closed>>
  BY <1>6
<1>7. Join \/ Emptied \/ OwnerAsks("askedStop", 0) \/ StartLookup \/ StopLookup
         \/ (\E d \in Duration : OwnerAsks("askedStart", d)) \/ UNCHANGED vars
      => UNCHANGED <<running, cancel, pc, home, closed>>
  BY DEF Join, Emptied, OwnerAsks, StartLookup, StopLookup, vars
<1> QED
  BY <1>1, <1>2, <1>3, <1>4, <1>5, <1>6, <1>7 DEF Next, Handler, Goroutine

\* The inductive invariant holds in every reachable state.
THEOREM Invariant == Spec => []IInv
<1>1. IInv /\ [Next]_vars => IInv'
  BY TypeStep, CancelStep DEF IInv
<1> QED
  BY InitIInv, <1>1, PTL DEF Spec

-----------------------------------------------------------------------------
\* Every variable keeps its type.
THEOREM TypeCorrect == Spec => []TypeOK
<1>1. IInv => TypeOK
  BY DEF IInv
<1> QED
  BY Invariant, <1>1, PTL

\* Neither StartTimer nor StopTimer closes a done channel twice: no panic.
THEOREM NoPanic == Spec => []NoDoubleClose
<1>1. IInv => NoDoubleClose
  BY DEF IInv, CancelIsLive, NoDoubleClose
<1> QED
  BY Invariant, <1>1, PTL

\* A timer shown as running is counted down by a goroutine of its registry.
THEOREM NeverStuck == Spec => []RunningIsDriven
<1>1. IInv => RunningIsDriven
  BY DEF IInv, CancelIsLive, RunningHasCancel, RunningIsDriven
<1> QED
  BY Invariant, <1>1, PTL
=============================================================================
