---------------------------- MODULE MCPokerTimer ----------------------------
(* PokerTimer on small sets, for TLC. *)
EXTENDS PokerTimer, TLC

\* Durations clients ask for: any integer is taken.  The countdown stops at 0,
\* so one below it is another case.
Durations == -1..2

-----------------------------------------------------------------------------
(* What comments of the code say and a run of it need not do.  Given as the *)
(* property of this module's configuration, each has a counterexample.      *)

Uncancelled(t) == pc[t] \in {"run", "count"} /\ ~closed[t]

\* hub.go:296: any running timer is cancelled when another is started, so a
\* registry has one goroutine that counts on ...
OneTimerPerRegistry ==
    \A t, u \in Timer : t # u /\ Uncancelled(t) /\ Uncancelled(u) => home[t] # home[u]

\* ... and so has the session, whose registry may be another by then.
OneTimerPerSession ==
    \A t, u \in Timer : Uncancelled(t) /\ Uncancelled(u) => t = u

\* hub.go:296: "When it expires": one with a duration below zero never does.
EveryTimerEnds == \A s \in Registry : running[s] ~> ~running[s]

\* hub.go:350: a stopped timer counts no more.
CancelledCountsNoMore ==
    [][\A t \in Timer : closed[t] => remaining' = remaining \/ pc'[t] = pc[t]]_vars
=============================================================================
