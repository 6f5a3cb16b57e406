-------------------------- MODULE MCPokerPresence --------------------------
(* PokerPresence on small sets, for TLC. *)
EXTENDS PokerPresence, TLC

-----------------------------------------------------------------------------
(* What comments of the code say and a run of it need not do.  Given as the *)
(* property of this module's configuration, each has a counterexample.      *)

\* hub.go:117: AddParticipant registers a new live connection.
JoinedIsMember ==
    [][\A w \in Socket : pc[w] = "adding" /\ pc'[w] = "joined" => who[w] \in Members']_vars

\* hub.go:134-135: within the grace period, a participant can reconnect; one
\* that has is not removed by the grace goroutine.
OnlyDisconnectedPurged ==
    [][\A w \in Socket :
         pc[w] = "purge" /\ pc'[w] = "prune" /\ who[w] \in Members => ~connected[who[w]]]_vars

\* handler.go:21-22: a record is kept for the grace period, counted from the
\* last disconnection.
GraceRespected ==
    [][\A w, v \in Socket :
         pc[w] = "grace" /\ pc'[w] = "purge" /\ who[v] = who[w] /\ pc[v] = "grace"
             => sleep[v] = 0]_vars

\* hub.go:96-97: the registry of a session no one is watching is freed.
EmptyIsFreed ==
    (conns # None /\ Members = {}) ~> ~(conns # None /\ Members = {})
=============================================================================
