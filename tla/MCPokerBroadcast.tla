-------------------------- MODULE MCPokerBroadcast --------------------------
(* PokerBroadcast on small sets, for TLC. *)
EXTENDS PokerBroadcast, TLC

\* What a guard or a property of the run can tell apart: of what is built and
\* received only whether it is the newest version, and nothing of a socket that
\* is nobody's connection any more.
ServerView ==
    <<session, locks, pc, who, after, todo, peer,
      {h \in Socket : built[h] = version},
      {p \in Person : Attended(p) /\ best[conn[p]] = version}>>

-----------------------------------------------------------------------------
(* What comments of the code say and a run of it need not do.  Given as the *)
(* property of this module's configuration, each has a counterexample.      *)

WritesTo(h, w) ==
    \/ pc[h] \in {"write", "kickWrite"} /\ conn[peer[h]] = w
    \/ pc[h] \in {"rawWrite", "againWrite"} /\ h = w

\* hub.go:49-50: goroutines never interleave writes on the same socket.
OneWriterPerSocket ==
    \A w, h, g \in Socket : WritesTo(h, w) /\ WritesTo(g, w) => h = g

\* session.go:226-227: a message is routed to its operation, which then
\* triggers a broadcast of updated state.
EveryChangeIsHeard ==
    Quiet => \A p \in members : Attended(p) => best[conn[p]] = version

\* hub.go:223-224: the current state is what participants are left with.  A
\* broadcast or a reply that reads before another broadcast and writes after
\* it breaks this, with every broadcast built.
ViewsAreCurrent ==
    Quiet /\ ~unsaid => \A p \in members : Attended(p) => view[conn[p]] = version
=============================================================================
